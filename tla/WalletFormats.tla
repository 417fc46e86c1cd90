---------------------------- MODULE WalletFormats ----------------------------
(***************************************************************************)
(* What a wallet goes through between two forms: the JSON of a standard      *)
(* file, the few bytes of a compact one, the public export, and the way from *)
(* a singlesig wallet's export to a cosigner of a multisig wallet.           *)
(*                                                                         *)
(* memory is the wallet a command has opened and file the last file made of  *)
(* it.  expected and signer are history: what the file is meant to hold, and *)
(* the singlesig wallet that joined the multisig wallet.  Encryption,        *)
(* padding and file names are the business of other modules.                 *)
(***************************************************************************)
EXTENDS CompactEncoding

CONSTANTS
    Mnemonic,           \* numbers of mnemonics
    SeedPw,             \* seed passwords, NoPw among them
    NoPw,
    BodyOf(_, _, _),    \* the key derived from a mnemonic and a password along a path
    FingerprintOf(_, _),
    Multisigs,          \* [configuration, receiving, change]: what sessions have collected
    Partner,            \* [receiving, change]: the other cosigner of a wallet to be founded
    Nothing             \* no wallet, no file

VARIABLES memory, file, expected, signer, broken

vars == << memory, file, expected, signer, broken >>

Network == {"bitcoin", "testnet"}
Kind(network) == IF network = "bitcoin" THEN "Main" ELSE "Test"
Coin(network) == S132!Hardened(IF network = "bitcoin" THEN 0 ELSE 1)

get_singlesig_v0_derivation_path(network) ==
    << S132!Hardened(84), Coin(network), S132!Hardened(0) >>
get_multisig_v0_derivation_path(network) ==
    << S132!Hardened(48), Coin(network), S132!Hardened(0), S132!Hardened(2) >>

generate(mnemonic, seed_password, network) ==
    LET Derived(path) == [network |-> Kind(network), body |-> BodyOf(mnemonic, seed_password, path)]
    IN  [kind |-> "singlesig", mnemonic |-> mnemonic, seed_password |-> seed_password,
         network |-> network,
         master_fingerprint |-> FingerprintOf(mnemonic, seed_password),
         singlesig_xpub |-> Derived(get_singlesig_v0_derivation_path(network)),
         multisig_xpub |-> Derived(get_multisig_v0_derivation_path(network))]

PublicDescriptor(fingerprint, path, xpub, child) ==
    [type |-> "XPub", origin |-> << [fingerprint |-> fingerprint, path |-> path] >>, xkey |-> xpub,
     derivation_path |-> << S132!Normal(child) >>, wildcard |-> 1]

singlesig_public_descriptor(w, child) ==
    PublicDescriptor(w.master_fingerprint, get_singlesig_v0_derivation_path(w.network),
                     w.singlesig_xpub, child)
multisig_public_descriptor(w, child) ==
    PublicDescriptor(w.master_fingerprint, get_multisig_v0_derivation_path(w.network),
                     w.multisig_xpub, child)

---------------------------------------------------------------------------
(* The JSON of a singlesig wallet.  m says whether the release that wrote it *)
(* begins a path with "m/".                                                 *)
SinglesigJson(w, m) ==
    [kind |-> "singlesig", seed_phrase |-> w.mnemonic,
     master_fingerprint |-> w.master_fingerprint,
     singlesig_xpriv |-> S132!to_slip132_string(w.singlesig_xpub, "SegWit", TRUE),
     singlesig_xpub |-> S132!to_slip132_string(w.singlesig_xpub, "SegWit", FALSE),
     singlesig_derivation_path |-> [m |-> m, path |-> get_singlesig_v0_derivation_path(w.network)],
     multisig_xpriv |-> S132!to_slip132_string(w.multisig_xpub, "SegWitMultisig", TRUE),
     multisig_xpub |-> S132!to_slip132_string(w.multisig_xpub, "SegWitMultisig", FALSE),
     multisig_derivation_path |-> [m |-> m, path |-> get_multisig_v0_derivation_path(w.network)],
     first_address |-> [key |-> w.singlesig_xpub.body, network |-> w.network],
     receiving |-> singlesig_public_descriptor(w, 0),
     change |-> singlesig_public_descriptor(w, 1),
     network |-> w.network]

(* Only these are read back; the rest is derived again and compared.        *)
FromSinglesigJson(json) == generate(json.seed_phrase, NoPw, json.network)

Compared == {"seed_phrase", "singlesig_xpriv", "singlesig_xpub", "master_fingerprint",
             "first_address"}

validate_same(source, w) ==
    LET generated == SinglesigJson(w, FALSE)
    IN  IF generated = source THEN "same"
        ELSE IF \E f \in Compared : generated[f] # source[f] THEN "mismatch"
        ELSE IF generated.singlesig_derivation_path.path # source.singlesig_derivation_path.path
             THEN "mismatch"
        ELSE IF generated.singlesig_derivation_path # source.singlesig_derivation_path THEN "same"
        ELSE "unreachable"

SinglesigExport(w, m) ==
    [kind |-> "singlesig", master_fingerprint |-> w.master_fingerprint,
     multisig_xpub |-> S132!to_slip132_string(w.multisig_xpub, "SegWitMultisig", FALSE),
     multisig_derivation_path |-> [m |-> m, path |-> get_multisig_v0_derivation_path(w.network)],
     network |-> w.network]

(* The keys a multisig session takes from an export, none if it cannot.     *)
ReceivingFromExport(e, child) ==
    {PublicDescriptor(e.master_fingerprint, e.multisig_derivation_path.path, xpub, 0) :
        xpub \in S132!from_slip132_pub(e.multisig_xpub)}
FromSinglesigExport(e, child) ==
    {PublicDescriptor(e.master_fingerprint, e.multisig_derivation_path.path, xpub, child) :
        xpub \in S132!from_slip132_pub(e.multisig_xpub)}

---------------------------------------------------------------------------
(* Any order of the keys of a descriptor, as long as it is always the same. *)
ms_dpks_to_ddpk(keys) == SetToSeq(keys)

generate_from_dpks(configuration, receiving, change, network) ==
    [kind |-> "multisig", configuration |-> configuration, network |-> network,
     receiving |-> ms_dpks_to_ddpk(receiving), change |-> ms_dpks_to_ddpk(change)]

ms_ddpk_to_dpks(w) ==
    IF Len(w.receiving) = w.configuration.total /\ Len(w.change) = w.configuration.total
    THEN [ok |-> TRUE, receiving |-> ToSet(w.receiving), change |-> ToSet(w.change)]
    ELSE Failed

(* The library derives an address from every key but these.                 *)
Addressable(key) ==
    \/ key.type = "Single"
    \/ key.type = "XPub" /\ key.wildcard # 2
         /\ \A i \in DOMAIN key.derivation_path : ~key.derivation_path[i].hardened

HasAddresses(w) == \A key \in ToSet(w.receiving) : Addressable(key)

(* MultisigType::new, which the JSON's text goes through.                   *)
Allowed(configuration) == /\ configuration.required \in 1..configuration.total
                          /\ configuration.total <= 15

(* What a session collects: as many keys for receiving and for change as     *)
(* there are cosigners.                                                     *)
Collected(configuration, receiving, change) ==
    /\ configuration \in [required : Nat, total : Nat] /\ Allowed(configuration)
    /\ \A keys \in {receiving, change} : /\ keys \subseteq DescriptorKey /\ IsFiniteSet(keys)
                                         /\ Cardinality(keys) = configuration.total

Wallet == {generate(mn, pw, n) : mn \in Mnemonic, pw \in SeedPw, n \in Network}

ASSUME SeedAssumption ==
    /\ NoPw \in SeedPw
    /\ \A w \in Wallet : /\ w.singlesig_xpub.body \in Body /\ w.multisig_xpub.body \in Body
                         /\ w.master_fingerprint \in Fingerprint

ASSUME MultisigsAssumption ==
    \A i \in Multisigs : Collected(i.configuration, i.receiving, i.change)

HasSigner(w, s) == /\ multisig_public_descriptor(s, 0) \in ToSet(w.receiving) \cup ToSet(w.change)
                   /\ multisig_public_descriptor(s, 1) \in ToSet(w.receiving) \cup ToSet(w.change)

(* The other cosigner brings keys of his own.                               *)
ASSUME PartnerAssumption ==
    /\ \A keys \in {Partner.receiving, Partner.change} :
            keys \subseteq DescriptorKey /\ IsFiniteSet(keys) /\ Cardinality(keys) = 1
    /\ \A w \in Wallet : /\ multisig_public_descriptor(w, 0) \notin Partner.receiving
                         /\ multisig_public_descriptor(w, 1) \notin Partner.change

---------------------------------------------------------------------------
(* The header of a compact file says its network, in the version.            *)
to_standard_version(form, network) == "in the json"
to_encrypted_wallet_version(form, network) ==
    IF form = "compact" THEN network ELSE "in the json"

(* The next state once a file has been made of the wallet in memory.        *)
Made(form, network, data, held) ==
    /\ file' = [form |-> form, data |-> data,
                network |-> to_encrypted_wallet_version(form, network)]
    /\ expected' = held
    /\ memory' = Nothing
    /\ UNCHANGED broken

(* The next state once something has been read, or not.                     *)
Opened(w) == memory' = w /\ UNCHANGED << file, expected, signer, broken >>
Breaks == memory' = Nothing /\ broken' = TRUE /\ UNCHANGED << file, expected, signer >>

IsSinglesig(w) == w # Nothing /\ w.kind = "singlesig"
IsMultisig(w) == w # Nothing /\ w.kind = "multisig"

(* What there is to open, when no wallet is open.                           *)
Stored == IF memory # Nothing \/ file = Nothing THEN Nothing ELSE file.data

(* Generate and reencode.  A singlesig file holds the mnemonic without seed  *)
(* password; the network is what the user chooses this time.                *)
SealSinglesigStandard(network, m) ==
    /\ IsSinglesig(memory)
    /\ LET w == generate(memory.mnemonic, NoPw, network)
       IN  Made("standard", network, SinglesigJson(w, m), w)
    /\ signer' = Nothing

SealSinglesigCompact(network) ==
    /\ IsSinglesig(memory)
    /\ Made("compact", network, [kind |-> "singlesig", entropy |-> memory.mnemonic],
            generate(memory.mnemonic, NoPw, network))
    /\ signer' = Nothing

SealMultisigStandard(network) ==
    /\ IsMultisig(memory)
    /\ LET w == generate_from_dpks(memory.configuration, ToSet(memory.receiving),
                                   ToSet(memory.change), network)
       IN  HasAddresses(w) /\ Made("standard", network, w, w)
    /\ UNCHANGED signer

(* The order of the keys is that of two hash tables, and of this moment.    *)
SealMultisigCompact(network) ==
    /\ IsMultisig(memory)
    /\ \E receiving \in SetToSeqs(ToSet(memory.receiving)), change \in SetToSeqs(ToSet(memory.change)) :
        LET total == memory.configuration.total
        IN  IF Len(receiving) # total \/ Len(change) # total THEN Breaks
            ELSE /\ Made("compact", network,
                         [kind |-> "multisig",
                          stream |-> SerializeMultisig(memory.configuration, receiving, change)],
                         [memory EXCEPT !.network = network])
                 /\ UNCHANGED signer

(* What is derived under another seed password is only ever exported.       *)
ExportSinglesig(seed_password, m) ==
    /\ IsSinglesig(memory)
    /\ LET w == generate(memory.mnemonic, seed_password, memory.network)
       IN  Made("public", w.network, SinglesigExport(w, m), w) /\ signer' = w

ExportMultisig ==
    /\ IsMultisig(memory)
    /\ HasAddresses(memory)
    /\ Made("public", memory.network, memory, memory)
    /\ UNCHANGED signer

OpenSinglesig ==
    /\ IsSinglesig(Stored) /\ file.form # "public"
    /\ LET json == IF file.form = "standard" THEN file.data
                   ELSE SinglesigJson(generate(file.data.entropy, NoPw, file.network), FALSE)
           w == FromSinglesigJson(json)
       IN  IF validate_same(json, w) = "same" THEN Opened(w) ELSE Breaks

(* A multisig wallet from its JSON or from its public export: what the text  *)
(* of the descriptors and of the configuration says.                        *)
OpenMultisigJson ==
    /\ IsMultisig(Stored) /\ file.form # "compact"
    /\ IF Allowed(file.data.configuration) /\ ms_ddpk_to_dpks(file.data).ok
       THEN Opened(file.data) ELSE Breaks

(* A compact one from what was decoded: its JSON is made, and read.          *)
OpenedAsJson(w) ==
    /\ HasAddresses(w)
    /\ IF Allowed(w.configuration) /\ ms_ddpk_to_dpks(w).ok THEN Opened(w) ELSE Breaks

FromDecoded(d) ==
    IF d.ok
    THEN OpenedAsJson(generate_from_dpks(d.value.configuration, d.value.receiving,
                                         d.value.change, file.network))
    ELSE Breaks

OpenMultisigCompact ==
    /\ IsMultisig(Stored) /\ file.form = "compact"
    /\ FromDecoded(DeserializeMultisig(file.data.stream))

(* A wallet of two cosigners, one of whom brings his wallet or its export.   *)
Found(receiving, change, cosigner) ==
    LET w == generate_from_dpks([required |-> 2, total |-> 2], receiving \cup Partner.receiving,
                                change \cup Partner.change, cosigner.network)
    IN  IF Cardinality(receiving) = 1 /\ Cardinality(change) = 1
        THEN /\ memory' = w /\ expected' = w /\ signer' = cosigner
             /\ file' = Nothing /\ UNCHANGED broken
        ELSE Breaks

JoinWallet ==
    /\ IsSinglesig(memory)
    /\ Found({multisig_public_descriptor(memory, 0)}, {multisig_public_descriptor(memory, 1)}, memory)

JoinExport ==
    /\ IsSinglesig(Stored) /\ file.form = "public"
    /\ Found(FromSinglesigExport(file.data, 0), FromSinglesigExport(file.data, 1), signer)

Init ==
    /\ memory \in {generate(mn, NoPw, n) : mn \in Mnemonic, n \in Network}
               \cup {generate_from_dpks(i.configuration, i.receiving, i.change, n) :
                        i \in Multisigs, n \in Network}
    /\ expected = memory
    /\ file = Nothing /\ signer = Nothing /\ broken = FALSE

Next ==
    \/ \E n \in Network, m \in BOOLEAN : SealSinglesigStandard(n, m)
    \/ \E n \in Network : SealSinglesigCompact(n)
    \/ \E n \in Network : SealMultisigStandard(n)
    \/ \E n \in Network : SealMultisigCompact(n)
    \/ \E pw \in SeedPw, m \in BOOLEAN : ExportSinglesig(pw, m)
    \/ ExportMultisig
    \/ OpenSinglesig \/ OpenMultisigJson \/ OpenMultisigCompact
    \/ JoinWallet \/ JoinExport

Spec == Init /\ [][Next]_vars

---------------------------------------------------------------------------
(* memory holds a wallet that belongs to its keys, a file is of a known form.*)
TypeOK ==
    /\ IsSinglesig(memory) => memory \in Wallet
    /\ IsMultisig(memory) => memory.network \in Network /\ Allowed(memory.configuration)
    /\ file # Nothing => file.form \in {"standard", "compact", "public"}
    /\ signer \in Wallet \cup {Nothing}
    /\ broken \in BOOLEAN

(* However often a wallet changes its form, by whichever release and with    *)
(* the network chosen anew, what is opened in the end is what was closed,    *)
(* down to the order of the keys, from which the addresses are made          *)
(* (wallet_description.rs 1435-1525, reencode.rs 126-160).                  *)
ComesBackWhole == memory # Nothing => memory = expected

(* No file the program made is refused by its checks, and none reaches the   *)
(* assertion on the number of keys or the unreachable! of validate_same      *)
(* (wallet_description.rs 739, 1069).                                       *)
NothingBreaks == ~broken

(* Whatever joined a multisig wallet, the wallet or a prefixed key in an     *)
(* export of it, the wallet it came from is later accepted as a signer       *)
(* (wallet_export.rs 191-218, wallet_description.rs 992-1003).              *)
JoinedWalletSigns == IsMultisig(memory) /\ signer # Nothing => HasSigner(memory, signer)

(* A compact multisig file says what it was made of and nothing after it,    *)
(* whatever order the hash tables had and whichever kinds of keys they held, *)
(* also keys no address can be derived from (encoding/wallet.rs).           *)
DecodesAsEncoded ==
    IsMultisig(Stored) /\ file.form = "compact" =>
        DeserializeMultisig(file.data.stream) =
            Done([configuration |-> expected.configuration,
                  receiving |-> ToSet(expected.receiving), change |-> ToSet(expected.change)], << >>)

(* Whatever use a wallet's keys are written down for, public or private,     *)
(* what the tables of slip132.rs tell of the version bytes is what these     *)
(* were resolved from: whether the key is private, its network and use, the  *)
(* path it stands for, and the versions it turns into; and reading the key   *)
(* back gives the key, a private one never as a public one.                 *)
KeysOf(w) == IF IsSinglesig(w) THEN {w.singlesig_xpub, w.multisig_xpub} ELSE {}

PrefixesTell ==
    \A key \in KeysOf(memory), app \in S132!KeyApplication, priv \in BOOLEAN :
        LET kv == S132!resolve(key.network, app, priv)
            written == S132!to_slip132_string(key, app, priv)
            account == S132!Hardened(7)
        IN  /\ S132!is_pub(kv) = {~priv} /\ S132!is_prv(kv) = {priv}
            /\ S132!network_of(kv) = {key.network}
            /\ S132!application(kv) = {app} \ {"Hashed"}
            /\ S132!make_pub(kv) = {S132!resolve(key.network, app, FALSE)}
            /\ S132!make_prv(kv) = {S132!resolve(key.network, app, TRUE)}
            /\ \A p \in S132!derivation_path(kv, {}) \cup S132!derivation_path(kv, {account}) :
                    S132!from_derivation_path(p) = {app}
            /\ app # "Hashed" => S132!derivation_path(kv, {account}) # {}
            /\ S132!from_slip132_pub(written) = (IF priv THEN {} ELSE {key})
            /\ S132!from_slip132_prv(written) = (IF priv THEN {key} ELSE {})
=============================================================================
