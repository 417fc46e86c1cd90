-------------------------- MODULE MultisigSession ---------------------------
(***************************************************************************)
(* How a multisig wallet gets its cosigners: their files are collected one *)
(* after the other, from the command line or with a user who may pick any  *)
(* file, fail to open it and try again; the wallet is generated from what  *)
(* was collected, standard or compact, and opened later with signers of    *)
(* somebody's choice.  Descriptors are kept in two sets, receiving and     *)
(* change, and signers in a list of their own: nothing but the checks      *)
(* modelled here keeps the three consistent.                               *)
(***************************************************************************)
EXTENDS Naturals, Sequences, FiniteSets

CONSTANTS
    Seed,           (* mnemonics *)
    SeedPw,         (* seed passwords of hidden wallets *)
    None,           (* no seed password, no wallet *)
    Files,          (* the files at hand *)
    Configurations, (* the M-of-N asked for *)
    MaxCollected,   (* bound: how many files a command line names *)
    MaxRefused      (* bound: refused merges after which the user gives up *)

MAX_TOTAL_SIGS_MULTISIG == 15

\* What MultisigType::new lets through.
MultisigType ==
    {c \in [required : Nat, total : Nat] :
        /\ c.required > 0
        /\ c.required <= c.total
        /\ c.total <= MAX_TOTAL_SIGS_MULTISIG}

(* Who holds a key: a mnemonic, and the password of the hidden wallet if   *)
(* the key is that one's.                                                  *)
Cosigner == [seed : Seed, pw : SeedPw \cup {None}]

(* A descriptor public key: the account key of a cosigner, with the        *)
(* receiving chain /0/*, the change chain /1/* or whatever else was        *)
(* written after it.                                                       *)
DescriptorPublicKey == [of : Cosigner, chain : {"0", "1", "other"}]
Receiving(c) == [of |-> c, chain |-> "0"]
Change(c) == [of |-> c, chain |-> "1"]

(* The files.  A descriptor file says /0/* or /<0;1>/* ("0"), /1/* or      *)
(* something else.  "sealed" is any file long enough to be taken for an    *)
(* encrypted wallet that no password opens as a singlesig one.             *)
File ==
    [kind : {"export", "coldcard", "descriptor", "wallet", "sealed",
             "multisigExport", "invalid"},
     of : Cosigner, chain : {"0", "1", "other"}]

ASSUME FilesAssumption ==
    /\ None \notin SeedPw
    /\ Files \subseteq File
    /\ Configurations \subseteq MultisigType
    /\ MaxCollected \in Nat /\ MaxRefused \in Nat \ {0}

MultisigInputs ==
    [receiving : SUBSET DescriptorPublicKey, change : SUBSET DescriptorPublicKey,
     signers : Seq(Cosigner)]

NoInputs == [receiving |-> {}, change |-> {}, signers |-> <<>>]

Wallet ==
    [conf : MultisigType, receiving : SUBSET DescriptorPublicKey,
     change : SUBSET DescriptorPublicKey]

VARIABLES
    pc,
    asker,    (* "prompt": interactive, "args": the files of a command line *)
    conf,     (* the configuration of the wallet to generate *)
    inputs,   (* the MultisigInputs gathered so far *)
    file,     (* the file being opened *)
    taken,    (* how many files were taken *)
    refused,  (* how many merges were refused, with files tried again *)
    wanted,   (* how many signers a user said he would open *)
    wallet    (* the wallet on disk *)

vars == <<pc, asker, conf, inputs, file, taken, refused, wanted, wallet>>

Collecting == {"select", "decrypt", "askRetry"}
OpeningSigners == {"selectSigner", "decryptSigner"}

TypeOK ==
    /\ pc \in Collecting \cup OpeningSigners \cup
              {"collected", "generated", "signers", "opened", "failed", "panicked"}
    /\ asker \in {"prompt", "args"}
    /\ conf \in Configurations
    /\ inputs \in MultisigInputs
    /\ file \in Files \cup {None}
    /\ taken \in Nat
    /\ asker = "prompt" /\ pc \in Collecting => taken < conf.total
    /\ refused \in 0..MaxRefused
    /\ wanted \in Nat
    /\ wallet \in Wallet \cup {None}
-----------------------------------------------------------------------------
(* What a file says. *)

\* The receiving key of a plain file and its change key: a descriptor has /0/*
\* turned into /1/*, and anything else left as it is.
PlainInputs(f) ==
    LET chain == IF f.kind = "descriptor" THEN f.chain ELSE "0"
        next == IF chain = "0" THEN "1" ELSE chain
    IN [receiving |-> {[of |-> f.of, chain |-> chain]},
        change |-> {[of |-> f.of, chain |-> next]},
        signers |-> <<>>]

\* A singlesig wallet opened as cosigner c.
SignerInputs(c) ==
    [receiving |-> {Receiving(c)}, change |-> {Change(c)}, signers |-> <<c>>]

Plain(f) == f.kind \in {"export", "coldcard", "descriptor"}
Encrypted(f) == f.kind \in {"wallet", "sealed"}

\* Opening an encrypted wallet asks whether its hidden wallet is meant.
Identities(f) ==
    IF f.kind = "wallet" THEN {[f.of EXCEPT !.pw = pw] : pw \in SeedPw \cup {None}}
    ELSE {}

\* merge takes everything in first, and counts and complains afterwards.
Joined(new) ==
    [receiving |-> inputs.receiving \cup new.receiving,
     change |-> inputs.change \cup new.change,
     signers |-> inputs.signers \o new.signers]

Added(new, old) == Cardinality(new \ old)

\* What the loop of ask_create_multisig_inputs accepts.
MergeAnyCount(new) ==
    Added(new.receiving, inputs.receiving) = Added(new.change, inputs.change)
Merges(new) ==
    /\ Added(new.receiving, inputs.receiving) = Added(new.change, inputs.change)
    /\ Added(new.receiving, inputs.receiving) = 1

\* MultisigInputs::validate.
ValidatesLengths(i, c) == Cardinality(i.receiving) = Cardinality(i.change)
ValidatesReceiving(i, c) == Cardinality(i.receiving) = c.total
Validates(i, c) ==
    /\ Cardinality(i.receiving) = Cardinality(i.change)
    /\ Cardinality(i.receiving) = c.total

\* MultiSigWalletDescriptionV0::validate_descriptors, of what depends on signers.
ValidChangeOnly(signers, w) ==
    /\ Len(signers) <= w.conf.total
    /\ \A n \in 1..Len(signers) : Change(signers[n]) \in w.change
validate_descriptors(signers, w) ==
    /\ Len(signers) <= w.conf.total
    /\ \A n \in 1..Len(signers) :
          {Receiving(signers[n]), Change(signers[n])} \subseteq w.receiving \cup w.change

\* The script of k keys out of n, for both descriptors, is only built when k <= n.
Scriptable(w) ==
    /\ w.conf.required <= Cardinality(w.receiving)
    /\ w.conf.required <= Cardinality(w.change)
-----------------------------------------------------------------------------
(* Collecting the inputs of a new wallet. *)

AllTakenAndOne(n) == n > conf.total
AllTaken(n) == n = conf.total

\* A file was read: on to the next one, or back to the user about what is wrong.
Take(new) ==
    /\ inputs' = Joined(new)
    /\ IF asker = "args" \/ Merges(new)
       THEN /\ taken' = taken + 1
            /\ pc' = IF asker = "prompt" /\ AllTaken(taken + 1)
                     THEN "collected" ELSE "select"
            /\ UNCHANGED refused
       ELSE /\ pc' = "askRetry"
            /\ refused' = refused + 1
            /\ UNCHANGED taken

\* ask_create_multisig_inputs and parse_multisig_input; an error ends the
\* command line's parse_multisig_inputs and is put to the user otherwise.
Refuse ==
    /\ pc' = IF asker = "args" THEN "failed" ELSE "askRetry"
    /\ UNCHANGED <<inputs, taken, refused>>

SelectFile(f) ==
    /\ pc = "select"
    /\ asker = "args" => taken < MaxCollected
    /\ \/ Plain(f) /\ Take(PlainInputs(f)) /\ UNCHANGED file
       \/ /\ Encrypted(f)
          /\ file' = f /\ pc' = "decrypt"
          /\ UNCHANGED <<inputs, taken, refused>>
       \/ ~Plain(f) /\ ~Encrypted(f) /\ Refuse /\ UNCHANGED file
    /\ UNCHANGED <<asker, conf, wanted, wallet>>

\* ask_try_decrypt, until it succeeds or the user gives the file up.  A wrong
\* password tried again changes nothing.
Decrypt ==
    /\ pc = "decrypt"
    /\ \/ \E c \in Identities(file) : Take(SignerInputs(c))
       \/ Refuse
    /\ file' = None
    /\ UNCHANGED <<asker, conf, wanted, wallet>>

AskRetry ==
    /\ pc = "askRetry"
    /\ pc' \in (IF refused < MaxRefused THEN {"select", "failed"} ELSE {"failed"})
    /\ UNCHANGED <<asker, conf, inputs, file, taken, refused, wanted, wallet>>

\* The command line names no more files.
NoMoreFiles ==
    /\ pc = "select" /\ asker = "args"
    /\ pc' = "collected"
    /\ UNCHANGED <<asker, conf, inputs, file, taken, refused, wanted, wallet>>
-----------------------------------------------------------------------------
(* multisig_core_generate. *)

Described == [conf |-> conf, receiving |-> inputs.receiving, change |-> inputs.change]

Generated(ok) ==
    /\ IF ok THEN wallet' = Described /\ pc' = "generated"
             ELSE pc' = "failed" /\ UNCHANGED wallet
    /\ inputs' = NoInputs
    /\ UNCHANGED <<asker, conf, file, taken, refused, wanted>>

GenerateStandard ==
    /\ pc = "collected"
    /\ Generated(/\ Validates(inputs, conf)
                 /\ Scriptable(Described)
                 /\ validate_descriptors(inputs.signers, Described))

\* Serializing a compact wallet asserts the lengths instead of checking them,
\* and knows nothing of signers; it is read back as a script before it is used.
GenerateCompact ==
    /\ pc = "collected"
    /\ IF Validates(inputs, conf)
          /\ \/ Cardinality(inputs.receiving) # conf.total
             \/ Cardinality(inputs.change) # conf.total
       THEN pc' = "panicked" /\ UNCHANGED <<asker, conf, inputs, file, taken,
                                            refused, wanted, wallet>>
       ELSE Generated(Validates(inputs, conf) /\ Scriptable(Described))
-----------------------------------------------------------------------------
(* Opening the wallet with signers. *)

\* open_multisig_wallet_non_interactive and ask_open_signers.
StartOpening(a, n) ==
    /\ pc = "generated"
    /\ a = "prompt" => n <= wallet.conf.required
    /\ pc' = IF n = 0 THEN "signers" ELSE "selectSigner"
    /\ asker' = a /\ wanted' = n
    /\ UNCHANGED <<conf, inputs, file, taken, refused, wallet>>

\* A command line takes any file for an input and counts the signers in the
\* end; a user may only pick what looks like an encrypted wallet.
SelectSigner(f) ==
    /\ pc = "selectSigner"
    /\ file' = f
    /\ pc' = IF Encrypted(f) THEN "decryptSigner" ELSE "failed"
    /\ UNCHANGED <<asker, conf, inputs, taken, refused, wanted, wallet>>

DecryptSigner ==
    /\ pc = "decryptSigner"
    /\ file' = None
    /\ \/ \E c \in Identities(file) :
             /\ inputs' = Joined(SignerInputs(c))
             /\ pc' = IF Len(inputs.signers) + 1 = wanted THEN "signers" ELSE "selectSigner"
       \/ pc' = (IF asker = "prompt" THEN "selectSigner" ELSE "failed") /\ UNCHANGED inputs
       \/ pc' = "failed" /\ UNCHANGED inputs
    /\ UNCHANGED <<asker, conf, taken, refused, wanted, wallet>>

\* ms_ddpk_to_dpks holds the wallet against its configuration once more.
CheckSigners ==
    /\ pc = "signers"
    /\ pc' = IF /\ Cardinality(wallet.receiving) = wallet.conf.total
                /\ Cardinality(wallet.change) = wallet.conf.total
                /\ validate_descriptors(inputs.signers, wallet)
             THEN "opened" ELSE "failed"
    /\ UNCHANGED <<asker, conf, inputs, file, taken, refused, wanted, wallet>>
-----------------------------------------------------------------------------
Init ==
    /\ pc = "select"
    /\ asker \in {"prompt", "args"}
    /\ conf \in Configurations
    /\ inputs = NoInputs
    /\ file = None
    /\ taken = 0 /\ refused = 0 /\ wanted = 0
    /\ wallet = None

Next ==
    \/ \E f \in Files : SelectFile(f) \/ SelectSigner(f)
    \/ Decrypt \/ AskRetry \/ NoMoreFiles
    \/ GenerateStandard \/ GenerateCompact
    \/ \E a \in {"prompt", "args"}, n \in 0..MaxCollected : StartOpening(a, n)
    \/ DecryptSigner \/ CheckSigners

Spec == Init /\ [][Next]_vars
-----------------------------------------------------------------------------
(* What makes a session correct. *)

\* The change key that goes with a receiving key.
ChangeOf(k) == IF k.chain = "0" THEN [k EXCEPT !.chain = "1"] ELSE k

\* The receiving and the change descriptors of a wallet are made of the same N
\* keys, pair by pair: no mixture of good, duplicate and overlapping files gets
\* past the two counts of validate with the change of one set of cosigners and
\* the receiving addresses of another.
ReceiveAndChangeMatch ==
    wallet # None =>
        /\ wallet.change = {ChangeOf(k) : k \in wallet.receiving}
        /\ Cardinality(wallet.receiving) = wallet.conf.total
        /\ Cardinality(wallet.change) = wallet.conf.total

\* A signer that an opened wallet accepts signs for its receiving addresses and
\* for its change: looking both keys up in the union of the two sets is enough.
SignersFit ==
    pc = "opened" =>
        \A n \in 1..Len(inputs.signers) :
            /\ Receiving(inputs.signers[n]) \in wallet.receiving
            /\ Change(inputs.signers[n]) \in wallet.change

\* The assertions on the lengths of the descriptor sets in the compact encoding
\* are never reached with others.
NeverPanics == pc # "panicked"

\* What makes generating from the collected inputs succeed.
Generates ==
    Validates(inputs, conf) /\ Scriptable(Described)
    /\ validate_descriptors(inputs.signers, Described)

\* A session in which every file was taken at once ends with inputs that make
\* either kind of wallet, whoever's files were picked and in whatever order.
CleanSessionGenerates ==
    pc = "collected" /\ asker = "prompt" /\ refused = 0 => Generates

\* "Got an error, try to open another file?" (common/mod.rs:39): once the user
\* has, and the session went on to its end, the wallet can be generated.
TryingAgainHelps == pc = "collected" /\ asker = "prompt" => Generates

=============================================================================
