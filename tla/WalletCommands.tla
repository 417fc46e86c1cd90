--------------------------- MODULE WalletCommands ---------------------------
(***************************************************************************)
(* The commands that create files: generate, open ... export-public-info   *)
(* and open ... reencode, for singlesig and multisig wallets, run by any   *)
(* number of invocations at once over one directory.  An invocation looks  *)
(* at the directory when it parses its arguments, talks to its user,       *)
(* derives keys for minutes, and only then creates its files, so all that  *)
(* it saw may be stale by then.  Any invocation may be cut short, any      *)
(* write may fail half way, a derived key may suffer a bit flip and a file *)
(* may be damaged at rest.                                                 *)
(***************************************************************************)
EXTENDS FilePaths, Naturals

CONSTANTS
    Proc,      (* invocations of the program; each draws a salt of its own *)
    Creds,     (* password, keyfiles and difficulty, as typed *)
    Secret,    (* mnemonics and cosigner sets *)
    Network,
    SeedPw,    (* non duress seed passwords *)
    None,      (* no path, no key, no wallet, no seed password *)
    Default,   (* an output path the user leaves to the program *)
    Requests,  (* the command lines each invocation may have been given *)
    MaxFaults  (* how many faults may strike in one behaviour *)

Wallet == [sig : {"single", "multi"}, secret : Secret, net : Network]

(* A derived key.  The KDF is injective: credentials and salt stand for    *)
(* its result, which a bit flip turns into a key nothing derives.          *)
Key == [creds : Creds, salt : Proc, flipped : BOOLEAN]

Request ==
    [cmd : {"generate", "export", "reencode"},
     sig : {"single", "multi"},
     in : Path \cup {None},             \* wallet_input_file
     out : Path \cup {None, Default},   \* the encrypted wallet to write
     pub : Path \cup {None, Default},   \* the public info to write
     nd : Path \cup {None},             \* --non-duress-output-file-json
     duress : BOOLEAN,                  \* --enable-duress-wallet
     seedPw : SeedPw \cup {None},       \* the seed password the user means
     creds : Creds,                     \* opens the input or seals the output
     newCreds : Creds,                  \* seals a reencoded wallet
     secret : Secret,                   \* what a generated wallet holds
     net : Network]

(* Which command lines there are.  Generate always knows its output: with  *)
(* no name given it draws a random one.  Only singlesig has duress options *)
(* and only export takes a path for the non duress file.                   *)
WellFormed(r) ==
    /\ r.cmd = "generate" => r.in = None /\ r.out \in Path
    /\ r.cmd = "export" => r.in \in Path /\ r.out = None /\ r.pub # None
    /\ r.cmd = "reencode" => r.in \in Path /\ r.out # None /\ r.pub = None
    /\ r.nd # None => r.cmd = "export" /\ r.sig = "single"
    /\ r.duress <=> r.seedPw # None
    /\ r.duress => r.sig = "single"

ASSUME ConstantAssumption ==
    /\ None \notin Path \cup Key \cup Wallet \cup SeedPw
    /\ Default \notin Path \cup {None}
    /\ MaxFaults \in Nat

ASSUME RequestAssumption ==
    /\ Requests \in [Proc -> SUBSET Request]
    /\ \A p \in Proc : \A r \in Requests[p] : WellFormed(r)

(* The paths a command line stands for. *)

\* The path of the public info: as asked, or derived from the wallet's.
PublicPath(r) ==
    IF r.pub # Default THEN r.pub
    ELSE from_wallet_to_public_info_json_path(
            IF r.cmd = "generate" THEN r.out ELSE r.in)

WalletPath(r) == IF r.out # Default THEN r.out ELSE from_input_to_reencoded(r.in)

\* The path of the non duress export, beside the public one unless given.
calculate_non_duress_output(r, pub) ==
    CASE r.nd # None -> r.nd
      [] r.nd = None /\ r.duress /\ pub # None ->
            from_public_info_json_path_to_non_duress(pub)
      [] OTHER -> None

NonDuressPath(r) ==
    IF r.duress THEN calculate_non_duress_output(r, PublicPath(r)) ELSE None

\* Every name an invocation may create.
OutputNames(r) == {WalletPath(r), PublicPath(r), NonDuressPath(r)} \ {None}

Names == UNION {UNION {OutputNames(r) : r \in Requests[p]} : p \in Proc}
-----------------------------------------------------------------------------
(* What a file holds.  "by" and "was" are history: the program does not    *)
(* store them.  A partial file is one create_new made and nothing was      *)
(* flushed to yet, or not everything.                                      *)
PartialFile == [kind : {"partial"}, by : Proc]
WalletFile == [kind : {"wallet"}, by : Proc, key : Key, wallet : Wallet]
PublicFile ==
    [kind : {"public"}, by : Proc, wallet : Wallet, seedPw : SeedPw \cup {None}]
DamagedFile == [kind : {"damaged"}, was : WalletFile \cup PublicFile]
Content == PartialFile \cup WalletFile \cup PublicFile \cup DamagedFile

Ended == {"done", "failed", "crashed"}
Writing == {"writeWallet", "writePublic", "writeNonDuress"}
Phase ==
    Ended \cup Writing \cup
    {"parse", "unlock", "nonDuress", "deriveKey", "createWallet", "verify",
     "confirm", "createPublic", "createNonDuress"}

VARIABLES
    disk,     (* the directory: a function from the names in use *)
    pc,       (* where each invocation is *)
    req,      (* its command line *)
    typed,    (* the non duress password it was given, not yet confirmed *)
    key,      (* the key it sealed its wallet with, still in memory *)
    opened,   (* the wallet it holds decrypted *)
    faults

vars == <<disk, pc, req, typed, key, opened, faults>>
memory == <<req, typed, key, opened>>

TypeOK ==
    /\ DOMAIN disk \subseteq Names
    /\ disk \in [DOMAIN disk -> Content]
    /\ pc \in [Proc -> Phase]
    /\ req \in [Proc -> Request]
    /\ \A p \in Proc : req[p] \in Requests[p]
    /\ typed \in [Proc -> SeedPw \cup {None}]
    /\ key \in [Proc -> Key \cup {None}]
    /\ opened \in [Proc -> Wallet \cup {None}]
    /\ faults \in 0..MaxFaults
-----------------------------------------------------------------------------
(* Helpers on files, keys and paths. *)

EmptyDirectory == [f \in {} |-> None]
Exists(f) == f \in DOMAIN disk

\* The directory with file f holding c.
Put(f, c) == [g \in DOMAIN disk \cup {f} |-> IF g = f THEN c ELSE disk[g]]

default_derive_key(c, salt) == [creds |-> c, salt |-> salt, flipped |-> FALSE]

\* handle_output_path and handle_input_path, as each command applies them:
\* generate does not look at the public path it derives by itself.
ArgumentsAccepted(r) ==
    CASE r.cmd = "generate" -> /\ ~Exists(r.out)
                               /\ r.pub \notin {None, Default} => ~Exists(r.pub)
      [] r.cmd = "export" -> Exists(r.in) /\ ~Exists(PublicPath(r))
      [] r.cmd = "reencode" -> ~Exists(WalletPath(r))

\* A duress wallet needs a public export, and the path of the non duress one
\* must be free, when it is given but not used too.
NonDuressAccepted(r) ==
    LET nd == calculate_non_duress_output(r, PublicPath(r)) IN
    /\ r.duress => PublicPath(r) # None
    /\ nd # None => ~Exists(nd)

\* What decrypts: a wallet of the kind asked for, under the key its own salt
\* and the given credentials derive.  Multisig also opens public exports.
Decrypts(c, sig, k) == c.kind = "wallet" /\ c.wallet.sig = sig /\ c.key = k

OpensWholeFiles(c, sig, creds) == c.kind = "wallet" /\ c.wallet.sig = sig
Opens(c, sig, creds) ==
    \/ c.kind = "wallet" /\ Decrypts(c, sig, default_derive_key(creds, c.by))
    \/ sig = "multi" /\ c.kind = "public" /\ c.wallet.sig = "multi"

\* The credentials an invocation seals its wallet with.
SealingCreds(r) == IF r.cmd = "reencode" THEN r.newCreds ELSE r.creds

\* The wallet it seals.  Reencode takes the network of its own command line.
SealedWalletKeepingNetwork(r, w) ==
    IF r.cmd = "generate" THEN [sig |-> r.sig, secret |-> r.secret, net |-> r.net] ELSE w
SealedWallet(r, w) ==
    IF r.cmd = "generate" THEN [sig |-> r.sig, secret |-> r.secret, net |-> r.net]
    ELSE [w EXCEPT !.net = r.net]

\* Only with an export to follow does generate derive the key once more.
Rederives(r) == r.cmd = "reencode" \/ r.pub # None
-----------------------------------------------------------------------------
(* The steps of one invocation. *)

Goto(p, l) == pc' = [pc EXCEPT ![p] = l]

\* singlesig_generate, multisig_generate, export_public_info_parse_args and
\* *_reencode_parse_args.
Parse(p) ==
    /\ pc[p] = "parse"
    /\ Goto(p, IF ~ArgumentsAccepted(req[p]) THEN "failed"
               ELSE IF req[p].cmd = "generate" THEN "nonDuress" ELSE "unlock")
    /\ UNCHANGED <<disk, memory, faults>>

\* open_singlesig_wallet_non_interactive, open_multisig_wallet_non_interactive.
Unlock(p) ==
    /\ pc[p] = "unlock"
    /\ LET r == req[p] IN
       IF Exists(r.in) /\ Opens(disk[r.in], r.sig, r.creds)
       THEN /\ opened' = [opened EXCEPT ![p] = disk[r.in].wallet]
            /\ Goto(p, IF r.cmd = "export" THEN "nonDuress" ELSE "deriveKey")
       ELSE /\ Goto(p, "failed")
            /\ UNCHANGED opened
    /\ UNCHANGED <<disk, req, typed, key, faults>>

Export(r) == IF NonDuressPath(r) # None THEN "confirm" ELSE "createPublic"

\* calculate_non_duress_output and ask_non_duress_params.  What the user types
\* may not be what he means: the prompt's own confirmation repeats one slip.
ResolveNonDuress(p) ==
    /\ pc[p] = "nonDuress"
    /\ LET r == req[p] IN
       IF NonDuressAccepted(r)
       THEN /\ \E pw \in (IF r.duress THEN SeedPw ELSE {None}) :
                 typed' = [typed EXCEPT ![p] = pw]
            /\ Goto(p, IF r.cmd = "generate" THEN "deriveKey" ELSE Export(r))
       ELSE Goto(p, "failed") /\ UNCHANGED typed
    /\ UNCHANGED <<disk, req, key, opened, faults>>

\* Salt and ui_derive_key; the key may be flipped in memory.
DeriveKey(p) ==
    /\ pc[p] = "deriveKey"
    /\ \E flip \in BOOLEAN :
         /\ flip => faults < MaxFaults
         /\ key' = [key EXCEPT ![p] =
                     [creds |-> SealingCreds(req[p]), salt |-> p, flipped |-> flip]]
         /\ faults' = IF flip THEN faults + 1 ELSE faults
    /\ Goto(p, "createWallet")
    /\ UNCHANGED <<disk, req, typed, opened>>

\* open_create_file: create_new fails on a name in use, whatever was seen of it
\* before, and leaves an empty file otherwise.
TruncateAndOpen(p, f, next) ==
    /\ disk' = Put(f, [kind |-> "partial", by |-> p])
    /\ Goto(p, next)
CreateNew(p, f, next) ==
    \/ ~Exists(f) /\ TruncateAndOpen(p, f, next)
    \/ Exists(f) /\ Goto(p, "failed") /\ UNCHANGED disk

CreateWallet(p) ==
    /\ pc[p] = "createWallet"
    /\ CreateNew(p, WalletPath(req[p]), "writeWallet")
    /\ UNCHANGED <<memory, faults>>

WriteWallet(p) ==
    /\ pc[p] = "writeWallet"
    /\ disk' = Put(WalletPath(req[p]),
                   [kind |-> "wallet", by |-> p, key |-> key[p],
                    wallet |-> SealedWallet(req[p], opened[p])])
    /\ Goto(p, "verify")
    /\ UNCHANGED <<memory, faults>>

\* The wallet is read back and decrypted, with the key derived once more from
\* the salt on disk or with the key still in memory, before anything is exported.
VerifiedWithKeyInMemory(p, c) == Decrypts(c, req[p].sig, key[p])
VerifiedUnread(p, c) == c.kind = "wallet"
Verified(p, c) ==
    c.kind = "wallet" /\
    Decrypts(c, req[p].sig,
             IF Rederives(req[p])
             THEN default_derive_key(SealingCreds(req[p]), c.by) ELSE key[p])

VerifyWallet(p) ==
    /\ pc[p] = "verify"
    /\ LET c == disk[WalletPath(req[p])] IN
       IF Exists(WalletPath(req[p])) /\ Verified(p, c)
       THEN /\ opened' = [opened EXCEPT ![p] = c.wallet]
            /\ Goto(p, IF PublicPath(req[p]) = None THEN "done" ELSE Export(req[p]))
       ELSE Goto(p, "failed") /\ UNCHANGED opened
    /\ UNCHANGED <<disk, req, typed, key, faults>>

\* What the user may type the second time: what he means, or a slip, but not
\* the one he made before.
Again(p) == (SeedPw \ {typed[p]}) \cup {req[p].seedPw}

\* double_check_non_duress_password asks until it is what was typed before. Only
\* a prompt that cannot be read (IoError) ends it otherwise.
ConfirmAnything(p) ==
    /\ pc[p] = "confirm" /\ Goto(p, "createPublic")
    /\ UNCHANGED <<disk, memory, faults>>
ConfirmTheDecoys(p) ==
    /\ pc[p] = "confirm"
    /\ \E again \in Again(p) :
          IF again = None THEN Goto(p, "createPublic") ELSE UNCHANGED pc
    /\ UNCHANGED <<disk, memory, faults>>
ConfirmNonDuressPassword(p) ==
    /\ pc[p] = "confirm"
    /\ \E again \in Again(p) :
          IF again = typed[p] THEN Goto(p, "createPublic") ELSE UNCHANGED pc
    /\ UNCHANGED <<disk, memory, faults>>

AfterPublicAlways(r) == "createNonDuress"
AfterPublic(r) == IF NonDuressPath(r) # None THEN "createNonDuress" ELSE "done"

CreatePublic(p) ==
    /\ pc[p] = "createPublic"
    /\ CreateNew(p, PublicPath(req[p]), "writePublic")
    /\ UNCHANGED <<memory, faults>>

WritePublic(p) ==
    /\ pc[p] = "writePublic"
    /\ disk' = Put(PublicPath(req[p]),
                   [kind |-> "public", by |-> p, wallet |-> opened[p], seedPw |-> None])
    /\ Goto(p, AfterPublic(req[p]))
    /\ UNCHANGED <<memory, faults>>

CreateNonDuress(p) ==
    /\ pc[p] = "createNonDuress"
    /\ CreateNew(p, NonDuressPath(req[p]), "writeNonDuress")
    /\ UNCHANGED <<memory, faults>>

WriteNonDuress(p) ==
    /\ pc[p] = "writeNonDuress"
    /\ disk' = Put(NonDuressPath(req[p]),
                   [kind |-> "public", by |-> p, wallet |-> opened[p], seedPw |-> typed[p]])
    /\ Goto(p, "done")
    /\ UNCHANGED <<memory, faults>>
-----------------------------------------------------------------------------
(* Faults. *)

\* Killed at any point: what was created stays as it is.
Crash(p) ==
    /\ pc[p] \notin Ended /\ faults < MaxFaults
    /\ Goto(p, "crashed")
    /\ faults' = faults + 1
    /\ UNCHANGED <<disk, memory>>

\* A read, a create or a write returns an error, a prompt cannot be read or a
\* key not be derived: the command gives up and leaves a file it was writing as
\* it is.
IoError(p) ==
    /\ pc[p] \in Writing \cup
                 {"unlock", "nonDuress", "deriveKey", "createWallet", "verify", "confirm",
                  "createPublic", "createNonDuress"}
    /\ faults < MaxFaults
    /\ Goto(p, "failed")
    /\ faults' = faults + 1
    /\ UNCHANGED <<disk, memory>>

Damage(f) ==
    /\ faults < MaxFaults
    /\ Exists(f)
    /\ disk[f].kind \in {"wallet", "public"}
    /\ disk' = Put(f, [kind |-> "damaged", was |-> disk[f]])
    /\ faults' = faults + 1
    /\ UNCHANGED <<pc, memory>>
-----------------------------------------------------------------------------
Init ==
    /\ disk = EmptyDirectory
    /\ pc = [p \in Proc |-> "parse"]
    /\ req \in {r \in [Proc -> UNION {Requests[p] : p \in Proc}] :
                  \A p \in Proc : r[p] \in Requests[p]}
    /\ typed = [p \in Proc |-> None]
    /\ key = [p \in Proc |-> None]
    /\ opened = [p \in Proc |-> None]
    /\ faults = 0

Step(p) ==
    \/ Parse(p)
    \/ Unlock(p)
    \/ ResolveNonDuress(p)
    \/ DeriveKey(p)
    \/ CreateWallet(p)
    \/ WriteWallet(p)
    \/ VerifyWallet(p)
    \/ ConfirmNonDuressPassword(p)
    \/ CreatePublic(p)
    \/ WritePublic(p)
    \/ CreateNonDuress(p)
    \/ WriteNonDuress(p)

Next ==
    \/ \E p \in Proc : Step(p) \/ Crash(p) \/ IoError(p)
    \/ \E f \in DOMAIN disk : Damage(f)

Spec == Init /\ [][Next]_vars

\* The operating system schedules every process, key derivation terminates and
\* prompts are answered. At the second confirmation more is needed: who can type
\* the password right comes to do so, however often he slips; an answer that
\* does not match changes nothing and is no progress.
Running(p) == pc[p] # "confirm" /\ Step(p)
Fairness == \A p \in Proc : WF_vars(Running(p)) /\ WF_vars(ConfirmNonDuressPassword(p))
FairSpec == Spec /\ Fairness
-----------------------------------------------------------------------------
(* What makes the commands correct. *)

\* A file as it was when it was whole.
Intact(c) == IF c.kind = "damaged" THEN c.was ELSE c
IsWallet(c) == Intact(c).kind = "wallet"
IsPublic(c) == Intact(c).kind = "public"

\* Once a name is taken no invocation ever truncates, replaces or completes
\* what another one put there, although all of them looked for the name long
\* before they create the file: only the invocation that created a file fills
\* it, once (utils.rs create_file).
WriteOnceStep ==
    \A f \in DOMAIN disk :
        /\ f \in DOMAIN disk'
        /\ disk'[f] # disk[f] =>
             \/ Intact(disk'[f]) = disk[f]
             \/ \E p \in Proc : /\ disk[f] = [kind |-> "partial", by |-> p]
                                /\ pc[p] \in Writing
                                /\ Intact(disk'[f]).by = p
WriteOnce == [][WriteOnceStep]_vars

\* Whatever becomes of generate, a crash between two files included: if one of
\* its public exports is on disk, so is its encrypted wallet, whole unless it
\* was damaged since, the credentials it was given open it and it is the
\* exported one.  Nobody is led to send coins to keys that were never sealed.
PublicInfoBacked ==
    \A f \in DOMAIN disk :
        LET e == Intact(disk[f])
            r == req[e.by]
        IN IsPublic(disk[f]) /\ r.cmd = "generate" =>
             /\ Exists(r.out)
             /\ LET w == Intact(disk[r.out]) IN
                /\ w.kind = "wallet"
                /\ w.by = e.by
                /\ Opens(w, r.sig, r.creds)
                /\ w.wallet = e.wallet

\* Success is not reported over a wallet that cannot be opened: when generate
\* or reencode ends well its own wallet is under the name it chose, and the
\* credentials for it open it to the network asked for and the secret asked
\* for, or found in the wallet reencoded, which is still there.  Only a
\* generate without export may miss a key flipped in memory (core.rs says so).
SuccessMeansOpenable ==
    \A p \in Proc :
        LET r == req[p]
            w == Intact(disk[WalletPath(req[p])])
        IN pc[p] = "done" /\ r.cmd # "export" /\ (Rederives(r) \/ ~key[p].flipped) =>
            /\ Exists(WalletPath(req[p]))
            /\ w.kind = "wallet"
            /\ w.by = p
            /\ Opens(w, r.sig, IF r.cmd = "reencode" THEN r.newCreds ELSE r.creds)
            /\ w.wallet.net = r.net
            /\ r.cmd = "generate" => w.wallet.secret = r.secret
            /\ r.cmd = "reencode" =>
                  Exists(r.in) /\ Intact(disk[r.in]).wallet.secret = w.wallet.secret

\* The export of a hidden wallet is for the seed password its user means, typed
\* right on two separate occasions, and never on disk without the complete
\* export of the decoy wallet of the same mnemonic made by the same invocation.
NonDuressBehindDecoy ==
    \A f \in DOMAIN disk :
        LET e == Intact(disk[f]) IN
        IsPublic(disk[f]) /\ e.seedPw # None =>
            /\ e.seedPw = req[e.by].seedPw
            /\ Exists(PublicPath(req[e.by]))
            /\ Intact(disk[PublicPath(req[e.by])]) = [e EXCEPT !.seedPw = None]

\* Every invocation ends, however often its user slips at the second
\* confirmation and whatever the others do meanwhile to the names it wants,
\* except when the password was mistyped at the first prompt: then it may ask
\* for ever, before anything was exported (double_check_non_duress_password).
AsksInVain(p) ==
    /\ pc[p] = "confirm" /\ typed[p] # req[p].seedPw
    /\ \A f \in DOMAIN disk : IsPublic(disk[f]) => Intact(disk[f]).by # p
EveryCommandEnds == \A p \in Proc : <>(pc[p] \in Ended) \/ <>[]AsksInVain(p)

-----------------------------------------------------------------------------
(* What each phase may rely on: the invariant the theorems rest on. *)

Sealing == {"createWallet", "writeWallet", "verify"}
Exporting ==
    {"confirm", "createPublic", "writePublic", "createNonDuress", "writeNonDuress"}

\* What an invocation holds in memory in each phase.
MemoryInv ==
    \A p \in Proc :
        /\ pc[p] \in Sealing \cup {"deriveKey"} =>
              /\ req[p].cmd # "export"
              /\ req[p].cmd = "reencode" => opened[p] \in Wallet
        /\ pc[p] \in Sealing => key[p] \in Key
        /\ pc[p] = "unlock" => req[p].cmd # "generate"
        /\ pc[p] = "nonDuress" =>
              /\ req[p].cmd # "reencode"
              /\ req[p].cmd = "export" => opened[p] \in Wallet
        /\ pc[p] \in Exporting => opened[p] \in Wallet /\ PublicPath(req[p]) # None
        /\ pc[p] \in {"createNonDuress", "writeNonDuress"} => NonDuressPath(req[p]) # None

\* The file an invocation is writing.
Target(p) ==
    CASE pc[p] = "writeWallet" -> WalletPath(req[p])
      [] pc[p] = "writePublic" -> PublicPath(req[p])
      [] pc[p] = "writeNonDuress" -> NonDuressPath(req[p])

\* The file an invocation is writing is the one it created: nobody else fills it.
WriterInv ==
    \A p \in Proc :
        pc[p] \in Writing =>
            Exists(Target(p)) /\ disk[Target(p)] = [kind |-> "partial", by |-> p]

\* The wallet of an invocation is on disk, whole once, and holds what the
\* invocation read back of it under the key derived a second time.
OwnWallet(p) ==
    /\ Exists(WalletPath(req[p]))
    /\ Intact(disk[WalletPath(req[p])]).kind = "wallet"
    /\ Intact(disk[WalletPath(req[p])]).by = p

Backed(p) ==
    /\ OwnWallet(p)
    /\ LET w == Intact(disk[WalletPath(req[p])]) IN
       /\ w.key = default_derive_key(SealingCreds(req[p]), p)
       /\ w.wallet = opened[p]
       /\ w.wallet.sig = req[p].sig

Published == {"createNonDuress", "writeNonDuress"} \cup Ended

\* Generate exports only what it verified, and what it exported stays backed.
BackedInv ==
    /\ \A p \in Proc :
          /\ pc[p] = "verify" => OwnWallet(p)
          /\ pc[p] \in Exporting /\ req[p].cmd = "generate" => Backed(p)
    /\ \A f \in DOMAIN disk :
          LET e == Intact(disk[f]) IN
          IsPublic(disk[f]) =>
              /\ pc[e.by] \in Published
              /\ e.wallet = opened[e.by]
              /\ req[e.by].cmd = "generate" => Backed(e.by)
-----------------------------------------------------------------------------
\* The directory is a cold store: a wallet is kept when it is whole on disk
\* under a key its credentials derive.
KeptFiles ==
    {f \in DOMAIN disk : IsWallet(disk[f]) /\ ~Intact(disk[f]).key.flipped}
ExportedFiles == {f \in DOMAIN disk : IsPublic(disk[f])}

Store == INSTANCE ColdStore WITH
    Name <- Names,
    store <- {[name |-> f, creds |-> Intact(disk[f]).key.creds,
               wallet |-> Intact(disk[f]).wallet] : f \in KeptFiles},
    public <- {[name |-> f, wallet |-> Intact(disk[f]).wallet,
                seedPw |-> Intact(disk[f]).seedPw] : f \in ExportedFiles}

\* The commands implement the cold store.
ImplementsColdStore == Store!Spec

=============================================================================
