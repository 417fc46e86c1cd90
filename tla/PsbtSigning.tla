---------------------------- MODULE PsbtSigning ----------------------------
(***************************************************************************)
(* Signing: open ... sign-psbt for singlesig and multisig wallets, by any  *)
(* number of invocations that hand PSBT files to one another through one   *)
(* directory.  An invocation reads the PSBT before it opens its wallet,    *)
(* signs the inputs it finds itself on, shows the outputs, and saves the   *)
(* result as a new file once its user agrees.                              *)
(***************************************************************************)
EXTENDS FilePaths, Naturals, FiniteSets

CONSTANTS
    Proc,      (* invocations *)
    Cosigner,  (* owners of keys: the decoy and the hidden wallet are two *)
    Tx,        (* transactions *)
    In,        (* inputs of a transaction *)
    Input,     (* Tx -> In -> what the PSBT says of an input *)
    Fee,       (* Tx -> whether the fee can be told: no negative, no overflow *)
    Outputs,   (* Tx -> whether it has any *)
    Drafts,    (* the unsigned or partly signed PSBT files there are at first *)
    Requests,  (* the command line of each invocation, and what its user means *)
    None, Default,
    MaxFaults

(* An input names the owners of the keys its script is made of in its key  *)
(* origins, has an algorithm by its script and its spent output or not.    *)
InputInfo ==
    [origins : SUBSET Cosigner, algorithm : {"ecdsa", "schnorr", "unknown"},
     utxo : BOOLEAN]

Psbt == [tx : Tx, sigs : [In -> SUBSET Cosigner]]
PartialFile == [kind : {"partial"}, by : Proc]
PsbtFile == [kind : {"psbt"}, psbt : Psbt, by : Proc \cup {None}]

Request ==
    [in : Path, out : Path \cup {Default},
     keys : SUBSET Cosigner,        \* the wallet, or its signers for multisig
     hidden : SUBSET Cosigner,      \* the hidden wallet, with duress enabled
     real : BOOLEAN,                \* whether the user picks the hidden one
     retyped : BOOLEAN,             \* whether he ever types its password as before
     again : BOOLEAN,               \* whether he signs once more what he signed
     approves : SUBSET Tx]          \* the outputs he agrees to

ASSUME SigningAssumption ==
    /\ Input \in [Tx -> [In -> InputInfo]]
    /\ Fee \in [Tx -> BOOLEAN] /\ Outputs \in [Tx -> BOOLEAN]
    /\ Requests \in [Proc -> Request]
    /\ \A p \in Proc : Requests[p].keys \cap Requests[p].hidden = {}
    /\ None \notin Proc \cup Psbt /\ Default \notin Path
    /\ DOMAIN Drafts \subseteq Path
    /\ Drafts \in [DOMAIN Drafts -> PsbtFile]
    /\ \A f \in DOMAIN Drafts : Drafts[f].by = None
    /\ MaxFaults \in Nat

VARIABLES
    disk,    (* the directory *)
    pc,
    psbt,    (* the PSBT an invocation holds, signed or not *)
    faults

vars == <<disk, pc, psbt, faults>>

Ended == {"done", "failed", "crashed"}

OutputPath(r) == IF r.out # Default THEN r.out ELSE from_input_to_signed_psbt(r.in)
Names == DOMAIN Drafts \cup {OutputPath(Requests[p]) : p \in Proc}

TypeOK ==
    /\ DOMAIN disk \subseteq Names
    /\ disk \in [DOMAIN disk -> PartialFile \cup PsbtFile]
    /\ pc \in [Proc -> Ended \cup
                 {"parse", "choose", "sign", "again", "approve", "create", "write"}]
    /\ psbt \in [Proc -> Psbt \cup {None}]
    /\ faults \in 0..MaxFaults
-----------------------------------------------------------------------------
(* Signing. *)

Exists(f) == f \in DOMAIN disk
Put(f, c) == [g \in DOMAIN disk \cup {f} |-> IF g = f THEN c ELSE disk[g]]
Goto(p, l) == pc' = [pc EXCEPT ![p] = l]

\* The wallet chosen: the decoy, or the hidden one of the same mnemonic.
Keys(r) == IF r.hidden # {} /\ r.real THEN r.hidden ELSE r.keys

\* sign_partial: an input is signed with whatever keys it names, and skipped
\* when it names none or cannot be signed this way.
SignersOf(tx, i, keys) ==
    IF Input[tx][i].utxo /\ Input[tx][i].algorithm = "ecdsa"
    THEN Input[tx][i].origins \cap keys ELSE {}

SigsOfSignedInputs(b, keys) ==
    [i \in {j \in In : SignersOf(b.tx, j, keys) # {}} |->
        b.sigs[i] \cup SignersOf(b.tx, i, keys)]
SigsOverwritten(b, keys) == [i \in In |-> SignersOf(b.tx, i, keys)]
sign_partial(b, keys) == [i \in In |-> b.sigs[i] \cup SignersOf(b.tx, i, keys)]

\* sign_psbt reports how often a key was used, none as an error.
Used(b, keys) == \E i \in In : SignersOf(b.tx, i, keys) # {}
UsedOnEveryInput(b, keys) == \A i \in In : SignersOf(b.tx, i, keys) # {}
Signs(b, keys) == Used(b, keys)
-----------------------------------------------------------------------------
(* The steps of an invocation. *)

\* open_psbt_file, validated_input_psbt_sign and handle_output_path.
Parse(p) ==
    /\ pc[p] = "parse"
    /\ LET r == Requests[p] IN
       IF /\ Exists(r.in)
          /\ disk[r.in].kind = "psbt"
          /\ Outputs[disk[r.in].psbt.tx]
          /\ ~Exists(OutputPath(r))
       THEN psbt' = [psbt EXCEPT ![p] = disk[r.in].psbt] /\ Goto(p, "choose")
       ELSE Goto(p, "failed") /\ UNCHANGED psbt
    /\ UNCHANGED <<disk, faults>>

\* The wallet is opened; with duress enabled the user picks one and is asked for
\* the password of the hidden one until he types what he typed before.
ChooseUnasked(p) ==
    /\ pc[p] = "choose" /\ Goto(p, "sign")
    /\ UNCHANGED <<disk, psbt, faults>>
ChooseWallet(p) ==
    /\ pc[p] = "choose"
    /\ LET r == Requests[p] IN
       IF r.hidden = {} \/ ~r.real \/ r.retyped THEN Goto(p, "sign") ELSE UNCHANGED pc
    /\ UNCHANGED <<disk, psbt, faults>>

\* sign_core up to its first question, if it has one; all further is refused
\* when the fee cannot be told, for which every input needs its spent output.
FeeKnown(tx) == Fee[tx] /\ \A i \in In : Input[tx][i].utxo
Approvable(tx) == IF FeeKnown(tx) THEN "approve" ELSE "failed"

Sign(p) ==
    /\ pc[p] = "sign"
    /\ LET signed == sign_partial(psbt[p], Keys(Requests[p])) IN
       IF Signs(psbt[p], Keys(Requests[p]))
       THEN /\ psbt' = [psbt EXCEPT ![p].sigs = signed]
            /\ Goto(p, IF signed = psbt[p].sigs THEN "again" ELSE Approvable(psbt[p].tx))
       ELSE Goto(p, "failed") /\ UNCHANGED psbt
    /\ UNCHANGED <<disk, faults>>

SignAgain(p) ==
    /\ pc[p] = "again"
    /\ Goto(p, IF Requests[p].again THEN Approvable(psbt[p].tx) ELSE "done")
    /\ UNCHANGED <<disk, psbt, faults>>

Approve(p) ==
    /\ pc[p] = "approve"
    /\ Goto(p, IF psbt[p].tx \in Requests[p].approves THEN "create" ELSE "done")
    /\ UNCHANGED <<disk, psbt, faults>>

\* save_psbt_file: create_new, then the bytes.
Create(p) ==
    /\ pc[p] = "create"
    /\ IF Exists(OutputPath(Requests[p]))
       THEN Goto(p, "failed") /\ UNCHANGED disk
       ELSE /\ disk' = Put(OutputPath(Requests[p]), [kind |-> "partial", by |-> p])
            /\ Goto(p, "write")
    /\ UNCHANGED <<psbt, faults>>

Write(p) ==
    /\ pc[p] = "write"
    /\ disk' = Put(OutputPath(Requests[p]), [kind |-> "psbt", psbt |-> psbt[p], by |-> p])
    /\ Goto(p, "done")
    /\ UNCHANGED <<psbt, faults>>

\* Killed, or given up over a prompt, a file or a write: what was created stays.
Crash(p) ==
    /\ pc[p] \notin Ended /\ faults < MaxFaults
    /\ Goto(p, "crashed")
    /\ faults' = faults + 1
    /\ UNCHANGED <<disk, psbt>>
-----------------------------------------------------------------------------
Init ==
    /\ disk = Drafts
    /\ pc = [p \in Proc |-> "parse"]
    /\ psbt = [p \in Proc |-> None]
    /\ faults = 0

Step(p) ==
    \/ Parse(p) \/ ChooseWallet(p) \/ Sign(p) \/ SignAgain(p)
    \/ Approve(p) \/ Create(p) \/ Write(p)

Next == \E p \in Proc : Step(p) \/ Crash(p)

Spec == Init /\ [][Next]_vars

\* A cosigner runs the command when the file is there for him, and every
\* command that was started goes on: its prompts are answered in the end.
InputReady(p) ==
    /\ Exists(Requests[p].in)
    /\ disk[Requests[p].in].kind = "psbt"
HandOver(p) == IF pc[p] = "parse" THEN InputReady(p) /\ Parse(p) ELSE Step(p)
FairSpec ==
    /\ Init /\ [][\E p \in Proc : HandOver(p)]_vars
    /\ \A p \in Proc : WF_vars(HandOver(p))
-----------------------------------------------------------------------------
(* What makes signing correct. *)

\* A signature that was not there at first is on disk only when the owner of
\* the key was asked about the outputs of the very transaction it signs and
\* agreed, and the hidden wallet's only when its password was typed twice: no
\* chain of files carries a signature from one transaction to another.
SignaturesAreApproved ==
    \A f \in DOMAIN disk :
        disk[f].kind = "psbt" =>
            \A i \in In : \A k \in disk[f].psbt.sigs[i] :
                \/ \E d \in DOMAIN Drafts :
                      Drafts[d].psbt.tx = disk[f].psbt.tx /\ k \in Drafts[d].psbt.sigs[i]
                \/ \E p \in Proc :
                      LET r == Requests[p] IN
                      /\ k \in Keys(r)
                      /\ disk[f].psbt.tx \in r.approves
                      /\ k \in r.hidden => r.retyped

\* Signing adds and never loses: what an invocation saves is the transaction it
\* was given with the signatures that were there, and one of its own more on
\* some input unless its user insisted on signing again.
SigningExtends ==
    \A f \in DOMAIN disk :
        disk[f].kind = "psbt" /\ disk[f].by # None =>
            LET r == Requests[disk[f].by]
                given == disk[r.in].psbt
                saved == disk[f].psbt
            IN /\ Exists(r.in) /\ saved.tx = given.tx
               /\ \A i \in In : /\ given.sigs[i] \subseteq saved.sigs[i]
                                /\ saved.sigs[i] \ given.sigs[i] \subseteq Keys(r)
               /\ saved.sigs # given.sigs \/ r.again

\* The file that goes from one cosigner to the next comes back with all of
\* their signatures on every input that is theirs, whatever else the
\* transaction spends.
Chain == {p \in Proc : Requests[p].out = Default}
AllSign ==
    <>(\E f \in DOMAIN disk :
          /\ disk[f].kind = "psbt"
          /\ \A p \in Chain, i \in In :
                SignersOf(disk[f].psbt.tx, i, Keys(Requests[p])) \subseteq disk[f].psbt.sigs[i])

=============================================================================
