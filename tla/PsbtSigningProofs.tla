-------------------------- MODULE PsbtSigningProofs -------------------------
(***************************************************************************)
(* What signing guarantees for any number of invocations, any requests and *)
(* transactions, and any number of crashes.                                *)
(***************************************************************************)
EXTENDS PsbtSigning, TLAPS

USE DEF Goto

\* What an invocation was given, as the directory has it now.
Given(p) == disk[Requests[p].in].psbt

Loaded == {"choose", "sign", "again", "approve", "create", "write"}

\* b is g with signatures of p's wallet added.
Extends(b, g, p) ==
    LET r == Requests[p]
    IN  /\ b.tx = g.tx
        /\ \A i \in In : /\ g.sigs[i] \subseteq b.sigs[i]
                         /\ b.sigs[i] \ g.sigs[i] \subseteq Keys(r)
        /\ b.sigs # g.sigs \/ r.again

\* The user may use the wallet he chose.
MayUse(p) ==
    LET r == Requests[p] IN r.hidden = {} \/ ~r.real \/ r.retyped

\* What each phase of an invocation has established.
PhaseInv(p) ==
    /\ pc[p] \in Loaded => /\ InputReady(p) /\ psbt[p] \in Psbt
                           /\ psbt[p].tx = Given(p).tx
    /\ pc[p] \in {"choose", "sign", "again"} => psbt[p].sigs = Given(p).sigs
    /\ pc[p] \in Loaded \ {"choose"} => MayUse(p)
    /\ pc[p] \in {"approve", "create", "write"} => Extends(psbt[p], Given(p), p)
    /\ pc[p] \in {"create", "write"} => psbt[p].tx \in Requests[p].approves
    /\ pc[p] = "write" =>
          /\ Exists(OutputPath(Requests[p]))
          /\ disk[OutputPath(Requests[p])] = [kind |-> "partial", by |-> p]
MemoryInv == \A p \in Proc : PhaseInv(p)

\* A saved file extends what its maker was given, which is still there.
SavedBy(f, p) == InputReady(p) /\ Extends(disk[f].psbt, Given(p), p)
SavedInv ==
    \A f \in DOMAIN disk :
        disk[f].kind = "psbt" /\ disk[f].by # None => SavedBy(f, disk[f].by)

IInv == TypeOK /\ MemoryInv /\ SavedInv /\ SignaturesAreApproved
-----------------------------------------------------------------------------
(* Types. *)

\* The kind of a file tells what it is.
LEMMA ContentFacts ==
    ASSUME NEW c \in PartialFile \cup PsbtFile
    PROVE  /\ c.kind = "psbt" => c \in PsbtFile /\ c.psbt \in Psbt /\ c.by \in Proc \cup {None}
           /\ c.kind \in {"psbt", "partial"}
  BY DEF PartialFile, PsbtFile

\* Signing keeps the type of a PSBT, the transaction and every signature, and
\* adds none but those of the wallet.
LEMMA SigningFacts ==
    ASSUME NEW b \in Psbt, NEW p \in Proc
    PROVE  LET signed == sign_partial(b, Keys(Requests[p]))
           IN  /\ signed \in [In -> SUBSET Cosigner]
               /\ \A i \in In : /\ b.sigs[i] \subseteq signed[i]
                                /\ signed[i] \ b.sigs[i] \subseteq Keys(Requests[p])
  <1> DEFINE keys == Keys(Requests[p])
             signed == sign_partial(b, keys)
  <1>1. b.tx \in Tx /\ b.sigs \in [In -> SUBSET Cosigner]
    BY DEF Psbt
  <1>2. \A i \in In : SignersOf(b.tx, i, keys) \subseteq Cosigner \cap keys
    <2>1. SUFFICES ASSUME NEW i \in In
                   PROVE  SignersOf(b.tx, i, keys) \subseteq Cosigner \cap keys
      OBVIOUS
    <2>2. Input[b.tx][i].origins \subseteq Cosigner
      BY <1>1, SigningAssumption DEF InputInfo
    <2> QED BY <2>2 DEF SignersOf
  <1>3. \A i \in In : signed[i] = b.sigs[i] \cup SignersOf(b.tx, i, keys)
    BY DEF sign_partial
  <1>4. signed \in [In -> SUBSET Cosigner]
    BY <1>1, <1>2 DEF sign_partial
  <1> HIDE DEF signed, keys
  <1> QED BY <1>2, <1>3, <1>4 DEF signed, keys

\* The initial directory holds the drafts.
LEMMA InitType == Init => TypeOK
  <1> SUFFICES ASSUME Init PROVE TypeOK
    OBVIOUS
  <1>1. disk \in [DOMAIN disk -> PartialFile \cup PsbtFile]
    <2>1. disk = Drafts
      BY DEF Init
    <2> QED BY <2>1, SigningAssumption
  <1>2. DOMAIN disk \subseteq Names
    BY DEF Init, Names
  <1>3. faults \in 0..MaxFaults
    BY SigningAssumption DEF Init
  <1> QED BY <1>1, <1>2, <1>3 DEF Init, TypeOK, Ended

\* A legal file put under the name of an output leaves a legal directory.
LEMMA PutType ==
    ASSUME TypeOK, NEW p \in Proc, NEW c \in PartialFile \cup PsbtFile,
           disk' = Put(OutputPath(Requests[p]), c)
    PROVE  /\ DOMAIN disk' \subseteq Names
           /\ disk' \in [DOMAIN disk' -> PartialFile \cup PsbtFile]
  <1>1. OutputPath(Requests[p]) \in Names
    BY DEF Names
  <1>2. disk' = [g \in DOMAIN disk \cup {OutputPath(Requests[p])} |->
                    IF g = OutputPath(Requests[p]) THEN c ELSE disk[g]]
    BY DEF Put
  <1>3. \A g \in DOMAIN disk : disk[g] \in PartialFile \cup PsbtFile
    BY DEF TypeOK
  <1> QED BY <1>1, <1>2, <1>3 DEF TypeOK

\* Every action keeps the types.
LEMMA StepType == TypeOK /\ MemoryInv /\ [Next]_vars => TypeOK'
  <1> SUFFICES ASSUME TypeOK, MemoryInv, [Next]_vars PROVE TypeOK'
    OBVIOUS
  <1> USE DEF TypeOK, Ended
  <1>1. ASSUME NEW p \in Proc, Parse(p) PROVE TypeOK'
    <2>1. ASSUME Exists(Requests[p].in), disk[Requests[p].in].kind = "psbt"
          PROVE  disk[Requests[p].in].psbt \in Psbt
      BY <2>1, ContentFacts DEF Exists
    <2> QED BY <1>1, <2>1 DEF Parse
  <1>2. ASSUME NEW p \in Proc, ChooseWallet(p) PROVE TypeOK'
    BY <1>2 DEF ChooseWallet
  <1>3. ASSUME NEW p \in Proc, Sign(p) PROVE TypeOK'
    <2>1. psbt[p] \in Psbt
      BY <1>3 DEF Sign, MemoryInv, PhaseInv, Loaded
    <2>2. [psbt[p] EXCEPT !.sigs = sign_partial(psbt[p], Keys(Requests[p]))] \in Psbt
      BY <2>1, SigningFacts DEF Psbt
    <2>3. psbt' \in [Proc -> Psbt \cup {None}]
      BY <1>3, <2>2 DEF Sign
    <2>4. pc' \in [Proc -> Ended \cup
                 {"parse", "choose", "sign", "again", "approve", "create", "write"}]
      BY <1>3 DEF Sign, Approvable
    <2> QED BY <1>3, <2>3, <2>4 DEF Sign
  <1>4. ASSUME NEW p \in Proc, SignAgain(p) PROVE TypeOK'
    BY <1>4 DEF SignAgain, Approvable
  <1>5. ASSUME NEW p \in Proc, Approve(p) PROVE TypeOK'
    BY <1>5 DEF Approve
  <1>6. ASSUME NEW p \in Proc, Create(p) PROVE TypeOK'
    <2>1. [kind |-> "partial", by |-> p] \in PartialFile \cup PsbtFile
      BY DEF PartialFile
    <2>2. /\ DOMAIN disk' \subseteq Names
          /\ disk' \in [DOMAIN disk' -> PartialFile \cup PsbtFile]
      <3>1. CASE Exists(OutputPath(Requests[p]))
        BY <1>6, <3>1 DEF Create
      <3>2. CASE ~Exists(OutputPath(Requests[p]))
        BY <1>6, <2>1, <3>2, PutType DEF Create
      <3> QED BY <3>1, <3>2
    <2>3. /\ psbt' = psbt /\ faults' = faults
          /\ pc' \in [Proc -> Ended \cup
                 {"parse", "choose", "sign", "again", "approve", "create", "write"}]
      BY <1>6 DEF Create
    <2> QED BY <2>2, <2>3
  <1>7. ASSUME NEW p \in Proc, Write(p) PROVE TypeOK'
    <2>1. psbt[p] \in Psbt
      BY <1>7 DEF Write, MemoryInv, PhaseInv, Loaded
    <2>2. [kind |-> "psbt", psbt |-> psbt[p], by |-> p] \in PartialFile \cup PsbtFile
      BY <2>1 DEF PsbtFile
    <2>3. /\ DOMAIN disk' \subseteq Names
          /\ disk' \in [DOMAIN disk' -> PartialFile \cup PsbtFile]
      BY <1>7, <2>2, PutType DEF Write
    <2>4. /\ psbt' = psbt /\ faults' = faults
          /\ pc' \in [Proc -> Ended \cup
                 {"parse", "choose", "sign", "again", "approve", "create", "write"}]
      BY <1>7 DEF Write
    <2> QED BY <2>3, <2>4
  <1>8. ASSUME NEW p \in Proc, Crash(p) PROVE TypeOK'
    <2>1. faults' \in 0..MaxFaults
      BY <1>8, SigningAssumption DEF Crash
    <2> QED BY <1>8, <2>1 DEF Crash
  <1>9. CASE UNCHANGED vars
    BY <1>9 DEF vars
  <1> QED BY <1>1, <1>2, <1>3, <1>4, <1>5, <1>6, <1>7, <1>8, <1>9 DEF Next, Step
-----------------------------------------------------------------------------
(* What one invocation leaves of what another relies on. *)

\* A step changes no file but the partial one of the invocation that makes it.
Keeps(p) ==
    \A f \in DOMAIN disk :
        /\ f \in DOMAIN disk'
        /\ disk'[f] = disk[f] \/ disk[f] = [kind |-> "partial", by |-> p]

\* Every step of p keeps the others' phases and files.
LEMMA StepKeeps ==
    ASSUME TypeOK, MemoryInv, NEW p \in Proc, Step(p) \/ Crash(p)
    PROVE  /\ Keeps(p)
           /\ \A q \in Proc : q # p => pc'[q] = pc[q] /\ psbt'[q] = psbt[q]
  <1>1. \A q \in Proc : q # p => pc'[q] = pc[q] /\ psbt'[q] = psbt[q]
    BY DEF TypeOK, Step, Parse, ChooseWallet, Sign, SignAgain, Approve, Create, Write, Crash
  <1>2. CASE disk' = disk
    BY <1>1, <1>2 DEF Keeps
  <1>3. CASE Create(p) /\ ~Exists(OutputPath(Requests[p]))
    <2>1. disk' = Put(OutputPath(Requests[p]), [kind |-> "partial", by |-> p])
      BY <1>3 DEF Create
    <2>2. \A f \in DOMAIN disk : f # OutputPath(Requests[p])
      BY <1>3 DEF Exists
    <2>3. \A f \in DOMAIN disk : f \in DOMAIN disk' /\ disk'[f] = disk[f]
      BY <2>1, <2>2 DEF Put
    <2> QED BY <1>1, <2>3 DEF Keeps
  <1>4. CASE Write(p)
    <2>1. disk' = Put(OutputPath(Requests[p]), [kind |-> "psbt", psbt |-> psbt[p], by |-> p])
      BY <1>4 DEF Write
    <2>2. disk[OutputPath(Requests[p])] = [kind |-> "partial", by |-> p]
      BY <1>4 DEF Write, MemoryInv, PhaseInv
    <2>3. \A f \in DOMAIN disk : f \in DOMAIN disk'
      BY <2>1 DEF Put
    <2>4. \A f \in DOMAIN disk : f # OutputPath(Requests[p]) => disk'[f] = disk[f]
      BY <2>1 DEF Put
    <2> QED BY <1>1, <2>2, <2>3, <2>4 DEF Keeps
  <1> QED BY <1>2, <1>3, <1>4
          DEF Step, Parse, ChooseWallet, Sign, SignAgain, Approve, Create, Crash

\* An input that could be read can be, and is what it was.
LEMMA InputKept ==
    ASSUME NEW p \in Proc, Keeps(p), NEW q \in Proc, InputReady(q)
    PROVE  InputReady(q)' /\ Given(q)' = Given(q)
  <1>1. disk[Requests[q].in] # [kind |-> "partial", by |-> p]
    BY DEF InputReady
  <1>2. Requests[q].in \in DOMAIN disk'
        /\ disk'[Requests[q].in] = disk[Requests[q].in]
    BY <1>1 DEF Keeps, InputReady, Exists
  <1> QED BY <1>2 DEF InputReady, Exists, Given

\* What another invocation has established stays so.
LEMMA OtherKept ==
    ASSUME MemoryInv, NEW p \in Proc, Keeps(p), NEW q \in Proc, q # p,
           pc'[q] = pc[q], psbt'[q] = psbt[q]
    PROVE  PhaseInv(q)'
  <1>1. PhaseInv(q)
    BY DEF MemoryInv
  <1>2. CASE pc[q] \notin Loaded
    BY <1>2 DEF PhaseInv, Loaded
  <1>3. CASE pc[q] \in Loaded
    <2>1. InputReady(q)
      BY <1>1, <1>3 DEF PhaseInv
    <2>2. InputReady(q)' /\ Given(q)' = Given(q)
      BY <2>1, InputKept
    <2>3. ASSUME pc[q] = "write"
          PROVE  /\ Exists(OutputPath(Requests[q]))'
                 /\ disk'[OutputPath(Requests[q])] = [kind |-> "partial", by |-> q]
      <3>1. /\ Exists(OutputPath(Requests[q]))
            /\ disk[OutputPath(Requests[q])] = [kind |-> "partial", by |-> q]
        BY <1>1, <2>3 DEF PhaseInv
      <3> QED BY <3>1 DEF Keeps, Exists
    <2>4. MayUse(q)' <=> MayUse(q)
      BY DEF MayUse
    <2>5. Extends(psbt[q], Given(q), q)' <=> Extends(psbt[q], Given(q), q)
      BY <2>2 DEF Extends, Keys
    <2> QED BY <1>1, <1>3, <2>2, <2>3, <2>4, <2>5 DEF PhaseInv
  <1> QED BY <1>2, <1>3
-----------------------------------------------------------------------------
(* What an invocation establishes itself. *)

\* A phase that does not write keeps what it holds and has read.
LEMMA OwnKept ==
    ASSUME TypeOK, MemoryInv, NEW p \in Proc, Step(p) \/ Crash(p), disk' = disk,
           pc'[p] \in Loaded, pc[p] \in Loaded
    PROVE  /\ InputReady(p)' /\ Given(p)' = Given(p)
           /\ psbt[p] \in Psbt /\ psbt[p].tx = Given(p).tx
  <1>1. InputReady(p) /\ psbt[p] \in Psbt /\ psbt[p].tx = Given(p).tx
    BY DEF MemoryInv, PhaseInv
  <1>2. InputReady(p)' /\ Given(p)' = Given(p)
    BY <1>1 DEF InputReady, Exists, Given
  <1> QED BY <1>1, <1>2

\* Each step of an invocation establishes what its next phase needs.
LEMMA OwnStep ==
    ASSUME TypeOK, MemoryInv, NEW p \in Proc, Step(p) \/ Crash(p)
    PROVE  PhaseInv(p)'
  <1> USE DEF TypeOK
  <1>0. PhaseInv(p)
    BY DEF MemoryInv
  <1>1. ASSUME pc'[p] \notin Loaded PROVE PhaseInv(p)'
    BY <1>1 DEF PhaseInv, Loaded
  <1>2. CASE Parse(p)
    <2>1. CASE pc'[p] = "choose"
      <3>1. /\ InputReady(p) /\ disk' = disk
            /\ psbt'[p] = Given(p)
        BY <1>2, <2>1 DEF Parse, InputReady, Exists, Given
      <3>2. Given(p) \in Psbt
        BY <3>1, ContentFacts DEF Given, InputReady, Exists
      <3>3. InputReady(p)' /\ Given(p)' = Given(p)
        BY <3>1 DEF InputReady, Exists, Given
      <3> QED BY <2>1, <3>1, <3>2, <3>3 DEF PhaseInv, Loaded
    <2>2. CASE pc'[p] = "failed"
      BY <1>1, <2>2 DEF Loaded
    <2> QED BY <1>2, <2>1, <2>2 DEF Parse
  <1>3. CASE ChooseWallet(p)
    <2>1. CASE pc'[p] = "sign"
      <3>1. pc[p] = "choose" /\ disk' = disk /\ psbt' = psbt
        BY <1>3 DEF ChooseWallet
      <3>2. MayUse(p)'
        BY <1>3, <2>1 DEF ChooseWallet, MayUse
      <3>3. psbt[p].sigs = Given(p).sigs
        BY <1>0, <3>1 DEF PhaseInv
      <3> QED BY <2>1, <3>1, <3>2, <3>3, OwnKept DEF PhaseInv, Loaded
    <2>2. CASE pc' = pc
      <3>1. pc[p] = "choose" /\ pc'[p] = "choose" /\ disk' = disk /\ psbt' = psbt
        BY <1>3, <2>2 DEF ChooseWallet
      <3>2. psbt[p].sigs = Given(p).sigs
        BY <1>0, <3>1 DEF PhaseInv
      <3> QED BY <3>1, <3>2, OwnKept DEF PhaseInv, Loaded
    <2> QED BY <1>3, <2>1, <2>2 DEF ChooseWallet
  <1>4. CASE Sign(p)
    <2> DEFINE signed == sign_partial(psbt[p], Keys(Requests[p]))
    <2>1. pc[p] = "sign" /\ disk' = disk /\ pc[p] \in Loaded
      BY <1>4 DEF Sign, Loaded
    <2>2. CASE ~Signs(psbt[p], Keys(Requests[p])) \/ pc'[p] = "failed"
      <3>1. pc'[p] = "failed"
        BY <1>4, <2>2 DEF Sign
      <3> QED BY <1>1, <3>1 DEF Loaded
    <2>3. CASE Signs(psbt[p], Keys(Requests[p])) /\ pc'[p] # "failed"
      <3>1. psbt' = [psbt EXCEPT ![p].sigs = signed]
        BY <1>4, <2>3 DEF Sign
      <3>2. IF signed = psbt[p].sigs THEN pc'[p] = "again" ELSE pc'[p] = "approve"
        BY <1>4, <2>3 DEF Sign, Approvable
      <3>3. pc'[p] \in Loaded
        BY <3>2 DEF Loaded
      <3>4. /\ InputReady(p)' /\ Given(p)' = Given(p)
            /\ psbt[p] \in Psbt /\ psbt[p].tx = Given(p).tx
        BY <2>1, <3>3, OwnKept
      <3>5. /\ signed \in [In -> SUBSET Cosigner]
            /\ \A i \in In : /\ psbt[p].sigs[i] \subseteq signed[i]
                             /\ signed[i] \ psbt[p].sigs[i] \subseteq Keys(Requests[p])
        BY <3>4, SigningFacts
      <3>6. psbt[p].sigs = Given(p).sigs /\ MayUse(p)
        BY <1>0, <2>1 DEF PhaseInv, Loaded
      <3> HIDE DEF signed
      <3>7. psbt'[p].tx = psbt[p].tx /\ psbt'[p].sigs = signed /\ psbt'[p] \in Psbt
        BY <3>1, <3>4, <3>5 DEF Psbt
      <3>8. signed # psbt[p].sigs => Extends(psbt'[p], Given(p)', p)
        BY <3>4, <3>5, <3>6, <3>7 DEF Extends
      <3>9. MayUse(p)'
        BY <3>6 DEF MayUse
      <3>10. CASE signed = psbt[p].sigs
        BY <3>2, <3>3, <3>4, <3>6, <3>7, <3>9, <3>10 DEF PhaseInv
      <3>11. CASE signed # psbt[p].sigs
        BY <3>2, <3>3, <3>4, <3>7, <3>8, <3>9, <3>11 DEF PhaseInv
      <3> QED BY <3>10, <3>11
    <2> QED BY <2>2, <2>3
  <1>5. CASE SignAgain(p)
    <2>1. pc[p] = "again" /\ disk' = disk /\ psbt' = psbt /\ pc[p] \in Loaded
      BY <1>5 DEF SignAgain, Loaded
    <2>2. CASE pc'[p] = "approve"
      <3>1. Requests[p].again
        BY <1>5, <2>2 DEF SignAgain
      <3>2. psbt[p].sigs = Given(p).sigs /\ MayUse(p)
        BY <1>0, <2>1 DEF PhaseInv, Loaded
      <3>3. /\ InputReady(p)' /\ Given(p)' = Given(p)
            /\ psbt[p] \in Psbt /\ psbt[p].tx = Given(p).tx
        BY <2>1, <2>2, OwnKept DEF Loaded
      <3>4. Extends(psbt[p], Given(p), p)
        BY <3>1, <3>2, <3>3 DEF Extends
      <3>5. Extends(psbt'[p], Given(p)', p) /\ MayUse(p)'
        BY <2>1, <3>2, <3>3, <3>4 DEF MayUse
      <3> QED BY <2>1, <2>2, <3>3, <3>5 DEF PhaseInv
    <2>3. CASE pc'[p] \in {"failed", "done"}
      BY <1>1, <2>3 DEF Loaded
    <2> QED BY <1>5, <2>2, <2>3 DEF SignAgain, Approvable
  <1>6. CASE Approve(p)
    <2>1. pc[p] = "approve" /\ disk' = disk /\ psbt' = psbt /\ pc[p] \in Loaded
      BY <1>6 DEF Approve, Loaded
    <2>2. CASE pc'[p] = "create"
      <3>1. psbt[p].tx \in Requests[p].approves
        BY <1>6, <2>2 DEF Approve
      <3>2. Extends(psbt[p], Given(p), p) /\ MayUse(p)
        BY <1>0, <2>1 DEF PhaseInv, Loaded
      <3>3. /\ InputReady(p)' /\ Given(p)' = Given(p)
            /\ psbt[p] \in Psbt /\ psbt[p].tx = Given(p).tx
        BY <2>1, <2>2, OwnKept DEF Loaded
      <3>4. Extends(psbt'[p], Given(p)', p) /\ MayUse(p)'
        BY <2>1, <3>2, <3>3 DEF MayUse
      <3> QED BY <2>1, <2>2, <3>1, <3>3, <3>4 DEF PhaseInv
    <2>3. CASE pc'[p] = "done"
      BY <1>1, <2>3 DEF Loaded
    <2> QED BY <1>6, <2>2, <2>3 DEF Approve
  <1>7. CASE Create(p)
    <2>1. CASE Exists(OutputPath(Requests[p]))
      BY <1>1, <1>7, <2>1 DEF Create, Loaded
    <2>2. CASE ~Exists(OutputPath(Requests[p]))
      <3>1. /\ pc[p] = "create" /\ pc'[p] = "write" /\ psbt' = psbt
            /\ disk' = Put(OutputPath(Requests[p]), [kind |-> "partial", by |-> p])
        BY <1>7, <2>2 DEF Create
      <3>2. Extends(psbt[p], Given(p), p) /\ MayUse(p)
            /\ InputReady(p) /\ psbt[p] \in Psbt /\ psbt[p].tx = Given(p).tx
            /\ psbt[p].tx \in Requests[p].approves
        BY <1>0, <3>1 DEF PhaseInv, Loaded
      <3>3. InputReady(p)' /\ Given(p)' = Given(p)
        BY <3>2, StepKeeps, InputKept
      <3>4. /\ Exists(OutputPath(Requests[p]))'
            /\ disk'[OutputPath(Requests[p])] = [kind |-> "partial", by |-> p]
        BY <3>1 DEF Put, Exists
      <3>5. Extends(psbt'[p], Given(p)', p) /\ MayUse(p)'
        BY <3>1, <3>2, <3>3 DEF MayUse
      <3> QED BY <3>1, <3>2, <3>3, <3>4, <3>5 DEF PhaseInv
    <2> QED BY <2>1, <2>2
  <1>8. CASE Write(p) \/ Crash(p)
    <2>1. pc'[p] \in {"done", "crashed"}
      BY <1>8 DEF Write, Crash
    <2> QED BY <1>1, <2>1 DEF Loaded
  <1> QED BY <1>2, <1>3, <1>4, <1>5, <1>6, <1>7, <1>8 DEF Step
-----------------------------------------------------------------------------
(* What is on disk. *)

\* A PSBT on disk was there before, or is what its maker has just written.
LEMMA NewFile ==
    ASSUME TypeOK, NEW p \in Proc, Step(p) \/ Crash(p),
           NEW f \in DOMAIN disk', disk'[f].kind = "psbt"
    PROVE  \/ f \in DOMAIN disk /\ disk'[f] = disk[f]
           \/ pc[p] = "write" /\ disk'[f] = [kind |-> "psbt", psbt |-> psbt[p], by |-> p]
  <1>1. CASE disk' = disk
    BY <1>1
  <1>2. CASE Create(p) /\ ~Exists(OutputPath(Requests[p]))
    <2>1. disk' = Put(OutputPath(Requests[p]), [kind |-> "partial", by |-> p])
      BY <1>2 DEF Create
    <2> QED BY <2>1 DEF Put
  <1>3. CASE Write(p)
    BY <1>3 DEF Write, Put
  <1> QED BY <1>1, <1>2, <1>3
          DEF Step, Parse, ChooseWallet, Sign, SignAgain, Approve, Create, Crash

\* What is written extends what was given, and later steps change neither.
LEMMA SavedStep ==
    ASSUME TypeOK, MemoryInv, SavedInv, NEW p \in Proc, Step(p) \/ Crash(p)
    PROVE  SavedInv'
  <1> SUFFICES ASSUME NEW f \in DOMAIN disk', disk'[f].kind = "psbt", disk'[f].by # None
               PROVE  SavedBy(f, disk[f].by)'
    BY DEF SavedInv
  <1>1. CASE f \in DOMAIN disk /\ disk'[f] = disk[f]
    <2>1. disk[f].by \in Proc
      BY <1>1, ContentFacts DEF TypeOK
    <2>2. PICK q \in Proc : q = disk[f].by
      BY <2>1
    <2>3. InputReady(q) /\ Extends(disk[f].psbt, Given(q), q)
      BY <1>1, <2>2 DEF SavedInv, SavedBy
    <2>4. InputReady(q)' /\ Given(q)' = Given(q)
      BY <2>3, StepKeeps, InputKept
    <2>5. disk'[f].by = q /\ Extends(disk'[f].psbt, Given(q)', q)
      BY <1>1, <2>2, <2>3, <2>4
    <2> QED BY <2>4, <2>5 DEF SavedBy, InputReady, Exists, Given
  <1>2. CASE pc[p] = "write" /\ disk'[f] = [kind |-> "psbt", psbt |-> psbt[p], by |-> p]
    <2>1. InputReady(p) /\ Extends(psbt[p], Given(p), p)
      BY <1>2 DEF MemoryInv, PhaseInv, Loaded
    <2>2. InputReady(p)' /\ Given(p)' = Given(p)
      BY <2>1, StepKeeps, InputKept
    <2>3. Extends(disk'[f].psbt, Given(p)', p)
      BY <1>2, <2>1, <2>2
    <2>4. disk'[f].by = p
      BY <1>2
    <2> QED BY <2>2, <2>3, <2>4 DEF SavedBy, InputReady, Exists, Given
  <1> QED BY <1>1, <1>2, NewFile

\* Who stands behind a signature: a draft, or an owner who agreed.
Behind(k, i, tx) ==
    \/ \E d \in DOMAIN Drafts : Drafts[d].psbt.tx = tx /\ k \in Drafts[d].psbt.sigs[i]
    \/ \E p \in Proc :
          LET r == Requests[p] IN
          k \in Keys(r) /\ tx \in r.approves /\ (k \in r.hidden => r.retyped)

\* A signature of the wallet chosen is one its user was asked about.
LEMMA OwnSignature ==
    ASSUME NEW p \in Proc, MayUse(p), NEW i \in In, NEW k \in Keys(Requests[p]),
           NEW tx \in Requests[p].approves
    PROVE  Behind(k, i, tx)
  <1>1. k \in Requests[p].hidden => Requests[p].retyped
    <2>1. Requests[p].keys \cap Requests[p].hidden = {}
      BY SigningAssumption
    <2> QED BY <2>1 DEF Keys, MayUse
  <1> QED BY <1>1 DEF Behind

\* A signature on disk was there before, was given to the one who writes it, or
\* is his own.
LEMMA ApprovedStep ==
    ASSUME TypeOK, MemoryInv, SignaturesAreApproved, NEW p \in Proc, Step(p) \/ Crash(p)
    PROVE  SignaturesAreApproved'
  <1>1. ASSUME NEW f \in DOMAIN disk, disk[f].kind = "psbt", NEW i \in In,
               NEW k \in disk[f].psbt.sigs[i]
        PROVE  Behind(k, i, disk[f].psbt.tx)
    BY <1>1 DEF SignaturesAreApproved, Behind
  <1>2. SUFFICES ASSUME NEW f \in DOMAIN disk', disk'[f].kind = "psbt", NEW i \in In,
                        NEW k \in disk'[f].psbt.sigs[i]
                 PROVE  Behind(k, i, disk'[f].psbt.tx)
    BY DEF SignaturesAreApproved, Behind
  <1>3. CASE f \in DOMAIN disk /\ disk'[f] = disk[f]
    BY <1>1, <1>2, <1>3
  <1>4. CASE pc[p] = "write" /\ disk'[f] = [kind |-> "psbt", psbt |-> psbt[p], by |-> p]
    <2>1. /\ InputReady(p) /\ Extends(psbt[p], Given(p), p) /\ MayUse(p)
          /\ psbt[p].tx \in Requests[p].approves
      BY <1>4 DEF MemoryInv, PhaseInv, Loaded
    <2>2. disk'[f].psbt = psbt[p]
      BY <1>4
    <2>3. CASE k \in Given(p).sigs[i]
      <3>1. /\ Requests[p].in \in DOMAIN disk /\ disk[Requests[p].in].kind = "psbt"
            /\ psbt[p].tx = Given(p).tx
        BY <2>1 DEF InputReady, Exists, Extends
      <3> QED BY <1>1, <2>2, <2>3, <3>1 DEF Given
    <2>4. CASE k \notin Given(p).sigs[i]
      <3>1. k \in Keys(Requests[p])
        BY <2>1, <2>2, <2>4 DEF Extends
      <3> QED BY <2>1, <2>2, <3>1, OwnSignature
    <2> QED BY <2>3, <2>4
  <1> QED BY <1>2, <1>3, <1>4, NewFile
-----------------------------------------------------------------------------
(* The theorems. *)

\* The invariant holds at first and each step keeps it.
LEMMA InitInv == Init => IInv
  <1> SUFFICES ASSUME Init PROVE IInv
    OBVIOUS
  <1>1. TypeOK
    BY InitType
  <1>2. MemoryInv
    BY DEF Init, MemoryInv, PhaseInv, Loaded
  <1>3. SavedInv
    BY SigningAssumption DEF Init, SavedInv
  <1>4. SignaturesAreApproved
    BY DEF Init, SignaturesAreApproved
  <1> QED BY <1>1, <1>2, <1>3, <1>4 DEF IInv

\* Every step keeps the invariant.
LEMMA StepInv == IInv /\ [Next]_vars => IInv'
  <1> SUFFICES ASSUME IInv, [Next]_vars PROVE IInv'
    OBVIOUS
  <1>1. TypeOK'
    BY StepType DEF IInv
  <1>2. ASSUME NEW p \in Proc, Step(p) \/ Crash(p) PROVE IInv'
    <2>1. \A q \in Proc : PhaseInv(q)'
      BY <1>2, OwnStep, StepKeeps, OtherKept DEF IInv
    <2>2. SavedInv' /\ SignaturesAreApproved'
      BY <1>2, SavedStep, ApprovedStep DEF IInv
    <2> QED BY <1>1, <2>1, <2>2 DEF IInv, MemoryInv
  <1>3. CASE UNCHANGED vars
    BY <1>3 DEF IInv, TypeOK, MemoryInv, PhaseInv, SavedInv, SavedBy, InputReady, Given,
               MayUse, Exists, SignaturesAreApproved, vars
  <1> QED BY <1>2, <1>3 DEF Next

\* The inductive invariant always holds.
LEMMA Invariant == Spec => []IInv
  BY InitInv, StepInv, PTL DEF Spec

\* Every variable keeps its type (the directory, the phases and the PSBTs held by
\* the sign command).
THEOREM TypeCorrect == Spec => []TypeOK
  <1>1. IInv => TypeOK
    BY DEF IInv
  <1> QED BY <1>1, Invariant, PTL

\* No signature reaches the disk without the consent of its owner to the outputs
\* of the transaction (sign_core asks before save_psbt_file).
THEOREM NoSignatureWithoutConsent == Spec => []SignaturesAreApproved
  <1>1. IInv => SignaturesAreApproved
    BY DEF IInv
  <1> QED BY <1>1, Invariant, PTL

\* What is saved is what was given with signatures of the wallet added
\* (sign_psbt and save_psbt_file).
THEOREM NoSignatureIsLost == Spec => []SigningExtends
  <1>1. IInv => SigningExtends
    BY DEF IInv, SavedInv, SavedBy, InputReady, Extends, Given, SigningExtends
  <1> QED BY <1>1, Invariant, PTL
=============================================================================
