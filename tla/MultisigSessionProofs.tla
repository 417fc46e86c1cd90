----------------------- MODULE MultisigSessionProofs ------------------------
(***************************************************************************)
(* What collecting cosigners guarantees for any files, in whatever order   *)
(* they are tried, any configurations and any number of refusals.          *)
(***************************************************************************)
EXTENDS MultisigSession, FiniteSetTheorems, TLAPS

Reading == {"select", "decrypt"}
WithWallet == {"generated", "signers", "opened"} \cup OpeningSigners

\* Every change key is that of a receiving key, whatever was merged.
PairsInv ==
    /\ IsFiniteSet(inputs.receiving)
    /\ IsFiniteSet(inputs.change)
    /\ inputs.change = {ChangeOf(k) : k \in inputs.receiving}

\* What each phase may rely on.
PhaseInv ==
    /\ pc \in Reading => refused < MaxRefused
    /\ pc \in {"decrypt", "decryptSigner"} => file \in Files
    /\ pc \in WithWallet => /\ wallet \in Wallet
                            /\ wallet.change = {ChangeOf(k) : k \in wallet.receiving}

\* The signers' keys are among those collected.
SignersAmong ==
    \A n \in 1..Len(inputs.signers) :
        /\ Receiving(inputs.signers[n]) \in inputs.receiving
        /\ Change(inputs.signers[n]) \in inputs.change

\* While nothing was refused, a user has as many keys as files were taken.
Clean == asker = "prompt" /\ refused = 0 /\ pc \in Collecting \cup {"collected"}
CleanInv ==
    Clean =>
        /\ Cardinality(inputs.receiving) = taken
        /\ Cardinality(inputs.change) = taken
        /\ Len(inputs.signers) <= taken
        /\ SignersAmong
        /\ pc = "collected" => taken = conf.total

IInv ==
    TypeOK /\ PairsInv /\ PhaseInv /\ CleanInv
    /\ ReceiveAndChangeMatch /\ SignersFit /\ NeverPanics
-----------------------------------------------------------------------------
(* What a file adds. *)

\* One receiving key with its change key, and at most their owner as signer.
OneKey(new, k, s) ==
    /\ new = [receiving |-> {k}, change |-> {ChangeOf(k)}, signers |-> s]
    /\ k \in DescriptorPublicKey
    /\ \/ s = <<>>
       \/ \E c \in Cosigner : s = <<c>> /\ k = Receiving(c)
OneCosigner(new) == \E k \in DescriptorPublicKey, s \in Seq(Cosigner) : OneKey(new, k, s)

\* The keys of a cosigner: the change key is the receiving key's, and no change
\* key is ever taken for a receiving one.
LEMMA KeyFacts ==
    /\ \A c \in Cosigner : /\ Receiving(c) \in DescriptorPublicKey
                           /\ Change(c) \in DescriptorPublicKey
                           /\ ChangeOf(Receiving(c)) = Change(c)
    /\ \A k \in DescriptorPublicKey : /\ ChangeOf(k) \in DescriptorPublicKey
                                      /\ ChangeOf(k).chain # "0"
  BY DEF Receiving, Change, ChangeOf, DescriptorPublicKey

\* A plain file and an opened wallet each bring one cosigner.
LEMMA FilesBringOne ==
    /\ \A f \in File : OneCosigner(PlainInputs(f))
    /\ \A f \in File : \A c \in Identities(f) : c \in Cosigner
    /\ \A c \in Cosigner : OneCosigner(SignerInputs(c))
  <1>1. ASSUME NEW f \in File
        PROVE  OneCosigner(PlainInputs(f))
    <2> DEFINE chain == IF f.kind = "descriptor" THEN f.chain ELSE "0"
               k == [of |-> f.of, chain |-> chain]
    <2>1. k \in DescriptorPublicKey
      BY DEF File, DescriptorPublicKey
    <2>2. ChangeOf(k) = [of |-> f.of, chain |-> IF chain = "0" THEN "1" ELSE chain]
      BY DEF ChangeOf
    <2>3. PlainInputs(f) = [receiving |-> {k}, change |-> {ChangeOf(k)}, signers |-> <<>>]
      BY <2>2 DEF PlainInputs
    <2>4. <<>> \in Seq(Cosigner)
      OBVIOUS
    <2> QED BY <2>1, <2>3, <2>4 DEF OneKey, OneCosigner
  <1>2. ASSUME NEW f \in File, NEW c \in Identities(f)
        PROVE  c \in Cosigner
    BY DEF File, Identities, Cosigner
  <1>3. ASSUME NEW c \in Cosigner
        PROVE  OneCosigner(SignerInputs(c))
    <2>1. SignerInputs(c) = [receiving |-> {Receiving(c)},
                             change |-> {ChangeOf(Receiving(c))}, signers |-> <<c>>]
      BY KeyFacts DEF SignerInputs
    <2>2. <<c>> \in Seq(Cosigner)
      OBVIOUS
    <2> QED BY <2>1, <2>2, KeyFacts DEF OneKey, OneCosigner
  <1> QED BY <1>1, <1>2, <1>3

\* A set that takes in one key it did not have has one more.
LEMMA OneMore ==
    ASSUME NEW S, NEW x, IsFiniteSet(S)
    PROVE  /\ IsFiniteSet(S \cup {x})
           /\ Cardinality({x} \ S) = 1 => Cardinality(S \cup {x}) = Cardinality(S) + 1
  <1>1. IsFiniteSet(S \cup {x})
    BY FS_AddElement
  <1>2. ASSUME Cardinality({x} \ S) = 1
        PROVE  Cardinality(S \cup {x}) = Cardinality(S) + 1
    <2>1. x \notin S
      <3>1. SUFFICES ASSUME x \in S
                     PROVE  FALSE
        OBVIOUS
      <3>2. {x} \ S = {}
        BY <3>1
      <3> QED BY <1>2, <3>2, FS_EmptySet
    <2> QED BY <2>1, FS_AddElement
  <1> QED BY <1>1, <1>2

\* The inputs stay paired, whatever is merged.
LEMMA JoinedFacts ==
    ASSUME inputs \in MultisigInputs, PairsInv, NEW new, OneCosigner(new)
    PROVE  /\ Joined(new) \in MultisigInputs
           /\ IsFiniteSet(Joined(new).receiving)
           /\ IsFiniteSet(Joined(new).change)
           /\ Joined(new).change = {ChangeOf(k) : k \in Joined(new).receiving}
  <1>1. PICK k \in DescriptorPublicKey, s \in Seq(Cosigner) : OneKey(new, k, s)
    BY DEF OneCosigner
  <1>2. /\ Joined(new).receiving = inputs.receiving \cup {k}
        /\ Joined(new).change = inputs.change \cup {ChangeOf(k)}
        /\ Joined(new).signers = inputs.signers \o s
    BY <1>1 DEF OneKey, Joined
  <1>3. Joined(new) = [receiving |-> inputs.receiving \cup {k},
                       change |-> inputs.change \cup {ChangeOf(k)},
                       signers |-> inputs.signers \o s]
    BY <1>1 DEF OneKey, Joined
  <1>4. /\ inputs.receiving \in SUBSET DescriptorPublicKey
        /\ inputs.change \in SUBSET DescriptorPublicKey
        /\ inputs.signers \in Seq(Cosigner)
    BY DEF MultisigInputs
  <1>5. inputs.signers \o s \in Seq(Cosigner)
    BY <1>4
  <1>6. Joined(new) \in MultisigInputs
    BY <1>3, <1>4, <1>5, KeyFacts DEF MultisigInputs
  <1>7. IsFiniteSet(Joined(new).receiving) /\ IsFiniteSet(Joined(new).change)
    <2>1. IsFiniteSet(inputs.receiving) /\ IsFiniteSet(inputs.change)
      BY DEF PairsInv
    <2>2. IsFiniteSet(inputs.receiving \cup {k})
      BY <2>1, FS_AddElement
    <2>3. IsFiniteSet(inputs.change \cup {ChangeOf(k)})
      BY <2>1, FS_AddElement
    <2> QED BY <1>2, <2>2, <2>3
  <1>8. Joined(new).change = {ChangeOf(q) : q \in Joined(new).receiving}
    BY <1>2 DEF PairsInv
  <1> QED BY <1>6, <1>7, <1>8

\* A merge that is accepted counts one more key in both sets.
LEMMA MergeCounts ==
    ASSUME inputs \in MultisigInputs, PairsInv, NEW new, OneCosigner(new), Merges(new),
           taken \in Nat, Cardinality(inputs.receiving) = taken,
           Cardinality(inputs.change) = taken, Len(inputs.signers) <= taken
    PROVE  /\ Cardinality(Joined(new).receiving) = taken + 1
           /\ Cardinality(Joined(new).change) = taken + 1
           /\ Len(Joined(new).signers) <= taken + 1
  <1>1. PICK k \in DescriptorPublicKey, s \in Seq(Cosigner) : OneKey(new, k, s)
    BY DEF OneCosigner
  <1>2. /\ Joined(new).receiving = inputs.receiving \cup {k}
        /\ Joined(new).change = inputs.change \cup {ChangeOf(k)}
        /\ Joined(new).signers = inputs.signers \o s
    BY <1>1 DEF OneKey, Joined
  <1>3. /\ Cardinality({k} \ inputs.receiving) = 1
        /\ Cardinality({ChangeOf(k)} \ inputs.change) = 1
    BY <1>1 DEF OneKey, Merges, Added
  <1>4. /\ Cardinality(Joined(new).receiving) = taken + 1
        /\ Cardinality(Joined(new).change) = taken + 1
    <2>1. IsFiniteSet(inputs.receiving) /\ IsFiniteSet(inputs.change)
      BY DEF PairsInv
    <2>2. Cardinality(inputs.receiving \cup {k}) = Cardinality(inputs.receiving) + 1
      BY <1>3, <2>1, OneMore
    <2>3. Cardinality(inputs.change \cup {ChangeOf(k)}) = Cardinality(inputs.change) + 1
      BY <1>3, <2>1, OneMore
    <2> QED BY <1>2, <2>2, <2>3
  <1>5. Len(s) \in Nat /\ Len(s) <= 1
    <2>1. s = <<>> \/ \E c \in Cosigner : s = <<c>>
      BY <1>1 DEF OneKey
    <2>2. CASE s = <<>>
      BY <2>2
    <2>3. CASE \E c \in Cosigner : s = <<c>>
      <3>1. PICK c \in Cosigner : s = <<c>>
        BY <2>3
      <3> QED BY <3>1
    <2> QED BY <2>1, <2>2, <2>3
  <1>6. Len(inputs.signers \o s) = Len(inputs.signers) + Len(s)
    BY DEF MultisigInputs
  <1>7. Len(inputs.signers) \in Nat
    BY DEF MultisigInputs
  <1>8. Len(Joined(new).signers) <= taken + 1
    BY <1>2, <1>5, <1>6, <1>7
  <1> QED BY <1>4, <1>8

\* Whoever joins as a signer brings his keys with him.
LEMMA SignersStayAmong ==
    ASSUME inputs \in MultisigInputs, NEW new, OneCosigner(new), SignersAmong,
           NEW n \in 1..Len(Joined(new).signers)
    PROVE  /\ Receiving(Joined(new).signers[n]) \in Joined(new).receiving
           /\ Change(Joined(new).signers[n]) \in Joined(new).change
  <1>1. PICK k \in DescriptorPublicKey, s \in Seq(Cosigner) : OneKey(new, k, s)
    BY DEF OneCosigner
  <1>2. /\ Joined(new).receiving = inputs.receiving \cup {k}
        /\ Joined(new).change = inputs.change \cup {ChangeOf(k)}
        /\ Joined(new).signers = inputs.signers \o s
    BY <1>1 DEF OneKey, Joined
  <1>3. inputs.signers \in Seq(Cosigner)
    BY DEF MultisigInputs
  <1>4. CASE n \in 1..Len(inputs.signers)
    <2>1. Joined(new).signers[n] = inputs.signers[n]
      BY <1>2, <1>3, <1>4
    <2> QED BY <1>2, <1>4, <2>1 DEF SignersAmong
  <1>5. CASE n \notin 1..Len(inputs.signers)
    <2>1. Len(s) # 0
      BY <1>2, <1>3, <1>5
    <2>2. PICK c \in Cosigner : s = <<c>> /\ k = Receiving(c)
      BY <1>1, <2>1 DEF OneKey
    <2>3. n = Len(inputs.signers) + 1
      BY <1>2, <1>3, <1>5, <2>2
    <2>4. Joined(new).signers[n] = c
      BY <1>2, <1>3, <2>2, <2>3
    <2> QED BY <1>2, <2>2, <2>4, KeyFacts
  <1> QED BY <1>4, <1>5
-----------------------------------------------------------------------------
(* The steps. *)

\* What a configuration is.
LEMMA ConfFacts ==
    ASSUME conf \in Configurations
    PROVE  /\ conf \in MultisigType
           /\ conf.required \in Nat /\ conf.total \in Nat
           /\ conf.required > 0 /\ conf.required <= conf.total
  BY FilesAssumption DEF MultisigType

\* A session starts without inputs.
LEMMA NoInputsFacts ==
    /\ NoInputs \in MultisigInputs
    /\ NoInputs.receiving = {} /\ NoInputs.change = {} /\ NoInputs.signers = <<>>
    /\ IsFiniteSet({}) /\ Cardinality({}) = 0
  BY FS_EmptySet DEF NoInputs, MultisigInputs

\* The invariant holds when a session starts.
LEMMA InitInv == Init => IInv
  <1>1. SUFFICES ASSUME Init
                 PROVE  IInv
    OBVIOUS
  <1>2. TypeOK
    BY <1>1, ConfFacts, NoInputsFacts, FilesAssumption
       DEF Init, TypeOK, Collecting
  <1>3. PairsInv
    BY <1>1, NoInputsFacts DEF Init, PairsInv
  <1>4. PhaseInv
    BY <1>1, FilesAssumption DEF Init, PhaseInv, Reading, WithWallet, OpeningSigners
  <1>5. CleanInv
    <2>1. Len(inputs.signers) = 0
      BY <1>1, NoInputsFacts DEF Init
    <2> QED BY <1>1, <2>1, NoInputsFacts DEF Init, CleanInv, SignersAmong
  <1> QED BY <1>1, <1>2, <1>3, <1>4, <1>5
          DEF Init, IInv, ReceiveAndChangeMatch, SignersFit, NeverPanics

\* Taking a file keeps the invariant, merged or refused.
LEMMA TakeInv ==
    ASSUME IInv, NEW new, OneCosigner(new), pc \in Reading, Take(new),
           UNCHANGED <<asker, conf, wanted, wallet>>, file' \in Files \cup {None}
    PROVE  IInv'
  <1> USE DEF IInv
  <1>1. /\ conf.required \in Nat /\ conf.total \in Nat /\ taken \in Nat
        /\ refused \in Nat /\ refused < MaxRefused /\ MaxRefused \in Nat
        /\ asker \in {"prompt", "args"}
        /\ conf \in Configurations
    BY ConfFacts, FilesAssumption DEF TypeOK, PhaseInv
  <1>2. /\ inputs' = Joined(new)
        /\ Joined(new) \in MultisigInputs
        /\ IsFiniteSet(Joined(new).receiving)
        /\ IsFiniteSet(Joined(new).change)
        /\ Joined(new).change = {ChangeOf(k) : k \in Joined(new).receiving}
    BY JoinedFacts DEF Take, TypeOK
  <1>3. CASE asker = "args" \/ Merges(new)
    <2>1. /\ taken' = taken + 1 /\ refused' = refused
          /\ pc' = IF asker = "prompt" /\ taken + 1 = conf.total
                   THEN "collected" ELSE "select"
      BY <1>3 DEF Take, AllTaken
    <2>2. asker = "prompt" => taken < conf.total
      BY DEF TypeOK, Reading, Collecting
    <2>3. asker' = "prompt" /\ pc' \in Collecting => taken' < conf'.total
      BY <1>1, <2>1, <2>2 DEF Collecting
    <2>4. TypeOK'
      BY <1>1, <1>2, <2>1, <2>3 DEF TypeOK, Collecting
    <2>5. PairsInv'
      BY <1>2 DEF PairsInv
    <2>6. PhaseInv'
      BY <1>1, <2>1 DEF PhaseInv, Reading, WithWallet, OpeningSigners
    <2>7. CleanInv'
      <3>1. SUFFICES ASSUME Clean'
                     PROVE  /\ Cardinality(inputs'.receiving) = taken'
                            /\ Cardinality(inputs'.change) = taken'
                            /\ Len(inputs'.signers) <= taken'
                            /\ SignersAmong'
                            /\ pc' = "collected" => taken' = conf'.total
        BY DEF CleanInv
      <3>2. asker = "prompt" /\ Merges(new) /\ Clean
        BY <1>3, <2>1, <3>1 DEF Clean, Reading, Collecting
      <3>3. /\ Cardinality(inputs.receiving) = taken
            /\ Cardinality(inputs.change) = taken
            /\ Len(inputs.signers) <= taken
            /\ SignersAmong
        BY <3>2 DEF CleanInv
      <3>4. inputs \in MultisigInputs
        BY DEF TypeOK
      <3>5. /\ Cardinality(Joined(new).receiving) = taken + 1
            /\ Cardinality(Joined(new).change) = taken + 1
            /\ Len(Joined(new).signers) <= taken + 1
        BY <1>1, <3>2, <3>3, <3>4, MergeCounts
      <3>6. \A n \in 1..Len(Joined(new).signers) :
               /\ Receiving(Joined(new).signers[n]) \in Joined(new).receiving
               /\ Change(Joined(new).signers[n]) \in Joined(new).change
        BY <3>3, <3>4, SignersStayAmong
      <3>7. SignersAmong'
        BY <1>2, <3>6 DEF SignersAmong
      <3> QED BY <1>2, <2>1, <3>5, <3>7
    <2> QED BY <2>1, <2>4, <2>5, <2>6, <2>7
            DEF ReceiveAndChangeMatch, SignersFit, NeverPanics
  <1>4. CASE ~(asker = "args" \/ Merges(new))
    <2>1. pc' = "askRetry" /\ refused' = refused + 1 /\ taken' = taken
      BY <1>4 DEF Take
    <2>2. asker = "prompt" => taken < conf.total
      BY DEF TypeOK, Reading, Collecting
    <2>3. TypeOK'
      BY <1>1, <1>2, <2>1, <2>2 DEF TypeOK, Collecting
    <2>4. PairsInv'
      BY <1>2 DEF PairsInv
    <2>5. PhaseInv'
      BY <2>1 DEF PhaseInv, Reading, WithWallet, OpeningSigners
    <2>6. CleanInv'
      BY <1>1, <2>1 DEF CleanInv, Clean
    <2> QED BY <2>1, <2>3, <2>4, <2>5, <2>6
            DEF ReceiveAndChangeMatch, SignersFit, NeverPanics
  <1> QED BY <1>3, <1>4

\* A file that is refused leaves a session where the user may try again.
LEMMA RefuseInv ==
    ASSUME IInv, pc \in Reading, Refuse,
           UNCHANGED <<asker, conf, wanted, wallet>>, file' \in Files \cup {None}
    PROVE  IInv'
  <1> USE DEF IInv
  <1>1. /\ pc' = IF asker = "args" THEN "failed" ELSE "askRetry"
        /\ UNCHANGED <<inputs, taken, refused>>
    BY DEF Refuse
  <1>2. TypeOK'
    BY <1>1 DEF TypeOK, Collecting, Reading
  <1>3. PairsInv'
    BY <1>1 DEF PairsInv
  <1>4. PhaseInv'
    BY <1>1 DEF PhaseInv, Reading, WithWallet, OpeningSigners
  <1>5. CleanInv'
    <2>1. Clean' => Clean /\ pc' # "collected"
      BY <1>1 DEF Clean, Reading, Collecting
    <2> QED BY <1>1, <2>1 DEF CleanInv, SignersAmong
  <1> QED BY <1>1, <1>2, <1>3, <1>4, <1>5
          DEF ReceiveAndChangeMatch, SignersFit, NeverPanics

\* Selecting a file, of any kind.
LEMMA SelectFileInv ==
    ASSUME IInv, NEW f \in Files, SelectFile(f)
    PROVE  IInv'
  <1>1. /\ pc = "select" /\ pc \in Reading
        /\ UNCHANGED <<asker, conf, wanted, wallet>>
    BY DEF SelectFile, Reading
  <1>2. f \in File /\ file \in Files \cup {None}
    BY FilesAssumption DEF IInv, TypeOK
  <1>3. CASE Take(PlainInputs(f)) /\ UNCHANGED file
    BY <1>1, <1>2, <1>3, FilesBringOne, TakeInv
  <1>4. CASE file' = f /\ pc' = "decrypt" /\ UNCHANGED <<inputs, taken, refused>>
    <2>1. TypeOK'
      BY <1>1, <1>4 DEF IInv, TypeOK, Collecting
    <2>2. PairsInv'
      BY <1>4 DEF IInv, PairsInv
    <2>3. PhaseInv'
      BY <1>1, <1>4 DEF IInv, PhaseInv, Reading, WithWallet, OpeningSigners
    <2>4. CleanInv'
      <3>1. Clean' => Clean /\ pc' # "collected"
        BY <1>1, <1>4 DEF Clean, Reading, Collecting
      <3> QED BY <1>1, <1>4, <3>1 DEF IInv, CleanInv, SignersAmong
    <2> QED BY <1>1, <1>4, <2>1, <2>2, <2>3, <2>4
            DEF IInv, ReceiveAndChangeMatch, SignersFit, NeverPanics
  <1>5. CASE Refuse /\ UNCHANGED file
    BY <1>1, <1>2, <1>5, RefuseInv
  <1> QED BY <1>3, <1>4, <1>5 DEF SelectFile

\* Opening an encrypted wallet for a cosigner, or giving it up.
LEMMA DecryptInv ==
    ASSUME IInv, Decrypt
    PROVE  IInv'
  <1>1. /\ pc = "decrypt" /\ pc \in Reading
        /\ file' = None /\ file' \in Files \cup {None}
        /\ UNCHANGED <<asker, conf, wanted, wallet>>
    BY DEF Decrypt, Reading
  <1>2. file \in File
    BY <1>1, FilesAssumption DEF IInv, PhaseInv
  <1>3. CASE Refuse
    BY <1>1, <1>3, RefuseInv
  <1>4. CASE \E c \in Identities(file) : Take(SignerInputs(c))
    <2>1. PICK c \in Identities(file) : Take(SignerInputs(c))
      BY <1>4
    <2>2. OneCosigner(SignerInputs(c))
      BY <1>2, FilesBringOne
    <2> QED BY <1>1, <2>1, <2>2, TakeInv
  <1> QED BY <1>3, <1>4 DEF Decrypt

\* After a refusal the user is asked again or gives up.
LEMMA AskRetryInv ==
    ASSUME IInv, AskRetry
    PROVE  IInv'
  <1>1. /\ pc = "askRetry" /\ pc' \in {"select", "failed"}
        /\ pc' = "select" => refused < MaxRefused
        /\ UNCHANGED <<asker, conf, inputs, file, taken, refused, wanted, wallet>>
    BY DEF AskRetry
  <1>2. TypeOK'
    BY <1>1 DEF IInv, TypeOK, Collecting
  <1>3. PairsInv'
    BY <1>1 DEF IInv, PairsInv
  <1>4. PhaseInv'
    BY <1>1 DEF IInv, PhaseInv, Reading, WithWallet, OpeningSigners
  <1>5. CleanInv'
    <2>1. Clean' => Clean /\ pc' # "collected"
      BY <1>1 DEF Clean, Collecting
    <2> QED BY <1>1, <2>1 DEF IInv, CleanInv, SignersAmong
  <1> QED BY <1>1, <1>2, <1>3, <1>4, <1>5
          DEF IInv, ReceiveAndChangeMatch, SignersFit, NeverPanics

\* The files given as arguments are used up.
LEMMA NoMoreFilesInv ==
    ASSUME IInv, NoMoreFiles
    PROVE  IInv'
  <1>1. /\ pc = "select" /\ asker = "args" /\ pc' = "collected"
        /\ UNCHANGED <<asker, conf, inputs, file, taken, refused, wanted, wallet>>
    BY DEF NoMoreFiles
  <1>2. TypeOK'
    BY <1>1 DEF IInv, TypeOK, Collecting
  <1>3. PairsInv'
    BY <1>1 DEF IInv, PairsInv
  <1>4. PhaseInv'
    BY <1>1 DEF IInv, PhaseInv, Reading, WithWallet, OpeningSigners
  <1>5. CleanInv'
    BY <1>1 DEF CleanInv, Clean
  <1> QED BY <1>1, <1>2, <1>3, <1>4, <1>5
          DEF IInv, ReceiveAndChangeMatch, SignersFit, NeverPanics

\* What is generated passed validate, and is made of what was collected.
LEMMA GeneratedInv ==
    ASSUME IInv, pc = "collected", NEW ok \in BOOLEAN, ok => Validates(inputs, conf),
           Generated(ok)
    PROVE  IInv'
  <1>1. /\ inputs' = NoInputs
        /\ UNCHANGED <<asker, conf, file, taken, refused, wanted>>
        /\ \/ ok /\ wallet' = Described /\ pc' = "generated"
           \/ pc' = "failed" /\ wallet' = wallet
    BY DEF Generated
  <1>2. conf \in MultisigType /\ inputs \in MultisigInputs
    BY ConfFacts DEF IInv, TypeOK
  <1>3. /\ Described \in Wallet
        /\ Described.conf = conf
        /\ Described.receiving = inputs.receiving
        /\ Described.change = inputs.change
    BY <1>2 DEF Described, Wallet, MultisigInputs
  <1>4. TypeOK'
    BY <1>1, <1>3, NoInputsFacts DEF IInv, TypeOK, Collecting
  <1>5. PairsInv'
    BY <1>1, NoInputsFacts DEF PairsInv
  <1>6. PhaseInv'
    <2>1. Described.change = {ChangeOf(k) : k \in Described.receiving}
      BY <1>3 DEF IInv, PairsInv
    <2> QED BY <1>1, <1>3, <2>1 DEF PhaseInv, Reading, WithWallet, OpeningSigners
  <1>7. CleanInv'
    BY <1>1 DEF CleanInv, Clean, Collecting
  <1>8. ReceiveAndChangeMatch'
    <2>1. CASE ok /\ wallet' = Described
      BY <2>1, <1>3 DEF IInv, PairsInv, Validates, ReceiveAndChangeMatch
    <2>2. CASE wallet' = wallet
      BY <2>2 DEF IInv, ReceiveAndChangeMatch
    <2> QED BY <1>1, <2>1, <2>2
  <1> QED BY <1>1, <1>4, <1>5, <1>6, <1>7, <1>8 DEF IInv, SignersFit, NeverPanics

\* The collected inputs make a wallet, or do not.
LEMMA GenerateInv ==
    ASSUME IInv, GenerateStandard \/ GenerateCompact
    PROVE  IInv'
  <1>1. pc = "collected"
    BY DEF GenerateStandard, GenerateCompact
  <1>2. CASE GenerateStandard
    <2> DEFINE ok == /\ Validates(inputs, conf)
                     /\ Scriptable(Described)
                     /\ validate_descriptors(inputs.signers, Described)
    <2>1. Generated(ok) /\ ok \in BOOLEAN /\ (ok => Validates(inputs, conf))
      BY <1>2 DEF GenerateStandard
    <2> QED BY <1>1, <2>1, GeneratedInv
  <1>3. CASE GenerateCompact
    <2> DEFINE ok == Validates(inputs, conf) /\ Scriptable(Described)
    <2>1. Generated(ok)
      BY <1>3 DEF GenerateCompact, Validates
    <2>2. ok \in BOOLEAN /\ (ok => Validates(inputs, conf))
      OBVIOUS
    <2> QED BY <1>1, <2>1, <2>2, GeneratedInv
  <1> QED BY <1>2, <1>3

\* Asking for signers starts with none.
LEMMA StartOpeningInv ==
    ASSUME IInv, NEW a \in {"prompt", "args"}, NEW n \in 0..MaxCollected, StartOpening(a, n)
    PROVE  IInv'
  <1>1. /\ pc = "generated" /\ pc' \in {"signers", "selectSigner"}
        /\ asker' = a /\ wanted' = n
        /\ UNCHANGED <<conf, inputs, file, taken, refused, wallet>>
    BY DEF StartOpening
  <1>2. n \in Nat
    BY FilesAssumption
  <1>3. TypeOK'
    BY <1>1, <1>2 DEF IInv, TypeOK, Collecting, OpeningSigners
  <1>4. PairsInv'
    BY <1>1 DEF IInv, PairsInv
  <1>5. PhaseInv'
    BY <1>1 DEF IInv, PhaseInv, Reading, WithWallet, OpeningSigners
  <1>6. CleanInv'
    BY <1>1 DEF CleanInv, Clean, Collecting
  <1> QED BY <1>1, <1>3, <1>4, <1>5, <1>6
          DEF IInv, ReceiveAndChangeMatch, SignersFit, NeverPanics

\* The user picks a file for a signer, or none.
LEMMA SelectSignerInv ==
    ASSUME IInv, NEW f \in Files, SelectSigner(f)
    PROVE  IInv'
  <1>1. /\ pc = "selectSigner" /\ file' = f
        /\ pc' \in {"decryptSigner", "failed"}
        /\ UNCHANGED <<asker, conf, inputs, taken, refused, wanted, wallet>>
    BY DEF SelectSigner
  <1>2. TypeOK'
    BY <1>1 DEF IInv, TypeOK, Collecting, OpeningSigners
  <1>3. PairsInv'
    BY <1>1 DEF IInv, PairsInv
  <1>4. PhaseInv'
    BY <1>1 DEF IInv, PhaseInv, Reading, WithWallet, OpeningSigners
  <1>5. CleanInv'
    BY <1>1 DEF CleanInv, Clean, Collecting
  <1> QED BY <1>1, <1>2, <1>3, <1>4, <1>5
          DEF IInv, ReceiveAndChangeMatch, SignersFit, NeverPanics

\* A signer joins, or the file is given up.
LEMMA DecryptSignerInv ==
    ASSUME IInv, DecryptSigner
    PROVE  IInv'
  <1>1. /\ pc = "decryptSigner" /\ file' = None
        /\ pc' \in {"signers", "selectSigner", "failed"}
        /\ UNCHANGED <<asker, conf, taken, refused, wanted, wallet>>
    BY DEF DecryptSigner
  <1>2. file \in File
    BY <1>1, FilesAssumption DEF IInv, PhaseInv
  <1>3. inputs' = inputs \/ \E c \in Identities(file) : inputs' = Joined(SignerInputs(c))
    BY DEF DecryptSigner
  <1>4. /\ inputs' \in MultisigInputs
        /\ PairsInv'
    <2>1. CASE inputs' = inputs
      BY <2>1 DEF IInv, TypeOK, PairsInv
    <2>2. CASE \E c \in Identities(file) : inputs' = Joined(SignerInputs(c))
      <3>1. PICK c \in Identities(file) : inputs' = Joined(SignerInputs(c))
        BY <2>2
      <3>2. OneCosigner(SignerInputs(c))
        BY <1>2, FilesBringOne
      <3>3. inputs \in MultisigInputs /\ PairsInv
        BY DEF IInv, TypeOK
      <3>4. /\ Joined(SignerInputs(c)) \in MultisigInputs
            /\ IsFiniteSet(Joined(SignerInputs(c)).receiving)
            /\ IsFiniteSet(Joined(SignerInputs(c)).change)
            /\ Joined(SignerInputs(c)).change
                 = {ChangeOf(k) : k \in Joined(SignerInputs(c)).receiving}
        BY <3>2, <3>3, JoinedFacts
      <3> QED BY <3>1, <3>4 DEF PairsInv
    <2> QED BY <1>3, <2>1, <2>2
  <1>5. TypeOK'
    BY <1>1, <1>4 DEF IInv, TypeOK, Collecting, OpeningSigners
  <1>6. PhaseInv'
    BY <1>1 DEF IInv, PhaseInv, Reading, WithWallet, OpeningSigners
  <1>7. CleanInv'
    BY <1>1 DEF CleanInv, Clean, Collecting
  <1> QED BY <1>1, <1>4, <1>5, <1>6, <1>7
          DEF IInv, ReceiveAndChangeMatch, SignersFit, NeverPanics

\* A receiving key is no change key, so one found in either set is a receiving
\* key of the wallet, and its change key goes with it.
LEMMA CheckSignersInv ==
    ASSUME IInv, CheckSigners
    PROVE  IInv'
  <1>1. /\ pc = "signers" /\ pc' \in {"opened", "failed"}
        /\ pc' = "opened" => validate_descriptors(inputs.signers, wallet)
        /\ UNCHANGED <<asker, conf, inputs, file, taken, refused, wanted, wallet>>
    BY DEF CheckSigners
  <1>2. TypeOK'
    BY <1>1 DEF IInv, TypeOK, Collecting, OpeningSigners
  <1>3. PairsInv'
    BY <1>1 DEF IInv, PairsInv
  <1>4. PhaseInv'
    BY <1>1 DEF IInv, PhaseInv, Reading, WithWallet, OpeningSigners
  <1>5. CleanInv'
    BY <1>1 DEF CleanInv, Clean, Collecting
  <1>6. ASSUME pc' = "opened", NEW n \in 1..Len(inputs.signers)
        PROVE  /\ Receiving(inputs.signers[n]) \in wallet.receiving
               /\ Change(inputs.signers[n]) \in wallet.change
    <2> DEFINE c == inputs.signers[n]
    <2>1. inputs.signers \in Seq(Cosigner)
      BY DEF IInv, TypeOK, MultisigInputs
    <2>2. c \in Cosigner
      BY <2>1
    <2>3. Receiving(c) \in wallet.receiving \cup wallet.change
      BY <1>1, <1>6 DEF validate_descriptors
    <2>4. /\ wallet.receiving \subseteq DescriptorPublicKey
          /\ wallet.change = {ChangeOf(k) : k \in wallet.receiving}
      BY <1>1 DEF IInv, PhaseInv, WithWallet, Wallet
    <2>5. Receiving(c).chain = "0"
      BY DEF Receiving
    <2>6. Receiving(c) \notin wallet.change
      BY <2>4, <2>5, KeyFacts
    <2>7. Receiving(c) \in wallet.receiving
      BY <2>3, <2>6
    <2> HIDE DEF c
    <2>8. Change(c) \in wallet.change
      BY <2>2, <2>4, <2>7, KeyFacts
    <2> QED BY <2>7, <2>8 DEF c
  <1>7. SignersFit'
    BY <1>1, <1>6 DEF SignersFit
  <1> QED BY <1>1, <1>2, <1>3, <1>4, <1>5, <1>7
          DEF IInv, ReceiveAndChangeMatch, NeverPanics

\* Every step keeps the invariant.
LEMMA StepInv == IInv /\ [Next]_vars => IInv'
  <1>1. SUFFICES ASSUME IInv, [Next]_vars
                 PROVE  IInv'
    OBVIOUS
  <1>2. CASE UNCHANGED vars
    BY <1>1, <1>2
       DEF vars, IInv, TypeOK, PairsInv, PhaseInv, CleanInv, Clean, SignersAmong,
           ReceiveAndChangeMatch, SignersFit, NeverPanics
  <1>3. CASE \E f \in Files : SelectFile(f) \/ SelectSigner(f)
    BY <1>1, <1>3, SelectFileInv, SelectSignerInv
  <1>4. CASE Decrypt \/ AskRetry \/ NoMoreFiles
    BY <1>1, <1>4, DecryptInv, AskRetryInv, NoMoreFilesInv
  <1>5. CASE GenerateStandard \/ GenerateCompact
    BY <1>1, <1>5, GenerateInv
  <1>6. CASE \E a \in {"prompt", "args"}, n \in 0..MaxCollected : StartOpening(a, n)
    BY <1>1, <1>6, StartOpeningInv
  <1>7. CASE DecryptSigner \/ CheckSigners
    BY <1>1, <1>7, DecryptSignerInv, CheckSignersInv
  <1> QED BY <1>1, <1>2, <1>3, <1>4, <1>5, <1>6, <1>7 DEF Next

\* The inductive invariant always holds.
LEMMA AlwaysIInv == Spec => []IInv
  <1> QED BY InitInv, StepInv, PTL DEF Spec
-----------------------------------------------------------------------------
(* The theorems. *)

\* Every variable keeps its type, whatever files are picked and refused; a user
\* is never asked for more files than the wallet has keys.
THEOREM TypeCorrect == Spec => []TypeOK
  <1>1. IInv => TypeOK
    BY DEF IInv
  <1> QED BY <1>1, AlwaysIInv, PTL

\* The receiving and the change side of a wallet are made of the same N keys,
\* whatever mixture of files, duplicates and refusals it was collected from.
THEOREM SidesMatch == Spec => []ReceiveAndChangeMatch
  <1>1. IInv => ReceiveAndChangeMatch
    BY DEF IInv
  <1> QED BY <1>1, AlwaysIInv, PTL

\* The union of both sides is enough to look a signer's keys up in: an accepted
\* signer signs for the receiving and for the change side.
THEOREM AcceptedSignersFit == Spec => []SignersFit
  <1>1. IInv => SignersFit
    BY DEF IInv
  <1> QED BY <1>1, AlwaysIInv, PTL

\* The assertions of the compact encoding are never reached with other lengths.
THEOREM AssertionsHold == Spec => []NeverPanics
  <1>1. IInv => NeverPanics
    BY DEF IInv
  <1> QED BY <1>1, AlwaysIInv, PTL

\* A session without a refusal collects what either kind of wallet can be made
\* of, for any M and N and any files in any order.
THEOREM CleanSessionsSucceed == Spec => []CleanSessionGenerates
  <1>1. IInv => CleanSessionGenerates
    <2>1. SUFFICES ASSUME IInv, pc = "collected", asker = "prompt", refused = 0
                   PROVE  Generates
      BY DEF CleanSessionGenerates
    <2>2. Clean
      BY <2>1 DEF Clean
    <2>3. /\ Cardinality(inputs.receiving) = conf.total
          /\ Cardinality(inputs.change) = conf.total
          /\ Len(inputs.signers) <= conf.total
          /\ SignersAmong
      BY <2>1, <2>2 DEF IInv, CleanInv
    <2>4. conf.required <= conf.total
      BY <2>1, ConfFacts DEF IInv, TypeOK
    <2>5. /\ Described.conf = conf
          /\ Described.receiving = inputs.receiving
          /\ Described.change = inputs.change
      BY DEF Described
    <2>6. Validates(inputs, conf) /\ Scriptable(Described)
      BY <2>3, <2>4, <2>5 DEF Validates, Scriptable
    <2>7. validate_descriptors(inputs.signers, Described)
      BY <2>3, <2>5 DEF validate_descriptors, SignersAmong
    <2> QED BY <2>6, <2>7 DEF Generates
  <1> QED BY <1>1, AlwaysIInv, PTL
=============================================================================
