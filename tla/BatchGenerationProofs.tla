----------------------- MODULE BatchGenerationProofs ------------------------
(***************************************************************************)
(* What a batch guarantees for any number of wallets, any command lines,   *)
(* whatever the generator draws and any number of faults.                  *)
(***************************************************************************)
EXTENDS BatchGeneration, FiniteSetTheorems, TLAPS

USE DEF Wallets, PathOf, WalletPath

\* Until the wallets are encrypted nothing of them can be on disk.
Early == Drawing \cup {"start", "removeTest", "password", "derive"}

\* All keys are derived from their salts, none flipped.
KeysHold == \A i \in Wallets : encrypted[i].key = default_derive_key(encrypted[i].salt)

\* What each phase may rely on in memory.
MemoryInv ==
    /\ drawn \in [Drawing -> SUBSET (Nonce \cup Salt \cup Seed)]
    /\ pc \in Early => stage = "wallet" /\ at = 1
    /\ pc \in {"create", "write", "readBack", "confirm", "done"} => DOMAIN encrypted = Wallets
    /\ pc = "readBack" => stage = "wallet" /\ AllSaved(at)
    /\ pc = "confirm" => stage = "public" /\ at = 1
    /\ pc = "done" => (stage = "wallet" => AllSaved(at)) /\ KeysHold
    /\ stage # "wallet" =>
          /\ DOMAIN encrypted = Wallets
          /\ opened = [i \in Wallets |-> encrypted[i].seed]
          /\ KeysHold
    /\ stage = "public" /\ pc \in {"create", "write"} /\ req.enable_duress_wallet =>
          typed = req.seedPw
    /\ stage = "nonDuress" => req.enable_duress_wallet /\ typed = req.seedPw

\* Random values that go into one wallet do not go into another.
RandomInv ==
    \A i, j \in DOMAIN encrypted :
        /\ encrypted[i].nonce # encrypted[i].header_nonce
        /\ i # j => /\ encrypted[i].nonce # encrypted[j].nonce
                    /\ encrypted[i].nonce # encrypted[j].header_nonce
                    /\ encrypted[i].header_nonce # encrypted[j].header_nonce
                    /\ encrypted[i].salt # encrypted[j].salt
                    /\ encrypted[i].seed # encrypted[j].seed

\* The test file and the file that is being written are not complete.
PartialInv ==
    /\ pc = "removeTest" =>
          Exists(WalletPath(1)) /\ disk[WalletPath(1)].kind = "partial"
    /\ pc = "write" =>
          Exists(PathOf(stage, at)) /\ disk[PathOf(stage, at)].kind = "partial"
    /\ pc \in Early => \A f \in DOMAIN disk : disk[f].kind \in {"partial", "foreign"}

\* A file holds what was saved under its name, damage being undone.
Holds(f, c) == f \in DOMAIN disk /\ Intact(disk[f]) = c
Wallet(i) == [kind |-> "wallet", wallet |-> encrypted[i]]
Public(i, pw) == [kind |-> "public", seed |-> opened[i], seedPw |-> pw]

\* What was saved is there.
SavedInv ==
    \A i \in Wallets :
        /\ stage # "wallet" \/ i < at => Holds(WalletPath(i), Wallet(i))
        /\ stage = "nonDuress" \/ (stage = "public" /\ i < at) =>
              Holds(PathOf("public", i), Public(i, None))

\* What is there was saved.
IsSaved(f) ==
    /\ Intact(disk[f]).kind = "wallet" =>
          \E i \in DOMAIN encrypted : f = WalletPath(i) /\ Intact(disk[f]) = Wallet(i)
    /\ Intact(disk[f]).kind = "public" =>
          \E i \in Wallets :
             \/ stage # "wallet" /\ f = PathOf("public", i) /\ Intact(disk[f]) = Public(i, None)
             \/ /\ stage = "nonDuress" /\ f = PathOf("nonDuress", i)
                /\ Intact(disk[f]) = Public(i, typed)
FilesInv == \A f \in DOMAIN disk : IsSaved(f)

IInv == TypeOK /\ MemoryInv /\ RandomInv /\ PartialInv /\ SavedInv /\ FilesInv
-----------------------------------------------------------------------------
(* Types and names. *)

\* A file's content is of the kind it says.
LEMMA ContentFacts ==
    ASSUME NEW c \in Content
    PROVE  /\ c.kind \in {"partial", "foreign", "wallet", "public", "damaged"}
           /\ c.kind = "wallet" => c \in WalletFile
           /\ c.kind = "public" => c \in PublicFile
           /\ c.kind = "damaged" => c \in DamagedFile /\ c.was \in WalletFile \cup PublicFile
  BY DEF Content, WalletFile, PublicFile, DamagedFile

\* Damage is undone by Intact, which leaves everything else as it is.
LEMMA IntactFacts ==
    ASSUME NEW c \in Content
    PROVE  /\ c.kind \in {"partial", "foreign"} => Intact(c) = c
           /\ c.kind \in {"wallet", "public"} => Intact(c) = c
           /\ Intact([kind |-> "damaged", was |-> c]) = c
           /\ Intact(c).kind \in {"partial", "foreign", "wallet", "public"}
  BY ContentFacts DEF Intact, WalletFile, PublicFile

\* What the command line says has its type, and the batch's files have names.
LEMMA RequestFacts ==
    ASSUME req \in Requests
    PROVE  /\ req.wallets_quantity \in Nat
           /\ req.enable_duress_wallet \in BOOLEAN /\ req.disable_public_info_export \in BOOLEAN
           /\ req.seedPw \in SeedPw /\ req.seedPw # None
           /\ \A s \in Stage, i \in Wallets : Output(req, s, i) \in Names
           /\ Outputs(req) \subseteq Names
  <1>1. req \in Request
    BY BatchAssumption
  <1>2. Outputs(req) \subseteq Names
    BY DEF Names
  <1>3. \A s \in Stage, i \in Wallets : Output(req, s, i) \in Outputs(req)
    BY DEF Outputs
  <1> QED BY <1>1, <1>2, <1>3, BatchAssumption DEF Request
-----------------------------------------------------------------------------
(* What a step does to the files. *)

\* Nothing complete is lost or changed.
Keeps ==
    \A g \in DOMAIN disk : disk[g].kind # "partial" =>
        g \in DOMAIN disk' /\ Intact(disk'[g]) = Intact(disk[g])
\* No wallet and no export comes to be.
AddsNone ==
    \A g \in DOMAIN disk' : Intact(disk'[g]).kind \in {"wallet", "public"} =>
        g \in DOMAIN disk /\ Intact(disk[g]) = Intact(disk'[g])
TypedDisk == DOMAIN disk \subseteq Names /\ disk \in [DOMAIN disk -> Content]

\* Creating a file, also by another program.
LEMMA AddedFile ==
    ASSUME TypedDisk, NEW f \in Names, f \notin DOMAIN disk,
           NEW k \in {"partial", "foreign"}, disk' = Put(f, [kind |-> k])
    PROVE  /\ TypedDisk' /\ Keeps /\ AddsNone
           /\ f \in DOMAIN disk' /\ disk'[f].kind = k
           /\ \A g \in DOMAIN disk : g \in DOMAIN disk' /\ disk'[g] = disk[g]
           /\ \A g \in DOMAIN disk' : disk'[g].kind = k \/ (g \in DOMAIN disk /\ disk'[g] = disk[g])
  <1>1. /\ DOMAIN disk' = DOMAIN disk \cup {f}
        /\ disk'[f] = [kind |-> k]
        /\ \A g \in DOMAIN disk : disk'[g] = disk[g]
    BY DEF Put
  <1>2. [kind |-> k] \in Content
    BY DEF Content
  <1>3. Intact([kind |-> k]) = [kind |-> k]
    BY DEF Intact
  <1>4. disk' \in [DOMAIN disk' -> Content]
    BY <1>1, <1>2 DEF TypedDisk, Put
  <1>5. Keeps /\ AddsNone
    BY <1>1, <1>3 DEF Keeps, AddsNone
  <1> QED BY <1>1, <1>4, <1>5 DEF TypedDisk

\* Removing the test file.
LEMMA RemovedFile ==
    ASSUME TypedDisk, NEW f \in DOMAIN disk, disk[f].kind = "partial", disk' = Without(f)
    PROVE  /\ TypedDisk' /\ Keeps /\ AddsNone
           /\ \A g \in DOMAIN disk' : g \in DOMAIN disk /\ disk'[g] = disk[g]
  <1>1. /\ DOMAIN disk' = DOMAIN disk \ {f}
        /\ \A g \in DOMAIN disk' : disk'[g] = disk[g]
    BY DEF Without
  <1>2. disk' \in [DOMAIN disk' -> Content]
    BY <1>1 DEF TypedDisk, Without
  <1> QED BY <1>1, <1>2 DEF TypedDisk, Keeps, AddsNone

\* Damage, which Intact undoes.
LEMMA DamagedDisk ==
    ASSUME TypedDisk, NEW f, Damage(f)
    PROVE  /\ TypedDisk' /\ Keeps /\ AddsNone
           /\ \A g \in DOMAIN disk : disk[g].kind = "partial" =>
                 g \in DOMAIN disk' /\ disk'[g] = disk[g]
  <1>1. /\ f \in DOMAIN disk /\ disk[f].kind \in {"wallet", "public"}
        /\ DOMAIN disk' = DOMAIN disk
        /\ disk'[f] = [kind |-> "damaged", was |-> disk[f]]
        /\ \A g \in DOMAIN disk : g # f => disk'[g] = disk[g]
    BY DEF Damage, Exists, Put
  <1>2. disk[f] \in Content
    BY <1>1 DEF TypedDisk
  <1>3. disk[f] \in WalletFile \cup PublicFile
    BY <1>1, <1>2, ContentFacts
  <1>4. disk'[f] \in Content
    BY <1>1, <1>3 DEF Content, DamagedFile
  <1>5. Intact(disk'[f]) = Intact(disk[f])
    BY <1>1, <1>2, IntactFacts
  <1>6. disk' \in [DOMAIN disk' -> Content]
    BY <1>1, <1>4 DEF TypedDisk, Damage, Put
  <1>7. Keeps /\ AddsNone
    BY <1>1, <1>5 DEF Keeps, AddsNone
  <1> QED BY <1>1, <1>6, <1>7 DEF TypedDisk

\* A step that leaves the directory alone.
LEMMA SameDisk ==
    ASSUME TypedDisk, disk' = disk
    PROVE  TypedDisk' /\ Keeps /\ AddsNone
  BY DEF TypedDisk, Keeps, AddsNone

\* Completing the partial file under one of the batch's names.
LEMMA FilledFile ==
    ASSUME TypedDisk, NEW f \in DOMAIN disk, disk[f].kind = "partial",
           NEW c \in WalletFile \cup PublicFile, disk' = Put(f, c)
    PROVE  /\ TypedDisk' /\ Keeps
           /\ f \in DOMAIN disk' /\ disk'[f] = c /\ Intact(disk'[f]) = c
           /\ \A g \in DOMAIN disk' : g \in DOMAIN disk /\ (g # f => disk'[g] = disk[g])
  <1>1. /\ DOMAIN disk' = DOMAIN disk
        /\ disk'[f] = c
        /\ \A g \in DOMAIN disk : g # f => disk'[g] = disk[g]
    BY DEF Put
  <1>2. c \in Content /\ c.kind \in {"wallet", "public"}
    BY DEF Content, WalletFile, PublicFile
  <1>3. Intact(c) = c
    BY <1>2, IntactFacts
  <1>4. disk' \in [DOMAIN disk' -> Content]
    BY <1>1, <1>2 DEF TypedDisk, Put
  <1>5. Keeps
    BY <1>1 DEF Keeps
  <1> QED BY <1>1, <1>3, <1>4, <1>5 DEF TypedDisk

\* A complete file is not partial.
LEMMA HeldIsWhole ==
    ASSUME NEW f, NEW c, Holds(f, c), c.kind \in {"wallet", "public"}
    PROVE  disk[f].kind # "partial"
  BY DEF Holds, Intact

\* What was saved and what is there stays so, when the batch's memory does.
LEMMA FilesStay ==
    ASSUME Keeps, AddsNone, SavedInv, FilesInv,
           UNCHANGED <<req, stage, at, typed, encrypted, opened>>
    PROVE  SavedInv' /\ FilesInv'
  <1>1. ASSUME NEW f, NEW c, Holds(f, c), c.kind \in {"wallet", "public"}
        PROVE  f \in DOMAIN disk' /\ Intact(disk'[f]) = c
    <2>1. disk[f].kind # "partial" /\ f \in DOMAIN disk /\ Intact(disk[f]) = c
      BY <1>1, HeldIsWhole DEF Holds
    <2> QED BY <2>1 DEF Keeps
  <1>2. SavedInv'
    BY <1>1 DEF SavedInv, Holds, Wallet, Public
  <1>3. FilesInv'
    <2>1. SUFFICES ASSUME NEW f \in DOMAIN disk' PROVE IsSaved(f)'
      BY DEF FilesInv
    <2>2. CASE Intact(disk'[f]).kind \in {"wallet", "public"}
      <3>1. f \in DOMAIN disk /\ Intact(disk[f]) = Intact(disk'[f])
        BY <2>2 DEF AddsNone
      <3>2. IsSaved(f)
        BY <3>1 DEF FilesInv
      <3> QED BY <3>1, <3>2 DEF IsSaved, Wallet, Public
    <2>3. CASE Intact(disk'[f]).kind \notin {"wallet", "public"}
      BY <2>3 DEF IsSaved
    <2> QED BY <2>2, <2>3
  <1> QED BY <1>2, <1>3
-----------------------------------------------------------------------------
(* The steps. *)

\* The types of what is not on disk.
TypedMemory ==
    /\ req \in Requests
    /\ pc \in Ended \cup Drawing \cup
              {"start", "removeTest", "password", "derive", "create", "write",
               "readBack", "confirm"}
    /\ stage \in Stage
    /\ at \in 1..(req.wallets_quantity + 1)
    /\ pc = "write" => at \in Wallets
    /\ typed \in SeedPw \cup {None}
    /\ \A k \in Drawing : drawn[k] \subseteq Random[k]
    /\ encrypted \in [DOMAIN encrypted -> Encrypted]
    /\ opened \in [DOMAIN opened -> Seed]
    /\ faults \in 0..MaxFaults

\* The type invariant in two halves.
LEMMA TypesOfBoth == TypeOK <=> TypedDisk /\ TypedMemory
  BY DEF TypeOK, TypedDisk, TypedMemory

\* The invariant holds when the batch starts.
LEMMA InitInv == Init => IInv
  <1>1. SUFFICES ASSUME Init PROVE IInv
    OBVIOUS
  <1>2. req \in Requests /\ req.wallets_quantity \in Nat
    BY <1>1, RequestFacts DEF Init
  <1>3. DOMAIN disk = {} /\ DOMAIN encrypted = {} /\ DOMAIN opened = {}
    BY <1>1 DEF Init
  <1>4. TypeOK
    <2>1. disk \in [DOMAIN disk -> Content]
      BY <1>1, <1>3 DEF Init
    <2>2. encrypted \in [DOMAIN encrypted -> Encrypted] /\ opened \in [DOMAIN opened -> Seed]
      BY <1>1, <1>3 DEF Init
    <2> QED BY <1>1, <1>2, <1>3, <2>1, <2>2, BatchAssumption DEF Init, TypeOK, Stage
  <1>5. MemoryInv
    BY <1>1 DEF Init, MemoryInv, Early, Drawing
  <1>6. RandomInv /\ FilesInv
    BY <1>3 DEF RandomInv, FilesInv
  <1>7. PartialInv
    BY <1>1, <1>3 DEF Init, PartialInv
  <1>8. SavedInv
    BY <1>1, <1>2 DEF Init, SavedInv
  <1> QED BY <1>4, <1>5, <1>6, <1>7, <1>8 DEF IInv

\* A step that keeps the memory and adds no wallet and no export only has to
\* keep what its next phase relies on.
LEMMA QuietStep ==
    ASSUME IInv, TypedDisk', TypedMemory', Keeps, AddsNone, MemoryInv', PartialInv',
           UNCHANGED <<req, stage, at, typed, encrypted, opened>>
    PROVE  IInv'
  <1>1. SavedInv' /\ FilesInv'
    BY FilesStay DEF IInv
  <1>2. RandomInv'
    BY DEF IInv, RandomInv
  <1>3. TypeOK'
    BY DEF TypeOK, TypedDisk, TypedMemory
  <1> QED BY <1>1, <1>2, <1>3 DEF IInv

\* The checks of the arguments, and the test file.
LEMMA StartInv == ASSUME IInv, Start PROVE IInv'
  <1> USE DEF IInv
  <1>1. /\ pc = "start" /\ TypedDisk /\ TypedMemory /\ req \in Requests
        /\ UNCHANGED <<req, stage, at, typed, drawn, encrypted, opened, faults>>
        /\ pc' \in {"failed", "password", "removeTest"}
    BY TypesOfBoth DEF Start, memory, TypedMemory
  <1>2. TypedMemory'
    BY <1>1 DEF TypedMemory, Ended
  <1>3. MemoryInv'
    BY <1>1 DEF MemoryInv, Early, Drawing, KeysHold
  <1>4. CASE disk' = disk /\ pc' # "removeTest"
    <2>1. PartialInv'
      BY <1>1, <1>4 DEF PartialInv, Early
    <2> QED BY <1>1, <1>2, <1>3, <1>4, <2>1, SameDisk, QuietStep
  <1>5. CASE /\ Wallets # {} /\ ~Exists(WalletPath(1))
             /\ disk' = Put(WalletPath(1), [kind |-> "partial"])
    <2>1. 1 \in Wallets /\ "wallet" \in Stage
      BY <1>1, <1>5, RequestFacts DEF Stage
    <2>2. WalletPath(1) \in Names /\ WalletPath(1) \notin DOMAIN disk
      BY <1>1, <1>5, <2>1, RequestFacts DEF Exists
    <2>3. /\ TypedDisk' /\ Keeps /\ AddsNone
          /\ WalletPath(1) \in DOMAIN disk' /\ disk'[WalletPath(1)].kind = "partial"
          /\ \A g \in DOMAIN disk' :
                disk'[g].kind = "partial" \/ (g \in DOMAIN disk /\ disk'[g] = disk[g])
      BY <1>1, <1>5, <2>2, AddedFile
    <2>4. \A f \in DOMAIN disk : disk[f].kind \in {"partial", "foreign"}
      BY <1>1 DEF PartialInv, Early
    <2>5. PartialInv'
      BY <1>1, <2>3, <2>4 DEF PartialInv, Exists
    <2> QED BY <1>1, <1>2, <1>3, <2>3, <2>5, QuietStep
  <1> QED BY <1>4, <1>5 DEF Start

\* The test file is removed.
LEMMA RemoveTestInv == ASSUME IInv, RemoveTest PROVE IInv'
  <1> USE DEF IInv
  <1>1. /\ pc = "removeTest" /\ pc' = "password" /\ TypedDisk /\ TypedMemory
        /\ UNCHANGED <<req, stage, at, typed, drawn, encrypted, opened, faults>>
        /\ disk' = Without(WalletPath(1))
    BY TypesOfBoth DEF RemoveTest, memory
  <1>2. TypedMemory'
    BY <1>1 DEF TypedMemory
  <1>3. MemoryInv'
    BY <1>1 DEF MemoryInv, Early, Drawing, KeysHold
  <1>4. WalletPath(1) \in DOMAIN disk /\ disk[WalletPath(1)].kind = "partial"
    BY <1>1 DEF PartialInv, Exists
  <1>5. /\ TypedDisk' /\ Keeps /\ AddsNone
        /\ \A g \in DOMAIN disk' : g \in DOMAIN disk /\ disk'[g] = disk[g]
    BY <1>1, <1>4, RemovedFile
  <1>6. PartialInv'
    BY <1>1, <1>5 DEF PartialInv, Early
  <1> QED BY <1>1, <1>2, <1>3, <1>5, <1>6, QuietStep

\* While nothing is saved, what is said of files is said of none.
LEMMA EarlyStep ==
    ASSUME IInv, pc \in Early, disk' = disk, req' = req, stage' = stage, at' = at,
           pc' \in (Early \ {"removeTest"}) \cup {"create"},
           TypedMemory', MemoryInv', RandomInv'
    PROVE  IInv'
  <1> USE DEF IInv
  <1>1. /\ stage = "wallet" /\ at = 1 /\ req.wallets_quantity \in Nat
        /\ \A f \in DOMAIN disk : disk[f].kind \in {"partial", "foreign"}
    BY RequestFacts DEF MemoryInv, PartialInv, TypeOK
  <1>2. TypeOK'
    BY TypesOfBoth, SameDisk DEF TypeOK, TypedDisk, TypedMemory
  <1>3. PartialInv'
    BY <1>1 DEF PartialInv, Early, Drawing
  <1>4. SavedInv'
    BY <1>1 DEF SavedInv
  <1>5. FilesInv'
    <2>1. \A f \in DOMAIN disk : Intact(disk[f]).kind \in {"partial", "foreign"}
      BY <1>1 DEF Intact
    <2> QED BY <2>1 DEF FilesInv, IsSaved
  <1> QED BY <1>2, <1>3, <1>4, <1>5

\* The two prompts.
LEMMA AskPasswordsInv == ASSUME IInv, AskPasswords PROVE IInv'
  <1> USE DEF IInv
  <1>1. /\ pc = "password" /\ pc \in Early /\ pc' = "nonces" /\ TypedMemory
        /\ typed' \in SeedPw \cup {None}
        /\ UNCHANGED <<disk, req, stage, at, drawn, encrypted, opened, faults>>
    BY TypesOfBoth DEF AskPasswords, Early
  <1>2. TypedMemory'
    BY <1>1 DEF TypedMemory, Drawing
  <1>3. MemoryInv'
    BY <1>1 DEF MemoryInv, Early, Drawing
  <1>4. RandomInv'
    BY <1>1 DEF RandomInv
  <1> QED BY <1>1, <1>2, <1>3, <1>4, EarlyStep DEF Early, Drawing

\* A turn of a loop that draws random values, or its end.
LEMMA DrawInv == ASSUME IInv, NEW k \in Drawing, Draw(k) \/ Drawn(k) PROVE IInv'
  <1> USE DEF IInv
  <1>1. /\ pc = k /\ pc \in Early /\ TypedMemory
        /\ UNCHANGED <<disk, req, stage, at, typed, encrypted, opened, faults>>
        /\ pc' \in Drawing \cup {"derive"}
    BY TypesOfBoth DEF Draw, Drawn, Early, memory, Drawing
  <1>2. /\ drawn' \in [Drawing -> SUBSET (Nonce \cup Salt \cup Seed)]
        /\ \A q \in Drawing : drawn'[q] \subseteq Random[q]
    <2>1. /\ drawn \in [Drawing -> SUBSET (Nonce \cup Salt \cup Seed)]
          /\ \A q \in Drawing : drawn[q] \subseteq Random[q]
      BY DEF MemoryInv, TypeOK
    <2>2. CASE drawn' = drawn
      BY <2>1, <2>2
    <2>3. CASE \E v \in Random[k] : drawn' = [drawn EXCEPT ![k] = @ \cup {v}]
      <3>1. PICK v \in Random[k] : drawn' = [drawn EXCEPT ![k] = @ \cup {v}]
        BY <2>3
      <3>2. v \in Nonce \cup Salt \cup Seed
        BY DEF Random, Drawing
      <3> QED BY <2>1, <3>1, <3>2
    <2> QED BY <2>2, <2>3 DEF Draw, Drawn, memory
  <1>3. TypedMemory'
    BY <1>1, <1>2 DEF TypedMemory, Drawing
  <1>4. MemoryInv'
    BY <1>1, <1>2 DEF MemoryInv, Early, Drawing
  <1>5. RandomInv'
    BY <1>1 DEF RandomInv
  <1> QED BY <1>1, <1>3, <1>4, <1>5, EarlyStep DEF Early, Drawing

\* Lists made of sets never name a value twice, so no wallet shares one.
LEMMA DeriveInv == ASSUME IInv, DeriveAndEncrypt PROVE IInv'
  <1> USE DEF IInv
  <1>1. /\ pc = "derive" /\ pc \in Early /\ pc' = "create" /\ TypedMemory
        /\ UNCHANGED <<disk, req, stage, at, typed, drawn, opened>>
    BY TypesOfBoth DEF DeriveAndEncrypt, Early
  <1> DEFINE q == req.wallets_quantity
  <1>2. PICK flipped \in SUBSET Wallets, nonces \in Orders(drawn.nonces, 2 * q),
             salts \in Orders(drawn.salts, q), seeds \in Orders(drawn.seeds, q) :
          /\ faults + Cardinality(flipped) <= MaxFaults
          /\ faults' = faults + Cardinality(flipped)
          /\ encrypted' = [i \in Wallets |->
               [nonce |-> nonces[2 * i - 1], header_nonce |-> nonces[2 * i],
                salt |-> salts[i], key |-> [salt |-> salts[i], flipped |-> i \in flipped],
                seed |-> seeds[i]]]
    BY DEF DeriveAndEncrypt
  <1>3. q \in Nat
    BY <1>1, RequestFacts DEF TypedMemory
  <1>4. /\ drawn.nonces \subseteq Nonce /\ drawn.salts \subseteq Salt
        /\ drawn.seeds \subseteq Seed
    BY <1>1 DEF TypedMemory, Random, Drawing
  <1>5. /\ nonces \in [1..(2 * q) -> Nonce]
        /\ \A i, j \in 1..(2 * q) : nonces[i] = nonces[j] => i = j
        /\ salts \in [1..q -> Salt] /\ \A i, j \in 1..q : salts[i] = salts[j] => i = j
        /\ seeds \in [1..q -> Seed] /\ \A i, j \in 1..q : seeds[i] = seeds[j] => i = j
    BY <1>4 DEF Orders
  <1>6. \A i \in 1..q : 2 * i - 1 \in 1..(2 * q) /\ 2 * i \in 1..(2 * q)
    BY <1>3
  <1>7. /\ DOMAIN encrypted' = Wallets
        /\ encrypted' \in [Wallets -> Encrypted]
    BY <1>2, <1>3, <1>5, <1>6 DEF Encrypted, Key
  <1>8. faults' \in 0..MaxFaults
    <2>1. IsFiniteSet(Wallets)
      BY <1>3, FS_Interval
    <2>2. Cardinality(flipped) \in Nat
      BY <2>1, FS_Subset, FS_CardinalityType
    <2> QED BY <1>1, <1>2, <2>2, BatchAssumption DEF TypedMemory
  <1>9. TypedMemory'
    BY <1>1, <1>7, <1>8 DEF TypedMemory
  <1>10. MemoryInv'
    BY <1>1, <1>7 DEF MemoryInv, Early, Drawing
  <1>11. RandomInv'
    <2>1. SUFFICES ASSUME NEW i \in Wallets, NEW j \in Wallets
                   PROVE  /\ encrypted'[i].nonce # encrypted'[i].header_nonce
                          /\ i # j => /\ encrypted'[i].nonce # encrypted'[j].nonce
                                      /\ encrypted'[i].nonce # encrypted'[j].header_nonce
                                      /\ encrypted'[i].header_nonce # encrypted'[j].header_nonce
                                      /\ encrypted'[i].salt # encrypted'[j].salt
                                      /\ encrypted'[i].seed # encrypted'[j].seed
      BY <1>7 DEF RandomInv
    <2>2. /\ encrypted'[i].nonce = nonces[2 * i - 1]
          /\ encrypted'[i].header_nonce = nonces[2 * i]
          /\ encrypted'[i].salt = salts[i] /\ encrypted'[i].seed = seeds[i]
          /\ encrypted'[j].nonce = nonces[2 * j - 1]
          /\ encrypted'[j].header_nonce = nonces[2 * j]
          /\ encrypted'[j].salt = salts[j] /\ encrypted'[j].seed = seeds[j]
      BY <1>2
    <2>3. /\ 2 * i - 1 # 2 * i
          /\ i # j => 2 * i - 1 # 2 * j - 1 /\ 2 * i # 2 * j
          /\ 2 * i - 1 # 2 * j
      BY <1>3
    <2> QED BY <1>5, <1>6, <2>2, <2>3
  <1> QED BY <1>1, <1>9, <1>10, <1>11, EarlyStep

\* The next file is created, or its name is taken.
LEMMA CreateInv == ASSUME IInv, Create PROVE IInv'
  <1> USE DEF IInv
  <1> DEFINE f == PathOf(stage, at)
  <1>1. /\ pc = "create" /\ pc' \in {"write", "failed"} /\ TypedDisk /\ TypedMemory
        /\ ~AllSaved(at) /\ CreateNew(f)
        /\ UNCHANGED <<req, stage, at, typed, drawn, encrypted, opened, faults>>
    BY TypesOfBoth DEF Create, CreateNew, memory
  <1>2. at \in Wallets /\ stage \in Stage
    BY <1>1, RequestFacts DEF TypedMemory, AllSaved
  <1>3. TypedMemory'
    BY <1>1, <1>2 DEF TypedMemory, Ended
  <1>4. MemoryInv'
    BY <1>1 DEF MemoryInv, Early, Drawing, KeysHold
  <1>5. CASE disk' = disk /\ pc' = "failed"
    <2>1. PartialInv'
      BY <1>1, <1>5 DEF PartialInv, Early, Drawing
    <2> QED BY <1>1, <1>3, <1>4, <1>5, <2>1, SameDisk, QuietStep
  <1>6. CASE f \notin DOMAIN disk /\ disk' = Put(f, [kind |-> "partial"]) /\ pc' = "write"
    <2>1. f \in Names
      BY <1>1, <1>2, RequestFacts DEF TypedMemory
    <2>2. /\ TypedDisk' /\ Keeps /\ AddsNone
          /\ f \in DOMAIN disk' /\ disk'[f].kind = "partial"
      BY <1>1, <1>6, <2>1, AddedFile
    <2>3. PartialInv'
      BY <1>1, <1>6, <2>2 DEF PartialInv, Early, Drawing, Exists
    <2> QED BY <1>1, <1>3, <1>4, <2>2, <2>3, QuietStep
  <1> QED BY <1>1, <1>5, <1>6 DEF CreateNew, Exists

\* The confirmation, or the end of a batch that is cut short.
LEMMA ConfirmInv == ASSUME IInv, ConfirmNonDuressPassword PROVE IInv'
  <1> USE DEF IInv
  <1>1. /\ pc = "confirm" /\ pc' \in {"create", "confirm"} /\ TypedDisk /\ TypedMemory
        /\ pc' = "create" => typed = req.seedPw
        /\ UNCHANGED <<disk, req, stage, at, typed, drawn, encrypted, opened, faults>>
    BY TypesOfBoth DEF ConfirmNonDuressPassword, memory
  <1>2. TypedMemory'
    BY <1>1 DEF TypedMemory, Ended
  <1>3. MemoryInv'
    BY <1>1 DEF MemoryInv, Early, Drawing, KeysHold
  <1>4. PartialInv'
    BY <1>1 DEF PartialInv, Early, Drawing
  <1> QED BY <1>1, <1>2, <1>3, <1>4, SameDisk, QuietStep

\* A batch that crashes or fails leaves what it wrote.
LEMMA CutShortInv == ASSUME IInv, Crash \/ Failure PROVE IInv'
  <1> USE DEF IInv
  <1>1. /\ pc' \in {"crashed", "failed"} /\ TypedDisk /\ TypedMemory
        /\ faults < MaxFaults /\ faults' = faults + 1
        /\ UNCHANGED <<disk, req, stage, at, typed, drawn, encrypted, opened>>
    BY TypesOfBoth DEF Crash, Failure, memory
  <1>2. TypedMemory'
    BY <1>1, BatchAssumption DEF TypedMemory, Ended
  <1>3. MemoryInv'
    BY <1>1 DEF MemoryInv, Early, Drawing, KeysHold
  <1>4. PartialInv'
    BY <1>1 DEF PartialInv, Early, Drawing
  <1> QED BY <1>1, <1>2, <1>3, <1>4, SameDisk, QuietStep

\* Damage to a file.
LEMMA DamageInv == ASSUME IInv, NEW f \in Outputs(req), Damage(f) PROVE IInv'
  <1> USE DEF IInv
  <1>1. /\ TypedDisk /\ TypedMemory /\ faults < MaxFaults /\ faults' = faults + 1
        /\ f \in DOMAIN disk /\ disk[f].kind \in {"wallet", "public"}
        /\ UNCHANGED <<pc, req, stage, at, typed, drawn, encrypted, opened>>
    BY TypesOfBoth DEF Damage, Exists, memory
  <1>2. TypedMemory'
    BY <1>1, BatchAssumption DEF TypedMemory
  <1>3. MemoryInv'
    BY <1>1 DEF MemoryInv, KeysHold, AllSaved
  <1>4. /\ TypedDisk' /\ Keeps /\ AddsNone
        /\ \A g \in DOMAIN disk : disk[g].kind = "partial" =>
              g \in DOMAIN disk' /\ disk'[g] = disk[g]
    BY <1>1, DamagedDisk
  <1>5. PartialInv'
    BY <1>1, <1>4 DEF PartialInv, Exists
  <1> QED BY <1>1, <1>2, <1>3, <1>4, <1>5, QuietStep

\* Another program's file under a name of the batch.
LEMMA OccupyInv == ASSUME IInv, NEW f \in Outputs(req), Occupy(f) PROVE IInv'
  <1> USE DEF IInv
  <1>1. /\ TypedDisk /\ TypedMemory /\ faults < MaxFaults /\ faults' = faults + 1
        /\ f \notin DOMAIN disk /\ disk' = Put(f, [kind |-> "foreign"])
        /\ UNCHANGED <<pc, req, stage, at, typed, drawn, encrypted, opened>>
    BY TypesOfBoth DEF Occupy, Exists, memory
  <1>2. TypedMemory'
    BY <1>1, BatchAssumption DEF TypedMemory
  <1>3. MemoryInv'
    BY <1>1 DEF MemoryInv, KeysHold, AllSaved
  <1>4. f \in Names
    BY <1>1, RequestFacts DEF TypedMemory
  <1>5. /\ TypedDisk' /\ Keeps /\ AddsNone
        /\ \A g \in DOMAIN disk : g \in DOMAIN disk' /\ disk'[g] = disk[g]
        /\ \A g \in DOMAIN disk' :
              disk'[g].kind = "foreign" \/ (g \in DOMAIN disk /\ disk'[g] = disk[g])
    BY <1>1, <1>4, AddedFile
  <1>6. PartialInv'
    BY <1>1, <1>5 DEF PartialInv, Exists
  <1> QED BY <1>1, <1>2, <1>3, <1>5, <1>6, QuietStep

\* What is written into the partial file at hand.
LEMMA ContentType ==
    ASSUME IInv, pc = "write"
    PROVE  /\ PathOf(stage, at) \in DOMAIN disk
           /\ disk[PathOf(stage, at)].kind = "partial"
           /\ at \in Wallets /\ at \in DOMAIN encrypted /\ encrypted[at] \in Encrypted
           /\ stage = "wallet" =>
                 ContentOf(stage, at) = Wallet(at) /\ Wallet(at) \in WalletFile
           /\ stage # "wallet" => opened[at] \in Seed /\ opened[at] = encrypted[at].seed
           /\ stage = "public" =>
                 ContentOf(stage, at) = Public(at, None) /\ Public(at, None) \in PublicFile
           /\ stage = "nonDuress" =>
                 ContentOf(stage, at) = Public(at, typed) /\ Public(at, typed) \in PublicFile
           /\ stage \in Stage
  <1> USE DEF IInv
  <1>1. PathOf(stage, at) \in DOMAIN disk /\ disk[PathOf(stage, at)].kind = "partial"
    BY DEF PartialInv, Exists
  <1>2. TypedMemory /\ at \in Wallets /\ stage \in Stage
    BY TypesOfBoth DEF TypedMemory
  <1>3. at \in DOMAIN encrypted /\ encrypted[at] \in Encrypted
    BY <1>2 DEF TypedMemory, MemoryInv
  <1>4. stage # "wallet" => opened[at] \in Seed /\ opened[at] = encrypted[at].seed
    BY <1>2, <1>3 DEF TypedMemory, MemoryInv
  <1>5. typed \in SeedPw \cup {None}
    BY <1>2 DEF TypedMemory
  <1> QED BY <1>1, <1>2, <1>3, <1>4, <1>5
          DEF ContentOf, Wallet, Public, WalletFile, PublicFile

\* The partial file at hand is completed.
LEMMA WriteInv == ASSUME IInv, Write PROVE IInv'
  <1> USE DEF IInv
  <1>1. /\ pc = "write" /\ pc' = "create" /\ at' = at + 1
        /\ disk' = Put(PathOf(stage, at), ContentOf(stage, at))
        /\ TypedDisk /\ TypedMemory
        /\ UNCHANGED <<req, stage, typed, drawn, encrypted, opened, faults>>
    BY TypesOfBoth DEF Write
  <1>2. PICK f, c : f = PathOf(stage, at) /\ c = ContentOf(stage, at)
    OBVIOUS
  <1>3. /\ f \in DOMAIN disk /\ disk[f].kind = "partial"
        /\ at \in Wallets /\ at \in DOMAIN encrypted
        /\ c \in WalletFile \cup PublicFile /\ stage \in Stage
        /\ stage = "wallet" => c = Wallet(at)
        /\ stage = "public" => c = Public(at, None)
        /\ stage = "nonDuress" => c = Public(at, typed)
    BY <1>1, <1>2, ContentType DEF Stage
  <1>4. /\ TypedDisk' /\ Keeps
        /\ f \in DOMAIN disk' /\ disk'[f] = c /\ Intact(disk'[f]) = c
        /\ \A g \in DOMAIN disk' : g \in DOMAIN disk /\ (g # f => disk'[g] = disk[g])
    BY <1>1, <1>2, <1>3, FilledFile
  <1>5. req.wallets_quantity \in Nat /\ at \in Nat
    BY <1>1, RequestFacts DEF TypedMemory
  <1>6. TypedMemory'
    BY <1>1, <1>3, <1>5 DEF TypedMemory
  <1>7. MemoryInv'
    BY <1>1 DEF MemoryInv, Early, Drawing, KeysHold
  <1>8. PartialInv'
    BY <1>1 DEF PartialInv, Early, Drawing
  <1>9. RandomInv'
    BY <1>1 DEF RandomInv
  <1>10. \A g, d : Holds(g, d) /\ d.kind \in {"wallet", "public"} =>
             g \in DOMAIN disk' /\ Intact(disk'[g]) = d
    <2>1. SUFFICES ASSUME NEW g, NEW d, Holds(g, d), d.kind \in {"wallet", "public"}
                   PROVE  g \in DOMAIN disk' /\ Intact(disk'[g]) = d
      OBVIOUS
    <2>2. disk[g].kind # "partial" /\ g \in DOMAIN disk /\ Intact(disk[g]) = d
      BY <2>1, HeldIsWhole DEF Holds
    <2> QED BY <1>4, <2>2 DEF Keeps
  <1>11. SavedInv'
    <2>1. SUFFICES ASSUME NEW i \in Wallets
                   PROVE  /\ stage # "wallet" \/ i < at + 1 =>
                                /\ WalletPath(i) \in DOMAIN disk'
                                /\ Intact(disk'[WalletPath(i)]) = Wallet(i)
                          /\ stage = "nonDuress" \/ (stage = "public" /\ i < at + 1) =>
                                /\ PathOf("public", i) \in DOMAIN disk'
                                /\ Intact(disk'[PathOf("public", i)]) = Public(i, None)
      BY <1>1 DEF SavedInv, Holds, Wallet, Public
    <2>2. /\ stage # "wallet" \/ i < at => Holds(WalletPath(i), Wallet(i))
          /\ stage = "nonDuress" \/ (stage = "public" /\ i < at) =>
                Holds(PathOf("public", i), Public(i, None))
      BY DEF SavedInv
    <2>3. Wallet(i).kind = "wallet" /\ Public(i, None).kind = "public"
      BY DEF Wallet, Public
    <2>4. i < at + 1 => i < at \/ i = at
      BY <1>5
    <2>5. stage = "wallet" => f = WalletPath(at)
      BY <1>2
    <2>6. stage = "public" => f = PathOf("public", at)
      BY <1>2
    <2> HIDE DEF WalletPath, PathOf
    <2> QED BY <1>3, <1>4, <1>10, <2>2, <2>3, <2>4, <2>5, <2>6
  <1>12. FilesInv'
    <2>1. SUFFICES ASSUME NEW g \in DOMAIN disk' PROVE IsSaved(g)'
      BY DEF FilesInv
    <2>2. CASE g # f
      <3>1. g \in DOMAIN disk /\ disk'[g] = disk[g] /\ IsSaved(g)
        BY <1>4, <2>2 DEF FilesInv
      <3> QED BY <1>1, <3>1 DEF IsSaved, Wallet, Public
    <2>3. CASE g = f
      <3>1. Intact(disk'[g]) = c /\ g = PathOf(stage, at)
        BY <1>2, <1>4, <2>3
      <3>2. CASE stage = "wallet"
        BY <1>1, <1>3, <3>1, <3>2 DEF IsSaved, Wallet
      <3>3. CASE stage = "public"
        BY <1>1, <1>3, <3>1, <3>3 DEF IsSaved, Public
      <3>4. CASE stage = "nonDuress"
        BY <1>1, <1>3, <3>1, <3>4 DEF IsSaved, Public
      <3> QED BY <1>3, <3>2, <3>3, <3>4 DEF Stage
    <2> QED BY <2>2, <2>3
  <1>13. TypeOK'
    BY <1>4, <1>6 DEF TypeOK, TypedDisk, TypedMemory
  <1> QED BY <1>7, <1>8, <1>9, <1>11, <1>12, <1>13

\* When all files of a kind are saved.
LEMMA SavedStepInv == ASSUME IInv, Saved PROVE IInv'
  <1> USE DEF IInv
  <1>1. /\ pc = "create" /\ AllSaved(at) /\ TypedDisk /\ TypedMemory
        /\ UNCHANGED <<disk, req, typed, drawn, encrypted, opened, faults>>
        /\ \/ stage = "wallet" /\ pc' = "readBack" /\ stage' = stage /\ at' = at
           \/ /\ stage = "public" /\ req.enable_duress_wallet
              /\ stage' = "nonDuress" /\ at' = 1 /\ pc' = pc
           \/ stage # "wallet" /\ pc' = "done" /\ stage' = stage /\ at' = at
    BY TypesOfBoth DEF Saved
  <1>2. req.wallets_quantity \in Nat /\ \A i \in Wallets : i < at
    BY <1>1, RequestFacts DEF TypedMemory, AllSaved
  <1>3. TypedMemory'
    BY <1>1, <1>2 DEF TypedMemory, Ended, Stage
  <1>4. PartialInv'
    BY <1>1 DEF PartialInv, Early, Drawing, Ended
  <1>5. MemoryInv'
    BY <1>1 DEF MemoryInv, Early, Drawing, KeysHold, AllSaved
  <1>6. CASE stage' = stage /\ at' = at
    BY <1>1, <1>3, <1>4, <1>5, <1>6, SameDisk, QuietStep
  <1>7. CASE stage = "public" /\ stage' = "nonDuress" /\ at' = 1
    <2>1. SavedInv'
      BY <1>1, <1>2, <1>7 DEF SavedInv, Holds, Wallet, Public
    <2>2. FilesInv'
      BY <1>1, <1>7 DEF FilesInv, IsSaved, Wallet, Public
    <2>3. RandomInv'
      BY <1>1 DEF RandomInv
    <2>4. TypedDisk'
      BY <1>1, SameDisk
    <2>5. TypeOK'
      BY <1>3, <2>4 DEF TypeOK, TypedDisk, TypedMemory
    <2> QED BY <1>4, <1>5, <2>1, <2>2, <2>3, <2>5
  <1> QED BY <1>1, <1>6, <1>7

\* A wallet that opens when it is read back has the key its salt derives.
LEMMA ReadBackInv == ASSUME IInv, ReadBack PROVE IInv'
  <1> USE DEF IInv
  <1>1. /\ pc = "readBack" /\ TypedDisk /\ TypedMemory
        /\ UNCHANGED <<disk, req, typed, drawn, encrypted, faults>>
        /\ stage = "wallet" /\ AllSaved(at) /\ DOMAIN encrypted = Wallets
    BY TypesOfBoth DEF ReadBack, MemoryInv
  <1>2. /\ req.wallets_quantity \in Nat /\ req.enable_duress_wallet \in BOOLEAN
        /\ \A i \in Wallets : i < at
    BY <1>1, RequestFacts DEF TypedMemory, AllSaved
  <1>3. CASE \A i \in Wallets : Verified(i)
    <2>1. \A i \in Wallets : disk[WalletPath(i)] = Wallet(i)
      <3>1. SUFFICES ASSUME NEW i \in Wallets PROVE disk[WalletPath(i)] = Wallet(i)
        OBVIOUS
      <3>2. Holds(WalletPath(i), Wallet(i))
        BY <1>1, <1>2 DEF SavedInv
      <3>3. disk[WalletPath(i)].kind = "wallet"
        BY <1>3 DEF Verified, Opens
      <3> QED BY <3>2, <3>3 DEF Holds, Intact
    <2>14. \A i \in Wallets : disk[WalletPath(i)].wallet = encrypted[i]
      <3>1. \A i \in Wallets : Wallet(i).wallet = encrypted[i]
        BY DEF Wallet
      <3> HIDE DEF WalletPath, Wallets
      <3> QED BY <2>1, <3>1
    <2>15. \A i \in Wallets :
              disk[WalletPath(i)].wallet.key = default_derive_key(disk[WalletPath(i)].wallet.salt)
      BY <1>3 DEF Verified, Opens
    <2>16. opened' = [i \in Wallets |-> disk[WalletPath(i)].wallet.seed]
      BY <1>3 DEF ReadBack, decrypted_read_wallets
    <2>2. KeysHold
      <3> HIDE DEF WalletPath, Wallets
      <3> QED BY <2>14, <2>15 DEF KeysHold
    <2>3. opened' = [i \in Wallets |-> encrypted[i].seed]
      <3> HIDE DEF WalletPath, Wallets
      <3> QED BY <2>14, <2>16
    <2>4. \/ pc' = "done" /\ stage' = stage /\ at' = at
          \/ /\ stage' = "public" /\ at' = 1
             /\ pc' = IF req.enable_duress_wallet THEN "confirm" ELSE "create"
      BY <1>3 DEF ReadBack
    <2>5. opened' \in [DOMAIN opened' -> Seed]
      <3>1. \A i \in Wallets : encrypted[i] \in Encrypted
        BY <1>1 DEF TypedMemory
      <3>2. \A i \in Wallets : encrypted[i].seed \in Seed
        BY <3>1 DEF Encrypted
      <3> QED BY <2>3, <3>2
    <2>6. TypedMemory'
      BY <1>1, <1>2, <2>4, <2>5 DEF TypedMemory, Ended, Stage
    <2>7. MemoryInv'
      <3>1. KeysHold'
        BY <1>1, <2>2 DEF KeysHold
      <3> QED BY <1>1, <2>3, <2>4, <3>1 DEF MemoryInv, Early, Drawing, AllSaved
    <2>8. PartialInv'
      BY <1>1, <2>4 DEF PartialInv, Early, Drawing
    <2>9. RandomInv'
      BY <1>1 DEF RandomInv
    <2>10. SavedInv'
      <3>1. \A i \in Wallets : Holds(WalletPath(i), Wallet(i))
        BY <1>1, <1>2 DEF SavedInv
      <3>2. ~(stage' = "nonDuress") /\ \A i \in Wallets : ~(stage' = "public" /\ i < at')
        BY <1>1, <1>2, <2>4
      <3> QED BY <1>1, <3>1, <3>2 DEF SavedInv, Holds, Wallet
    <2>11. FilesInv'
      <3>1. \A f \in DOMAIN disk : Intact(disk[f]).kind # "public"
        BY <1>1 DEF FilesInv, IsSaved
      <3> QED BY <1>1, <3>1 DEF FilesInv, IsSaved, Wallet
    <2>12. TypedDisk'
      BY <1>1, SameDisk
    <2>13. TypeOK'
      BY <2>6, <2>12 DEF TypeOK, TypedDisk, TypedMemory
    <2> QED BY <2>7, <2>8, <2>9, <2>10, <2>11, <2>13
  <1>4. CASE ~\A i \in Wallets : Verified(i)
    <2>1. pc' = "failed" /\ UNCHANGED <<stage, at, opened>>
      BY <1>4 DEF ReadBack
    <2>2. TypedMemory'
      BY <1>1, <2>1 DEF TypedMemory, Ended
    <2>3. MemoryInv'
      BY <1>1, <2>1 DEF MemoryInv, Early, Drawing, KeysHold
    <2>4. PartialInv'
      BY <2>1 DEF PartialInv, Early, Drawing
    <2> QED BY <1>1, <2>1, <2>2, <2>3, <2>4, SameDisk, QuietStep
  <1> QED BY <1>3, <1>4

\* Every step keeps the invariant.
LEMMA StepInv == IInv /\ [Next]_vars => IInv'
  <1>1. SUFFICES ASSUME IInv, [Next]_vars PROVE IInv'
    OBVIOUS
  <1>2. CASE UNCHANGED vars
    <2>1. /\ UNCHANGED <<disk, req, pc, stage, at, typed, drawn, encrypted, opened, faults>>
          /\ TypedDisk /\ TypedMemory
      BY <1>1, <1>2, TypesOfBoth DEF vars, IInv
    <2>2. TypedMemory' /\ MemoryInv' /\ PartialInv'
      BY <1>1, <2>1 DEF TypedMemory, IInv, MemoryInv, PartialInv, KeysHold, AllSaved, Exists
    <2> QED BY <1>1, <2>1, <2>2, SameDisk, QuietStep
  <1>3. CASE Start \/ RemoveTest \/ AskPasswords
    BY <1>1, <1>3, StartInv, RemoveTestInv, AskPasswordsInv
  <1>4. CASE \E k \in Drawing : Draw(k) \/ Drawn(k)
    BY <1>1, <1>4, DrawInv
  <1>5. CASE DeriveAndEncrypt \/ Create \/ Write \/ Saved
    BY <1>1, <1>5, DeriveInv, CreateInv, WriteInv, SavedStepInv
  <1>6. CASE ReadBack \/ ConfirmNonDuressPassword \/ Crash \/ Failure
    BY <1>1, <1>6, ReadBackInv, ConfirmInv, CutShortInv
  <1>7. CASE \E f \in Outputs(req) : Damage(f) \/ Occupy(f)
    BY <1>1, <1>7, DamageInv, OccupyInv
  <1> QED BY <1>1, <1>2, <1>3, <1>4, <1>5, <1>6, <1>7 DEF Next

\* The inductive invariant always holds.
LEMMA AlwaysIInv == Spec => []IInv
  <1> QED BY InitInv, StepInv, PTL DEF Spec
-----------------------------------------------------------------------------
(* What a batch guarantees. *)

\* The variables of a batch only ever hold what they are meant to hold: the
\* names on disk are the batch's, contents and random values are of their types
\* (the state of core_batch_generate_export).
THEOREM TypeCorrect == Spec => []TypeOK
  <1>1. IInv => TypeOK
    BY DEF IInv
  <1> QED BY <1>1, AlwaysIInv, PTL

\* What the invariant says of the wallets once they were all read back.
LEMMA AllSealed ==
    ASSUME IInv, KeysHold, stage # "wallet" \/ AllSaved(at), NEW i \in Wallets
    PROVE  /\ WalletPath(i) \in DOMAIN disk /\ Intact(disk[WalletPath(i)]) = Wallet(i)
           /\ Sealed(i)
  <1>1. Holds(WalletPath(i), Wallet(i))
    <2>1. AllSaved(at) => i < at
      <3>1. req.wallets_quantity \in Nat /\ at \in Nat
        BY RequestFacts DEF IInv, TypeOK
      <3> QED BY <3>1 DEF AllSaved
    <2> QED BY <2>1 DEF IInv, SavedInv
  <1>2. Opens(Wallet(i))
    BY DEF KeysHold, Opens, Wallet
  <1> QED BY <1>1, <1>2 DEF Holds, Sealed, Exists

\* A batch that ends well leaves every wallet under its name, openable with the
\* password (the verification of the read wallets in core_batch_generate_export).
THEOREM EveryWalletOpens == Spec => []BatchOpens
  <1>1. IInv => BatchOpens
    <2>1. SUFFICES ASSUME IInv, pc = "done", NEW i \in Wallets PROVE Sealed(i)
      BY DEF BatchOpens
    <2>2. KeysHold /\ (stage # "wallet" \/ AllSaved(at))
      BY <2>1 DEF IInv, MemoryInv
    <2> QED BY <2>1, <2>2, AllSealed
  <1> QED BY <1>1, AlwaysIInv, PTL

\* What an export on disk is: which wallet's, and of which kind.
LEMMA ExportIs ==
    ASSUME IInv, NEW f \in DOMAIN disk, IsPublic(f)
    PROVE  \E i \in Wallets :
              \/ stage # "wallet" /\ f = PathOf("public", i) /\ Intact(disk[f]) = Public(i, None)
              \/ /\ stage = "nonDuress" /\ f = PathOf("nonDuress", i)
                 /\ Intact(disk[f]) = Public(i, typed) /\ typed = req.seedPw /\ typed # None
  <1>1. IsSaved(f) /\ Intact(disk[f]).kind = "public"
    BY DEF IInv, FilesInv, IsPublic
  <1>2. stage = "nonDuress" => typed = req.seedPw /\ typed # None
    BY RequestFacts DEF IInv, MemoryInv, TypeOK
  <1> QED BY <1>1, <1>2 DEF IsSaved

\* Exports are of sealed wallets, under their own names, and there is none
\* before every wallet of the batch opens (the order of the loops of
\* core_batch_generate_export).
THEOREM ExportsAllOrNone == Spec => []AllOrNoExports
  <1>1. IInv => AllOrNoExports
    <2>1. SUFFICES ASSUME IInv, NEW f \in DOMAIN disk, IsPublic(f)
                   PROVE  /\ \A i \in Wallets : Sealed(i)
                          /\ \E i \in Wallets :
                                LET e == Intact(disk[f]) IN
                                /\ f = PathOf(IF e.seedPw = None THEN "public" ELSE "nonDuress", i)
                                /\ e.seed = Intact(disk[WalletPath(i)]).wallet.seed
      BY DEF AllOrNoExports
    <2>2. PICK i \in Wallets :
              \/ stage # "wallet" /\ f = PathOf("public", i) /\ Intact(disk[f]) = Public(i, None)
              \/ /\ stage = "nonDuress" /\ f = PathOf("nonDuress", i)
                 /\ Intact(disk[f]) = Public(i, typed) /\ typed = req.seedPw /\ typed # None
      BY <2>1, ExportIs
    <2>3. stage # "wallet" /\ KeysHold /\ opened[i] = encrypted[i].seed
      BY <2>1, <2>2 DEF IInv, MemoryInv
    <2>4. \A j \in Wallets : Sealed(j)
      BY <2>1, <2>3, AllSealed
    <2>5. Intact(disk[WalletPath(i)]) = Wallet(i)
      BY <2>1, <2>3, AllSealed
    <2>6. /\ Intact(disk[WalletPath(i)]).wallet.seed = encrypted[i].seed
          /\ Intact(disk[f]).seed = encrypted[i].seed
      BY <2>2, <2>3, <2>5 DEF Wallet, Public
    <2>7. f = PathOf(IF Intact(disk[f]).seedPw = None THEN "public" ELSE "nonDuress", i)
      BY <2>2 DEF Public
    <2> QED BY <2>4, <2>6, <2>7
  <1> QED BY <1>1, AlwaysIInv, PTL

\* No hidden wallet is exported before all decoys are, nor for a password its
\* user does not mean (double_check_non_duress_password and the last loop).
THEOREM HiddenComeAfterDecoys == Spec => []HiddenBehindDecoys
  <1>1. IInv => HiddenBehindDecoys
    <2>1. SUFFICES ASSUME IInv, NEW f \in DOMAIN disk, IsPublic(f), Intact(disk[f]).seedPw # None
                   PROVE  /\ Intact(disk[f]).seedPw = req.seedPw
                          /\ \A i \in Wallets :
                                LET decoy == PathOf("public", i) IN
                                /\ Exists(decoy) /\ IsPublic(decoy)
                                /\ Intact(disk[decoy]).seedPw = None
      BY DEF HiddenBehindDecoys
    <2>2. stage = "nonDuress" /\ Intact(disk[f]).seedPw = req.seedPw
      BY <2>1, ExportIs DEF Public
    <2>3. ASSUME NEW i \in Wallets
          PROVE  /\ Exists(PathOf("public", i)) /\ IsPublic(PathOf("public", i))
                 /\ Intact(disk[PathOf("public", i)]).seedPw = None
      <3>1. Holds(PathOf("public", i), Public(i, None))
        BY <2>1, <2>2 DEF IInv, SavedInv
      <3> HIDE DEF PathOf
      <3> QED BY <3>1 DEF Holds, Exists, IsPublic, Public
    <2> QED BY <2>2, <2>3
  <1> QED BY <1>1, AlwaysIInv, PTL

\* No two wallets of a batch share a nonce, a salt or a seed, whatever the
\* generator repeats (the HashSets of core_batch_generate_export).
THEOREM RandomnessIsFresh == Spec => []NoRandomnessReused
  <1>1. IInv => NoRandomnessReused
    <2> DEFINE Saves(f) == Intact(disk[f]).kind = "wallet"
               Of(f) == Intact(disk[f]).wallet
               Nonces(f) == {Of(f).nonce, Of(f).header_nonce}
    <2>1. SUFFICES ASSUME IInv, NEW f \in DOMAIN disk, NEW g \in DOMAIN disk, Saves(f), Saves(g)
                   PROVE  /\ Of(f).nonce # Of(f).header_nonce
                          /\ f # g => /\ Nonces(f) \cap Nonces(g) = {}
                                      /\ Of(f).salt # Of(g).salt
                                      /\ Of(f).seed # Of(g).seed
      BY DEF NoRandomnessReused
    <2>2. PICK i \in DOMAIN encrypted : f = WalletPath(i) /\ Intact(disk[f]) = Wallet(i)
      BY <2>1 DEF IInv, FilesInv, IsSaved
    <2>3. PICK j \in DOMAIN encrypted : g = WalletPath(j) /\ Intact(disk[g]) = Wallet(j)
      BY <2>1 DEF IInv, FilesInv, IsSaved
    <2>4. Of(f) = encrypted[i] /\ Of(g) = encrypted[j] /\ (f # g => i # j)
      BY <2>2, <2>3 DEF Wallet
    <2>5. RandomInv
      BY <2>1 DEF IInv
    <2> HIDE DEF Of
    <2>6. Of(f).nonce # Of(f).header_nonce
      BY <2>4, <2>5 DEF RandomInv
    <2>7. ASSUME f # g
          PROVE  /\ Nonces(f) \cap Nonces(g) = {}
                 /\ Of(f).salt # Of(g).salt /\ Of(f).seed # Of(g).seed
      BY <2>4, <2>5, <2>7 DEF RandomInv
    <2> QED BY <2>6, <2>7
  <1> QED BY <1>1, AlwaysIInv, PTL
-----------------------------------------------------------------------------
(* A batch implements the cold store. *)

\* The elements of the store and of its exports that files stand for.
KeptFiles == {f \in DOMAIN disk : Opens(Intact(disk[f]))}
ExportedFiles == {f \in DOMAIN disk : IsPublic(f)}
KeptEntry(f) == [name |-> f, creds |-> Password, wallet |-> Intact(disk[f]).wallet.seed]
ExportEntry(f) ==
    [name |-> f, wallet |-> Intact(disk[f]).seed, seedPw |-> Intact(disk[f]).seedPw]
StoreOfFiles == {KeptEntry(f) : f \in KeptFiles}
PublicOfFiles == {ExportEntry(f) : f \in ExportedFiles}

\* Kept and exported files are whole, so no partial file is one of them.
LEMMA StoredIsWhole ==
    ASSUME NEW f \in KeptFiles \cup ExportedFiles
    PROVE  /\ f \in DOMAIN disk /\ Intact(disk[f]).kind \in {"wallet", "public"}
           /\ disk[f].kind # "partial"
  BY DEF KeptFiles, ExportedFiles, Opens, IsPublic, Intact

\* The names in the store are those of whole files.
LEMMA PartialIsUnused ==
    ASSUME NEW f, disk[f].kind = "partial"
    PROVE  \A e \in StoreOfFiles \cup PublicOfFiles : e.name # f
  <1>1. f \notin KeptFiles \cup ExportedFiles
    BY StoredIsWhole
  <1> QED BY <1>1 DEF StoreOfFiles, PublicOfFiles, KeptEntry, ExportEntry

\* A step that loses nothing complete and adds no wallet and no export is a
\* stutter of the store.
LEMMA QuietIsStutter ==
    ASSUME Keeps, AddsNone
    PROVE  StoreOfFiles' = StoreOfFiles /\ PublicOfFiles' = PublicOfFiles
  <1>1. \A g \in KeptFiles \cup ExportedFiles :
            g \in DOMAIN disk' /\ Intact(disk'[g]) = Intact(disk[g])
    BY StoredIsWhole DEF Keeps
  <1>2. \A g \in DOMAIN disk' : Opens(Intact(disk'[g])) =>
            g \in DOMAIN disk /\ Intact(disk[g]) = Intact(disk'[g])
    BY DEF AddsNone, Opens
  <1>3. \A g \in DOMAIN disk' : Intact(disk'[g]).kind = "public" =>
            g \in DOMAIN disk /\ Intact(disk[g]) = Intact(disk'[g])
    BY DEF AddsNone
  <1>4. \A g : g \in KeptFiles' <=> g \in KeptFiles
    BY <1>1, <1>2 DEF KeptFiles, Opens
  <1>5. \A g : g \in ExportedFiles' <=> g \in ExportedFiles
    BY <1>1, <1>3 DEF ExportedFiles, IsPublic
  <1>6. \A g \in KeptFiles : KeptEntry(g)' = KeptEntry(g)
    BY <1>1 DEF KeptEntry
  <1>7. \A g \in ExportedFiles : ExportEntry(g)' = ExportEntry(g)
    BY <1>1 DEF ExportEntry
  <1> QED BY <1>4, <1>5, <1>6, <1>7 DEF StoreOfFiles, PublicOfFiles

\* Filling a partial file adds what it then is, and nothing else.
LEMMA FillAdds ==
    ASSUME NEW f \in DOMAIN disk, disk[f].kind = "partial",
           NEW c, c.kind \in {"wallet", "public"}, disk' = Put(f, c)
    PROVE  /\ IF Opens(c)
              THEN StoreOfFiles' = StoreOfFiles \cup
                      {[name |-> f, creds |-> Password, wallet |-> c.wallet.seed]}
              ELSE StoreOfFiles' = StoreOfFiles
           /\ IF c.kind = "public"
              THEN PublicOfFiles' = PublicOfFiles \cup
                      {[name |-> f, wallet |-> c.seed, seedPw |-> c.seedPw]}
              ELSE PublicOfFiles' = PublicOfFiles
  <1>1. DOMAIN disk' = DOMAIN disk
    BY DEF Put
  <1>2. disk'[f] = c /\ Intact(c) = c /\ \A g \in DOMAIN disk : g # f => disk'[g] = disk[g]
    BY DEF Put, Intact
  <1>3. f \notin KeptFiles /\ f \notin ExportedFiles
    BY StoredIsWhole
  <1>4. \A g : g \in KeptFiles' <=> g \in KeptFiles \/ (g = f /\ Opens(c))
    BY <1>1, <1>2, <1>3 DEF KeptFiles, Opens
  <1>5. \A g : g \in ExportedFiles' <=> g \in ExportedFiles \/ (g = f /\ c.kind = "public")
    BY <1>1, <1>2, <1>3 DEF ExportedFiles, IsPublic
  <1>6. \A g \in KeptFiles : KeptEntry(g)' = KeptEntry(g)
    BY <1>2, <1>3 DEF KeptEntry, KeptFiles
  <1>7. \A g \in ExportedFiles : ExportEntry(g)' = ExportEntry(g)
    BY <1>2, <1>3 DEF ExportEntry, ExportedFiles
  <1>8. KeptEntry(f)' = [name |-> f, creds |-> Password, wallet |-> c.wallet.seed]
    BY <1>2 DEF KeptEntry
  <1>9. ExportEntry(f)' = [name |-> f, wallet |-> c.seed, seedPw |-> c.seedPw]
    BY <1>2 DEF ExportEntry
  <1>10. IF Opens(c)
         THEN StoreOfFiles' = StoreOfFiles \cup
                 {[name |-> f, creds |-> Password, wallet |-> c.wallet.seed]}
         ELSE StoreOfFiles' = StoreOfFiles
    BY <1>4, <1>6, <1>8 DEF StoreOfFiles
  <1>11. IF c.kind = "public"
         THEN PublicOfFiles' = PublicOfFiles \cup
                 {[name |-> f, wallet |-> c.seed, seedPw |-> c.seedPw]}
         ELSE PublicOfFiles' = PublicOfFiles
    BY <1>5, <1>7, <1>9 DEF PublicOfFiles
  <1> QED BY <1>10, <1>11

\* The wallet of each export that may be written is kept, and so is the decoy of
\* each hidden one.
LEMMA ExportsAreBacked ==
    ASSUME IInv, pc = "write", stage # "wallet"
    PROVE  /\ \E k \in StoreOfFiles : k.wallet = opened[at]
           /\ stage = "nonDuress" =>
                 \E e \in PublicOfFiles : e.wallet = opened[at] /\ e.seedPw = None
  <1>1. at \in Wallets /\ opened[at] = encrypted[at].seed /\ KeysHold
    BY ContentType DEF IInv, MemoryInv
  <1>2. PICK w : w = WalletPath(at)
    OBVIOUS
  <1>3. w \in DOMAIN disk /\ Intact(disk[w]) = Wallet(at) /\ Opens(Intact(disk[w]))
    BY <1>1, <1>2, AllSealed DEF Sealed
  <1>4. KeptEntry(w) \in StoreOfFiles /\ KeptEntry(w).wallet = opened[at]
    BY <1>1, <1>3 DEF KeptEntry, KeptFiles, StoreOfFiles, Wallet
  <1>5. ASSUME stage = "nonDuress"
        PROVE  \E e \in PublicOfFiles : e.wallet = opened[at] /\ e.seedPw = None
    <2>1. PICK d : d = PathOf("public", at)
      OBVIOUS
    <2>2. d \in DOMAIN disk /\ Intact(disk[d]) = Public(at, None)
      BY <1>1, <1>5, <2>1 DEF IInv, SavedInv, Holds
    <2>3. /\ ExportEntry(d) \in PublicOfFiles
          /\ ExportEntry(d).wallet = opened[at] /\ ExportEntry(d).seedPw = None
      BY <2>2 DEF ExportEntry, ExportedFiles, PublicOfFiles, IsPublic, Public
    <2> QED BY <2>3
  <1> QED BY <1>4, <1>5

\* Writing a file keeps a wallet, publishes an export, or, when the key was
\* flipped, does nothing to the store.
LEMMA WriteImplements ==
    ASSUME IInv, Write
    PROVE  Store!Next \/ UNCHANGED Store!vars
  <1>1. pc = "write" /\ disk' = Put(PathOf(stage, at), ContentOf(stage, at))
    BY DEF Write
  <1>2. PICK f, c : f = PathOf(stage, at) /\ c = ContentOf(stage, at)
    OBVIOUS
  <1>3. /\ f \in DOMAIN disk /\ disk[f].kind = "partial" /\ disk' = Put(f, c)
        /\ stage \in Stage /\ f \in Names
        /\ \A e \in StoreOfFiles \cup PublicOfFiles : e.name # f
    BY <1>1, <1>2, ContentType, PartialIsUnused DEF IInv, TypeOK
  <1>4. Store!Unused(f)
    BY <1>3 DEF Store!Unused, StoreOfFiles, PublicOfFiles, KeptFiles, ExportedFiles,
         KeptEntry, ExportEntry
  <1>5. CASE stage = "wallet"
    <2>1. c = Wallet(at) /\ encrypted[at] \in Encrypted
      BY <1>1, <1>2, <1>5, ContentType
    <2>2. c.kind = "wallet" /\ c.wallet.seed \in Seed
      BY <2>1 DEF Wallet, Encrypted
    <2>3. PublicOfFiles' = PublicOfFiles
      BY <1>3, <2>2, FillAdds
    <2>4. CASE ~Opens(c)
      <3>1. StoreOfFiles' = StoreOfFiles
        BY <1>3, <2>2, <2>4, FillAdds
      <3> QED BY <2>3, <3>1 DEF Store!vars, StoreOfFiles, PublicOfFiles, KeptFiles,
                ExportedFiles, KeptEntry, ExportEntry
    <2>5. CASE Opens(c)
      <3>1. StoreOfFiles' = StoreOfFiles \cup
               {[name |-> f, creds |-> Password, wallet |-> c.wallet.seed]}
        BY <1>3, <2>2, <2>5, FillAdds
      <3>2. Store!Keep(f, Password, c.wallet.seed)
        BY <1>4, <2>3, <3>1 DEF Store!Keep, StoreOfFiles, PublicOfFiles, KeptFiles,
             ExportedFiles, KeptEntry, ExportEntry
      <3> QED BY <1>3, <2>2, <3>2 DEF Store!Next
    <2> QED BY <2>4, <2>5
  <1>6. CASE stage # "wallet"
    <2>1. PICK pw, v : pw = (IF stage = "public" THEN None ELSE typed) /\ v = opened[at]
      OBVIOUS
    <2>2. pw \in SeedPw \cup {None} /\ v \in Seed /\ (pw # None => stage = "nonDuress")
      BY <1>1, <1>3, <1>6, <2>1, ContentType DEF IInv, TypeOK, Stage
    <2>3. c = Public(at, pw)
      BY <1>1, <1>2, <1>3, <1>6, <2>1, ContentType DEF Stage
    <2>4. c.kind = "public" /\ c.seed = v /\ c.seedPw = pw /\ ~Opens(c)
      BY <2>1, <2>3 DEF Public, Opens
    <2>5. StoreOfFiles' = StoreOfFiles
      BY <1>3, <2>4, FillAdds
    <2>6. PublicOfFiles' = PublicOfFiles \cup {[name |-> f, wallet |-> v, seedPw |-> pw]}
      BY <1>3, <2>4, FillAdds
    <2>7. /\ \E k \in StoreOfFiles : k.wallet = v
          /\ pw # None => \E e \in PublicOfFiles : e.wallet = v /\ e.seedPw = None
      BY <1>1, <1>6, <2>1, <2>2, ExportsAreBacked
    <2>8. Store!Publish(f, v, pw)
      BY <1>4, <2>5, <2>6, <2>7 DEF Store!Publish, StoreOfFiles, PublicOfFiles, KeptFiles,
           ExportedFiles, KeptEntry, ExportEntry
    <2> QED BY <1>3, <2>2, <2>8 DEF Store!Next
  <1> QED BY <1>5, <1>6

\* No other step loses anything complete or adds a wallet or an export.
LEMMA OthersAreQuiet ==
    ASSUME IInv, [Next]_vars, ~Write
    PROVE  Keeps /\ AddsNone
  <1>1. TypedDisk /\ TypedMemory
    BY TypesOfBoth DEF IInv
  <1>2. ASSUME NEW f \in Names, NEW k \in {"partial", "foreign"},
               f \notin DOMAIN disk, disk' = Put(f, [kind |-> k])
        PROVE  Keeps /\ AddsNone
    BY <1>1, <1>2, AddedFile
  <1>3. CASE disk' = disk
    BY <1>1, <1>3, SameDisk
  <1>4. CASE Start
    <2>1. CASE Wallets # {} /\ ~Exists(WalletPath(1))
               /\ disk' = Put(WalletPath(1), [kind |-> "partial"])
      <3>1. 1 \in Wallets /\ "wallet" \in Stage
        BY <1>1, <2>1, RequestFacts DEF TypedMemory, Stage
      <3>2. WalletPath(1) \in Names /\ WalletPath(1) \notin DOMAIN disk
        BY <1>1, <2>1, <3>1, RequestFacts DEF TypedMemory, Exists
      <3> QED BY <1>2, <2>1, <3>2
    <2> QED BY <1>3, <1>4, <2>1 DEF Start
  <1>5. CASE RemoveTest
    <2>1. WalletPath(1) \in DOMAIN disk /\ disk[WalletPath(1)].kind = "partial"
      BY <1>5 DEF RemoveTest, IInv, PartialInv, Exists
    <2> QED BY <1>1, <1>5, <2>1, RemovedFile DEF RemoveTest
  <1>6. CASE Create
    <2>1. at \in Wallets /\ stage \in Stage
      BY <1>1, <1>6, RequestFacts DEF Create, TypedMemory, AllSaved
    <2>2. PathOf(stage, at) \in Names
      BY <1>1, <2>1, RequestFacts DEF TypedMemory
    <2>3. \/ disk' = disk
          \/ /\ PathOf(stage, at) \notin DOMAIN disk
             /\ disk' = Put(PathOf(stage, at), [kind |-> "partial"])
      BY <1>6 DEF Create, CreateNew, Exists
    <2> QED BY <1>2, <1>3, <2>2, <2>3
  <1>7. ASSUME NEW f \in Outputs(req), Damage(f) PROVE Keeps /\ AddsNone
    BY <1>1, <1>7, DamagedDisk
  <1>8. ASSUME NEW f \in Outputs(req), Occupy(f) PROVE Keeps /\ AddsNone
    <2>1. f \in Names /\ f \notin DOMAIN disk /\ disk' = Put(f, [kind |-> "foreign"])
      BY <1>1, <1>8, RequestFacts DEF TypedMemory, Occupy, Exists
    <2> QED BY <1>2, <2>1
  <1>9. ASSUME \/ AskPasswords \/ DeriveAndEncrypt \/ Saved \/ ReadBack
               \/ ConfirmNonDuressPassword \/ Crash \/ Failure
               \/ \E k \in Drawing : Draw(k) \/ Drawn(k)
               \/ UNCHANGED vars
        PROVE  disk' = disk
    BY <1>9 DEF AskPasswords, DeriveAndEncrypt, Saved, ReadBack, ConfirmNonDuressPassword,
         Crash, Failure, Draw, Drawn, vars
  <1> QED BY <1>3, <1>4, <1>5, <1>6, <1>7, <1>8, <1>9 DEF Next

\* A batch implements the cold store of the single commands: wherever it is cut
\* short and whatever it meets on disk, every step adds a wallet under an unused
\* name, adds an export of a wallet that is kept (the decoy's before the hidden
\* one's), or changes nothing that is kept or exported.
THEOREM BatchIsColdStore == Spec => ImplementsColdStore
  <1>1. Init => Store!Init
    BY DEF Init, Store!Init
  <1>2. IInv /\ [Next]_vars => [Store!Next]_(Store!vars)
    <2>1. SUFFICES ASSUME IInv, [Next]_vars PROVE [Store!Next]_(Store!vars)
      OBVIOUS
    <2>2. CASE Write
      BY <2>1, <2>2, WriteImplements
    <2>3. CASE ~Write
      <3>1. StoreOfFiles' = StoreOfFiles /\ PublicOfFiles' = PublicOfFiles
        BY <2>1, <2>3, OthersAreQuiet, QuietIsStutter
      <3> QED BY <3>1 DEF Store!vars, StoreOfFiles, PublicOfFiles, KeptFiles,
                ExportedFiles, KeptEntry, ExportEntry
    <2> QED BY <2>2, <2>3
  <1> QED BY <1>1, <1>2, AlwaysIInv, PTL DEF Spec, ImplementsColdStore, Store!Spec
=============================================================================
