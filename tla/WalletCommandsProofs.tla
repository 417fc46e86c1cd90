------------------------ MODULE WalletCommandsProofs ------------------------
(***************************************************************************)
(* What the wallet commands guarantee for any number of invocations, any   *)
(* command lines and any number of faults: first of the files, then of what *)
(* is there once a command has ended, and that together they implement      *)
(* ColdStore.                                                              *)
(***************************************************************************)
EXTENDS WalletCommands, TLAPS

USE DEF Goto

\* What create_file does to a directory: one name is added or filled.
LEMMA PutFacts ==
    ASSUME NEW f, NEW c
    PROVE  /\ DOMAIN Put(f, c) = DOMAIN disk \cup {f}
           /\ Put(f, c)[f] = c
           /\ \A g \in DOMAIN disk : g # f => Put(f, c)[g] = disk[g]
  BY DEF Put

\* A file of a legal content put under a name in use leaves a legal directory.
LEMMA PutType ==
    ASSUME disk \in [DOMAIN disk -> Content], NEW f, NEW c \in Content
    PROVE  Put(f, c) \in [DOMAIN Put(f, c) -> Content]
  BY DEF Put

\* Default names are paths.
LEMMA DerivedPaths ==
    ASSUME NEW f \in Path
    PROVE  /\ from_input_to_reencoded(f) \in Path
           /\ from_wallet_to_public_info_json_path(f) \in Path
  <1>1. f.stem \in Seq(Mark)
    BY DEF Path
  <1>2. Append(f.stem, "_reencoded") \in Seq(Mark) /\ Append(f.stem, "_pub") \in Seq(Mark)
    BY <1>1 DEF Mark
  <1>3. "" \in Extension /\ "json" \in Extension
    BY DEF Extension
  <1> QED BY <1>2, <1>3
          DEF from_input_to_reencoded, REENCODED_FILE_SUFFIX,
              from_wallet_to_public_info_json_path, PUB_FILE_SUFFIX,
              extend_base_name_with_suffix, Path

\* The names an invocation resolves its command line to are paths in Names.
LEMMA ResolvedNames ==
    ASSUME NEW p \in Proc, NEW r \in Requests[p]
    PROVE  /\ r \in Request
           /\ WellFormed(r)
           /\ r.cmd # "export" => WalletPath(r) \in Names
           /\ PublicPath(r) # None => PublicPath(r) \in Names
           /\ NonDuressPath(r) # None => NonDuressPath(r) \in Names
           /\ r.cmd = "export" => PublicPath(r) # None
  <1>1. r \in Request /\ WellFormed(r)
    BY RequestAssumption
  <1>2. OutputNames(r) \subseteq Names
    BY DEF Names
  <1>3. r.cmd # "export" => WalletPath(r) # None
    <2>1. CASE r.out # Default
      BY <1>1, <2>1, ConstantAssumption DEF WalletPath, WellFormed, Request
    <2>2. CASE r.out = Default /\ r.cmd = "reencode"
      <3>1. r.in \in Path
        BY <1>1, <2>2 DEF WellFormed
      <3>2. from_input_to_reencoded(r.in) \in Path
        BY <3>1, DerivedPaths
      <3>3. WalletPath(r) \in Path
        BY <2>2, <3>2 DEF WalletPath
      <3> QED BY <3>3, ConstantAssumption
    <2>3. CASE r.out = Default /\ r.cmd = "generate"
      BY <1>1, <2>3, ConstantAssumption DEF WellFormed
    <2> QED BY <1>1, <2>1, <2>2, <2>3 DEF Request
  <1>4. r.cmd = "export" => PublicPath(r) # None
    <2>1. CASE r.pub # Default
      BY <1>1, <2>1 DEF PublicPath, WellFormed
    <2>2. CASE r.cmd = "export" /\ r.pub = Default
      <3>1. from_wallet_to_public_info_json_path(r.in) \in Path
        BY <1>1, <2>2, DerivedPaths DEF WellFormed
      <3> QED BY <2>2, <3>1, ConstantAssumption DEF PublicPath
    <2> QED BY <2>1, <2>2
  <1> QED BY <1>1, <1>2, <1>3, <1>4 DEF OutputNames

\* What a file of each kind holds.
LEMMA ContentFacts ==
    ASSUME NEW c \in Content
    PROVE  /\ c.kind = "wallet" => c \in WalletFile
           /\ c.kind = "public" => c \in PublicFile
           /\ c.kind = "partial" => c \in PartialFile
           /\ c.kind = "damaged" => c \in DamagedFile
  BY DEF Content, WalletFile, PublicFile, PartialFile, DamagedFile

\* Reencode keeps a wallet a wallet, and generate makes one.
LEMMA SealedWalletType ==
    ASSUME NEW p \in Proc, NEW r \in Request, NEW w,
           r.cmd # "generate" => w \in Wallet
    PROVE  SealedWallet(r, w) \in Wallet
  BY DEF SealedWallet, Wallet, Request

TypeInv == TypeOK /\ MemoryInv

\* The types hold when no command has started.
LEMMA InitTypeInv == Init => TypeInv
  <1> SUFFICES ASSUME Init PROVE TypeInv
    OBVIOUS
  <1>1. disk \in [DOMAIN disk -> Content] /\ DOMAIN disk \subseteq Names
    BY DEF Init, EmptyDirectory
  <1>2. req \in [Proc -> Request] /\ \A p \in Proc : req[p] \in Requests[p]
    BY RequestAssumption DEF Init
  <1>3. faults \in 0..MaxFaults
    BY ConstantAssumption DEF Init
  <1>4. TypeOK
    BY <1>1, <1>2, <1>3 DEF Init, TypeOK, Phase
  <1>5. MemoryInv
    BY DEF Init, MemoryInv, Sealing, Exporting
  <1> QED BY <1>4, <1>5 DEF TypeInv

\* A step that only moves one invocation on keeps the types.
LEMMA GotoType ==
    ASSUME TypeOK, NEW p \in Proc, NEW l \in Phase, Goto(p, l)
    PROVE  /\ pc' \in [Proc -> Phase]
           /\ pc'[p] = l
           /\ \A q \in Proc : q # p => pc'[q] = pc[q]
  BY DEF TypeOK

\* The command line of an invocation is a legal one.
LEMMA RequestFacts ==
    ASSUME TypeOK, NEW p \in Proc
    PROVE  /\ req[p] \in Request
           /\ WellFormed(req[p])
           /\ req[p].cmd # "export" => WalletPath(req[p]) \in Names
           /\ PublicPath(req[p]) # None => PublicPath(req[p]) \in Names
           /\ NonDuressPath(req[p]) # None => NonDuressPath(req[p]) \in Names
           /\ req[p].cmd = "export" => PublicPath(req[p]) # None
  BY ResolvedNames DEF TypeOK

\* create_file puts legal contents under legal names.
LEMMA PutTypeOK ==
    ASSUME TypeOK, NEW f \in Names, NEW c \in Content, disk' = Put(f, c)
    PROVE  DOMAIN disk' \subseteq Names /\ disk' \in [DOMAIN disk' -> Content]
  <1>1. disk \in [DOMAIN disk -> Content] /\ DOMAIN disk \subseteq Names
    BY DEF TypeOK
  <1>2. Put(f, c) \in [DOMAIN Put(f, c) -> Content]
    BY <1>1, PutType
  <1>3. DOMAIN Put(f, c) = DOMAIN disk \cup {f}
    BY PutFacts
  <1> QED BY <1>1, <1>2, <1>3

\* Creating a file, or finding its name taken, keeps the types.
LEMMA CreateNewType ==
    ASSUME TypeOK, NEW p \in Proc, NEW f \in Names, NEW l \in Phase,
           CreateNew(p, f, l)
    PROVE  /\ DOMAIN disk' \subseteq Names /\ disk' \in [DOMAIN disk' -> Content]
           /\ pc' \in [Proc -> Phase]
           /\ pc'[p] \in {l, "failed"}
           /\ \A q \in Proc : q # p => pc'[q] = pc[q]
  <1>1. [kind |-> "partial", by |-> p] \in Content
    BY DEF Content, PartialFile
  <1>2. CASE TruncateAndOpen(p, f, l)
    BY <1>1, <1>2, PutTypeOK, GotoType DEF TruncateAndOpen
  <1>3. CASE Goto(p, "failed") /\ UNCHANGED disk
    BY <1>3, GotoType DEF TypeOK, Phase, Ended
  <1> QED BY <1>2, <1>3 DEF CreateNew

\* The steps of an invocation keep the types.
LEMMA StepTypeInv ==
    ASSUME TypeInv, NEW p \in Proc, Step(p)
    PROVE  TypeInv'
  <1> USE DEF TypeInv
  <1> DEFINE r == req[p]
  <1>0. TypeOK /\ MemoryInv /\ r \in Request /\ WellFormed(r)
    BY RequestFacts
  <1>1. CASE Parse(p)
    <2>1. TypeOK'
      BY <1>0, <1>1 DEF Parse, TypeOK, memory, Phase, Ended
    <2>2. MemoryInv'
      BY <1>0, <1>1 DEF Parse, TypeOK, MemoryInv, memory, Sealing, Exporting, Request
    <2> QED BY <2>1, <2>2
  <1>2. CASE Unlock(p)
    <2>1. Opens(disk[r.in], r.sig, r.creds) /\ Exists(r.in) => disk[r.in].wallet \in Wallet
      BY <1>0, ContentFacts DEF Opens, TypeOK, Exists, WalletFile, PublicFile
    <2>2. TypeOK'
      BY <1>0, <1>2, <2>1 DEF Unlock, TypeOK, Phase, Ended
    <2>3. MemoryInv'
      BY <1>0, <1>2, <2>1 DEF Unlock, TypeOK, MemoryInv, Sealing, Exporting, Request
    <2> QED BY <2>2, <2>3
  <1>3. CASE ResolveNonDuress(p)
    <2>1. TypeOK'
      BY <1>0, <1>3 DEF ResolveNonDuress, TypeOK, Export, Phase, Ended
    <2>2. r.cmd = "export" => PublicPath(r) # None
      BY <1>0, RequestFacts
    <2>3. MemoryInv'
      BY <1>0, <1>3, <2>2 DEF ResolveNonDuress, TypeOK, MemoryInv, Export, Sealing,
           Exporting, Request
    <2> QED BY <2>1, <2>3
  <1>4. CASE DeriveKey(p)
    <2>1. SealingCreds(r) \in Creds
      BY <1>0 DEF SealingCreds, Request
    <2>2. TypeOK' /\ key'[p] \in Key
      BY <1>0, <1>4, <2>1, ConstantAssumption DEF DeriveKey, TypeOK, Key, Phase, Ended
    <2>3. MemoryInv'
      BY <1>0, <1>4, <2>2 DEF DeriveKey, TypeOK, MemoryInv, Sealing, Exporting
    <2> QED BY <2>2, <2>3
  <1>5. CASE CreateWallet(p)
    <2>1. WalletPath(r) \in Names
      BY <1>0, <1>5, RequestFacts DEF CreateWallet, MemoryInv, Sealing
    <2>2. TypeOK' /\ pc'[p] \in {"writeWallet", "failed"}
      BY <1>0, <1>5, <2>1, CreateNewType DEF CreateWallet, TypeOK, memory, Phase, Writing
    <2>3. MemoryInv'
      BY <1>0, <1>5, <2>1, <2>2, CreateNewType
      DEF CreateWallet, MemoryInv, memory, Sealing, Exporting, Phase, Writing
    <2> QED BY <2>2, <2>3
  <1>6. CASE WriteWallet(p)
    <2>1. WalletPath(r) \in Names /\ key[p] \in Key /\ SealedWallet(r, opened[p]) \in Wallet
      BY <1>0, <1>6, RequestFacts, SealedWalletType
      DEF WriteWallet, MemoryInv, Sealing, Request
    <2>2. [kind |-> "wallet", by |-> p, key |-> key[p],
           wallet |-> SealedWallet(r, opened[p])] \in Content
      BY <2>1 DEF Content, WalletFile
    <2>3. TypeOK'
      BY <1>0, <1>6, <2>1, <2>2, PutTypeOK DEF WriteWallet, TypeOK, memory, Phase
    <2>4. MemoryInv'
      BY <1>0, <1>6 DEF WriteWallet, TypeOK, MemoryInv, memory, Sealing, Exporting
    <2> QED BY <2>3, <2>4
  <1>7. CASE VerifyWallet(p)
    <2> DEFINE c == disk[WalletPath(r)]
    <2>1. Exists(WalletPath(r)) /\ Verified(p, c) => c.wallet \in Wallet
      BY <1>0, ContentFacts DEF Verified, TypeOK, Exists, WalletFile
    <2>2. TypeOK'
      BY <1>0, <1>7, <2>1 DEF VerifyWallet, TypeOK, Export, Phase, Ended
    <2>3. MemoryInv'
      BY <1>0, <1>7, <2>1 DEF VerifyWallet, TypeOK, MemoryInv, Export, Sealing, Exporting
    <2> QED BY <2>2, <2>3
  <1>8. CASE ConfirmNonDuressPassword(p)
    <2>1. TypeOK'
      BY <1>0, <1>8 DEF ConfirmNonDuressPassword, TypeOK, memory, Phase, Ended
    <2>2. MemoryInv'
      BY <1>0, <1>8 DEF ConfirmNonDuressPassword, TypeOK, MemoryInv, memory, Sealing, Exporting
    <2> QED BY <2>1, <2>2
  <1>9. CASE CreatePublic(p)
    <2>1. PublicPath(r) \in Names
      BY <1>0, <1>9, RequestFacts DEF CreatePublic, MemoryInv, Exporting
    <2>2. TypeOK' /\ pc'[p] \in {"writePublic", "failed"}
      BY <1>0, <1>9, <2>1, CreateNewType DEF CreatePublic, TypeOK, memory, Phase, Writing
    <2>3. MemoryInv'
      BY <1>0, <1>9, <2>1, <2>2, CreateNewType
      DEF CreatePublic, MemoryInv, memory, Sealing, Exporting, Phase, Writing
    <2> QED BY <2>2, <2>3
  <1>10. CASE WritePublic(p)
    <2>1. PublicPath(r) \in Names /\ opened[p] \in Wallet
      BY <1>0, <1>10, RequestFacts DEF WritePublic, MemoryInv, Exporting
    <2>2. [kind |-> "public", by |-> p, wallet |-> opened[p], seedPw |-> None] \in Content
      BY <2>1 DEF Content, PublicFile
    <2>3. TypeOK'
      BY <1>0, <1>10, <2>1, <2>2, PutTypeOK
      DEF WritePublic, TypeOK, memory, AfterPublic, Phase, Ended
    <2>4. MemoryInv'
      BY <1>0, <1>10 DEF WritePublic, TypeOK, MemoryInv, memory, AfterPublic, Sealing, Exporting
    <2> QED BY <2>3, <2>4
  <1>11. CASE CreateNonDuress(p)
    <2>1. NonDuressPath(r) \in Names
      BY <1>0, <1>11, RequestFacts DEF CreateNonDuress, MemoryInv
    <2>2. TypeOK' /\ pc'[p] \in {"writeNonDuress", "failed"}
      BY <1>0, <1>11, <2>1, CreateNewType DEF CreateNonDuress, TypeOK, memory, Phase, Writing
    <2>3. MemoryInv'
      BY <1>0, <1>11, <2>1, <2>2, CreateNewType
      DEF CreateNonDuress, MemoryInv, memory, Sealing, Exporting, Phase, Writing
    <2> QED BY <2>2, <2>3
  <1>12. CASE WriteNonDuress(p)
    <2>1. NonDuressPath(r) \in Names /\ opened[p] \in Wallet
      BY <1>0, <1>12, RequestFacts DEF WriteNonDuress, MemoryInv, Exporting
    <2>2. [kind |-> "public", by |-> p, wallet |-> opened[p], seedPw |-> typed[p]] \in Content
      BY <1>0, <2>1 DEF Content, PublicFile, TypeOK
    <2>3. TypeOK'
      BY <1>0, <1>12, <2>1, <2>2, PutTypeOK DEF WriteNonDuress, TypeOK, memory, Phase, Ended
    <2>4. MemoryInv'
      BY <1>0, <1>12 DEF WriteNonDuress, TypeOK, MemoryInv, memory, Sealing, Exporting
    <2> QED BY <2>3, <2>4
  <1> QED BY <1>1, <1>2, <1>3, <1>4, <1>5, <1>6, <1>7, <1>8, <1>9, <1>10, <1>11, <1>12
          DEF Step

\* Crashes, errors and damage keep the types.
LEMMA FaultTypeInv ==
    ASSUME TypeInv,
           \/ \E p \in Proc : Crash(p) \/ IoError(p)
           \/ \E f \in DOMAIN disk : Damage(f)
    PROVE  TypeInv'
  <1> USE DEF TypeInv
  <1>1. ASSUME NEW p \in Proc, Crash(p) \/ IoError(p) PROVE TypeInv'
    <2>1. TypeOK'
      BY <1>1, ConstantAssumption DEF Crash, IoError, TypeOK, memory, Phase, Ended
    <2>2. MemoryInv'
      BY <1>1 DEF Crash, IoError, TypeOK, MemoryInv, memory, Sealing, Exporting
    <2> QED BY <2>1, <2>2
  <1>2. ASSUME NEW f \in DOMAIN disk, Damage(f) PROVE TypeInv'
    <2>1. f \in Names /\ disk[f] \in WalletFile \cup PublicFile
      BY <1>2, ContentFacts DEF Damage, TypeOK
    <2>2. [kind |-> "damaged", was |-> disk[f]] \in Content
      BY <2>1 DEF Content, DamagedFile
    <2>3. TypeOK'
      BY <1>2, <2>1, <2>2, PutTypeOK, ConstantAssumption DEF Damage, TypeOK, memory
    <2>4. MemoryInv'
      BY <1>2 DEF Damage, MemoryInv, memory
    <2> QED BY <2>3, <2>4
  <1> QED BY <1>1, <1>2

\* Every step keeps the types.
LEMMA NextTypeInv ==
    ASSUME TypeInv, [Next]_vars
    PROVE  TypeInv'
  <1>1. CASE Next
    BY <1>1, StepTypeInv, FaultTypeInv DEF Next
  <1>2. CASE UNCHANGED vars
    BY <1>2 DEF vars, TypeInv, TypeOK, MemoryInv
  <1> QED BY <1>1, <1>2

\* Every reachable state is well typed: files have legal names and contents, and
\* what an invocation holds in memory fits its phase and its command line.
THEOREM TypeCorrect == Spec => []TypeOK
  <1>1. TypeInv /\ [Next]_vars => TypeInv'
    BY NextTypeInv
  <1>2. TypeInv => TypeOK
    BY DEF TypeInv
  <1> QED BY InitTypeInv, <1>1, <1>2, PTL DEF Spec

(***************************************************************************)
(* No file is written twice.                                               *)
(***************************************************************************)

\* What one step of an invocation does to the files that were there: it fills
\* the one it created and leaves the others alone.
FilledBy(p, g) ==
    /\ disk[g] = [kind |-> "partial", by |-> p]
    /\ pc[p] \in Writing
    /\ disk'[g].kind \in {"wallet", "public"}
    /\ disk'[g].by = p

FilesKept(p) ==
    \A g \in DOMAIN disk :
        g \in DOMAIN disk' /\ (disk'[g] # disk[g] => FilledBy(p, g))

\* Creating a file, or finding its name taken, replaces none.
LEMMA CreateNewFiles ==
    ASSUME TypeOK, NEW p \in Proc, NEW f, NEW l, l # "failed", CreateNew(p, f, l)
    PROVE  /\ FilesKept(p)
           /\ pc'[p] \in {l, "failed"}
           /\ pc'[p] = l =>
                 f \in DOMAIN disk' /\ disk'[f] = [kind |-> "partial", by |-> p]
  <1>0. pc'[p] \in {l, "failed"}
    BY DEF CreateNew, TruncateAndOpen, TypeOK
  <1>1. CASE f \notin DOMAIN disk /\ disk' = Put(f, [kind |-> "partial", by |-> p])
    BY <1>0, <1>1 DEF FilesKept, Put, FilledBy
  <1>2. CASE UNCHANGED disk /\ pc'[p] = "failed"
    BY <1>0, <1>2 DEF FilesKept
  <1> QED BY <1>1, <1>2 DEF CreateNew, TruncateAndOpen, Exists, TypeOK

\* Completing a file changes no other.
LEMMA FillFiles ==
    ASSUME NEW p, NEW f, NEW c, pc[p] \in Writing,
           disk[f] = [kind |-> "partial", by |-> p],
           disk' = Put(f, c), c.kind \in {"wallet", "public"}, c.by = p
    PROVE  FilesKept(p)
  BY DEF FilesKept, FilledBy, Put

\* What a step of an invocation does to the files.
LEMMA StepFiles ==
    ASSUME TypeInv, WriterInv, NEW p \in Proc, Step(p)
    PROVE  /\ FilesKept(p)
           /\ pc'[p] \in Writing =>
                 /\ Target(p)' \in DOMAIN disk'
                 /\ disk'[Target(p)'] = [kind |-> "partial", by |-> p]
  <1>0. TypeOK
    BY DEF TypeInv
  <1>1. ASSUME Parse(p) \/ Unlock(p) \/ ResolveNonDuress(p) \/ DeriveKey(p)
               \/ VerifyWallet(p) \/ ConfirmNonDuressPassword(p)
        PROVE  FilesKept(p) /\ pc'[p] \notin Writing
    <2>1. UNCHANGED disk
      BY <1>1 DEF Parse, Unlock, ResolveNonDuress, DeriveKey, VerifyWallet,
           ConfirmNonDuressPassword
    <2>2. pc'[p] \notin Writing
      BY <1>0, <1>1 DEF Parse, Unlock, ResolveNonDuress, DeriveKey, VerifyWallet,
           ConfirmNonDuressPassword, Export, TypeOK, Writing
    <2> QED BY <2>1, <2>2 DEF FilesKept
  <1>2. CASE CreateWallet(p)
    BY <1>0, <1>2, CreateNewFiles DEF CreateWallet, memory, Target, Writing
  <1>3. CASE CreatePublic(p)
    BY <1>0, <1>3, CreateNewFiles DEF CreatePublic, memory, Target, Writing
  <1>4. CASE CreateNonDuress(p)
    BY <1>0, <1>4, CreateNewFiles DEF CreateNonDuress, memory, Target, Writing
  <1>5. CASE WriteWallet(p)
    <2>1. pc[p] \in Writing /\ disk[WalletPath(req[p])] = [kind |-> "partial", by |-> p]
      BY <1>5 DEF WriteWallet, WriterInv, Target, Writing
    <2>2. FilesKept(p)
      BY <1>5, <2>1, FillFiles DEF WriteWallet
    <2>3. pc'[p] \notin Writing
      BY <1>0, <1>5 DEF WriteWallet, TypeOK, Writing
    <2> QED BY <2>2, <2>3
  <1>6. CASE WritePublic(p)
    <2>1. pc[p] \in Writing /\ disk[PublicPath(req[p])] = [kind |-> "partial", by |-> p]
      BY <1>6 DEF WritePublic, WriterInv, Target, Writing
    <2>2. FilesKept(p)
      BY <1>6, <2>1, FillFiles DEF WritePublic
    <2>3. pc'[p] \notin Writing
      BY <1>0, <1>6 DEF WritePublic, AfterPublic, TypeOK, Writing
    <2> QED BY <2>2, <2>3
  <1>7. CASE WriteNonDuress(p)
    <2>1. pc[p] \in Writing /\ disk[NonDuressPath(req[p])] = [kind |-> "partial", by |-> p]
      BY <1>7 DEF WriteNonDuress, WriterInv, Target, Writing
    <2>2. FilesKept(p)
      BY <1>7, <2>1, FillFiles DEF WriteNonDuress
    <2>3. pc'[p] \notin Writing
      BY <1>0, <1>7 DEF WriteNonDuress, TypeOK, Writing
    <2> QED BY <2>2, <2>3
  <1> QED BY <1>1, <1>2, <1>3, <1>4, <1>5, <1>6, <1>7 DEF Step

\* A step of one invocation leaves the rest of the system where it is.
LEMMA StepOthers ==
    ASSUME TypeOK, NEW p \in Proc, Step(p) \/ Crash(p) \/ IoError(p),
           NEW q \in Proc, q # p
    PROVE  pc'[q] = pc[q] /\ req' = req /\ typed'[q] = typed[q]
           /\ key'[q] = key[q] /\ opened'[q] = opened[q]
  BY DEF Step, Parse, Unlock, ResolveNonDuress, DeriveKey, CreateWallet, WriteWallet,
     VerifyWallet, ConfirmNonDuressPassword, CreatePublic, WritePublic, CreateNonDuress,
     WriteNonDuress, Crash, IoError, CreateNew, TruncateAndOpen, memory, TypeOK

\* Every step keeps what is known of the files being written.
LEMMA NextWriterInv ==
    ASSUME TypeInv, WriterInv, [Next]_vars
    PROVE  WriterInv'
  <1>0. TypeOK
    BY DEF TypeInv
  <1>1. ASSUME NEW p \in Proc, Step(p) PROVE WriterInv'
    <2> SUFFICES ASSUME NEW q \in Proc, pc'[q] \in Writing
                 PROVE  /\ Target(q)' \in DOMAIN disk'
                        /\ disk'[Target(q)'] = [kind |-> "partial", by |-> q]
      BY DEF WriterInv, Exists
    <2>1. CASE q = p
      BY <1>1, <2>1, StepFiles
    <2>2. CASE q # p
      <3>1. pc'[q] = pc[q] /\ req' = req
        BY <1>0, <1>1, <2>2, StepOthers
      <3>2. Target(q)' = Target(q)
        BY <3>1 DEF Target
      <3>3. Target(q) \in DOMAIN disk /\ disk[Target(q)] = [kind |-> "partial", by |-> q]
        BY <3>1 DEF WriterInv, Exists
      <3>4. ~FilledBy(p, Target(q))
        BY <2>2, <3>3 DEF FilledBy
      <3> QED BY <1>1, <3>2, <3>3, <3>4, StepFiles DEF FilesKept
    <2> QED BY <2>1, <2>2
  <1>2. ASSUME NEW p \in Proc, Crash(p) \/ IoError(p) PROVE WriterInv'
    <2>1. disk' = disk /\ req' = req /\ pc'[p] \notin Writing
          /\ \A q \in Proc : q # p => pc'[q] = pc[q]
      BY <1>0, <1>2 DEF Crash, IoError, memory, TypeOK, Writing
    <2> QED BY <2>1 DEF WriterInv, Target, Exists
  <1>3. ASSUME NEW f \in DOMAIN disk, Damage(f) PROVE WriterInv'
    <2>1. pc' = pc /\ req' = req
      BY <1>3 DEF Damage, memory
    <2>2. \A g \in DOMAIN disk : g \in DOMAIN disk' /\ (g # f => disk'[g] = disk[g])
      BY <1>3 DEF Damage, Put
    <2>3. \A q : disk[f] # [kind |-> "partial", by |-> q]
      BY <1>3 DEF Damage
    <2> QED BY <2>1, <2>2, <2>3 DEF WriterInv, Target, Exists
  <1>4. CASE UNCHANGED vars
    BY <1>4 DEF vars, WriterInv, Target, Exists
  <1> QED BY <1>1, <1>2, <1>3, <1>4 DEF Next

\* Types and the files being written are always right.
LEMMA InvariantTyped == Spec => [](TypeInv /\ WriterInv)
  <1>1. Init => TypeInv /\ WriterInv
    BY InitTypeInv DEF Init, WriterInv, Writing
  <1>2. TypeInv /\ WriterInv /\ [Next]_vars => (TypeInv /\ WriterInv)'
    BY NextTypeInv, NextWriterInv
  <1> QED BY <1>1, <1>2, PTL DEF Spec

\* No invocation ever truncates, replaces or completes a file another one made,
\* however stale what it saw of the directory: only the creator of a file fills
\* it, once.
THEOREM FilesWrittenOnce == Spec => WriteOnce
  <1>1. ASSUME TypeInv, WriterInv, [Next]_vars PROVE [WriteOnceStep]_vars
    <2>1. ASSUME NEW p \in Proc, Step(p) PROVE WriteOnceStep
      <3> SUFFICES ASSUME NEW g \in DOMAIN disk
                   PROVE  /\ g \in DOMAIN disk'
                          /\ disk'[g] # disk[g] =>
                               /\ disk[g] = [kind |-> "partial", by |-> p]
                               /\ pc[p] \in Writing
                               /\ Intact(disk'[g]).by = p
        BY DEF WriteOnceStep
      <3>1. g \in DOMAIN disk' /\ (disk'[g] # disk[g] => FilledBy(p, g))
        BY <1>1, <2>1, StepFiles DEF FilesKept
      <3> QED BY <3>1 DEF FilledBy, Intact
    <2>2. ASSUME NEW p \in Proc, Crash(p) \/ IoError(p) PROVE WriteOnceStep
      BY <2>2 DEF Crash, IoError, WriteOnceStep
    <2>3. ASSUME NEW f \in DOMAIN disk, Damage(f) PROVE WriteOnceStep
      <3>1. disk' = Put(f, [kind |-> "damaged", was |-> disk[f]])
        BY <2>3 DEF Damage
      <3>2. Intact(disk'[f]) = disk[f]
        BY <3>1 DEF Intact, Put
      <3> QED BY <3>1, <3>2 DEF WriteOnceStep, Put
    <2> QED BY <1>1, <2>1, <2>2, <2>3 DEF Next
  <1> QED BY <1>1, InvariantTyped, PTL DEF Spec, WriteOnce

(***************************************************************************)
(* A public export of generate is never without its wallet.                *)
(***************************************************************************)

\* What a whole file says does not change any more, damage being undone.
LEMMA WholeFilesKept ==
    ASSUME TypeInv, WriterInv, [Next]_vars,
           NEW g \in DOMAIN disk, disk[g].kind # "partial"
    PROVE  g \in DOMAIN disk' /\ Intact(disk'[g]) = Intact(disk[g])
  <1>1. ASSUME NEW p \in Proc, Step(p)
        PROVE  g \in DOMAIN disk' /\ Intact(disk'[g]) = Intact(disk[g])
    <2>1. ~FilledBy(p, g)
      BY DEF FilledBy
    <2> QED BY <1>1, <2>1, StepFiles DEF FilesKept
  <1>2. ASSUME NEW p \in Proc, Crash(p) \/ IoError(p)
        PROVE  g \in DOMAIN disk' /\ Intact(disk'[g]) = Intact(disk[g])
    BY <1>2 DEF Crash, IoError
  <1>3. ASSUME NEW f \in DOMAIN disk, Damage(f)
        PROVE  g \in DOMAIN disk' /\ Intact(disk'[g]) = Intact(disk[g])
    BY <1>3 DEF Damage, Put, Intact
  <1>4. CASE UNCHANGED vars
    BY <1>4 DEF vars
  <1> QED BY <1>1, <1>2, <1>3, <1>4 DEF Next

\* A public export is there already or the step writes it, for what its writer
\* holds in memory.
LEMMA NewExports ==
    ASSUME TypeInv, WriterInv, [Next]_vars, NEW g \in DOMAIN disk', IsPublic(disk'[g])
    PROVE  \/ g \in DOMAIN disk /\ IsPublic(disk[g]) /\ Intact(disk'[g]) = Intact(disk[g])
           \/ \E p \in Proc :
                 /\ WritePublic(p) \/ WriteNonDuress(p)
                 /\ Intact(disk'[g]).by = p
                 /\ Intact(disk'[g]).wallet = opened[p]
  <1> DEFINE Old == g \in DOMAIN disk /\ IsPublic(disk[g])
                    /\ Intact(disk'[g]) = Intact(disk[g])
  <1>1. CASE disk' = disk
    BY <1>1
  <1>2. ASSUME NEW p \in Proc, CreateWallet(p) \/ CreatePublic(p) \/ CreateNonDuress(p)
        PROVE  Old
    <2>1. \/ disk' = disk
          \/ \E f : disk' = Put(f, [kind |-> "partial", by |-> p])
      BY <1>2 DEF CreateWallet, CreatePublic, CreateNonDuress, CreateNew, TruncateAndOpen
    <2>2. ASSUME NEW f, disk' = Put(f, [kind |-> "partial", by |-> p]) PROVE Old
      <3>1. g # f
        BY <2>2 DEF Put, IsPublic, Intact
      <3> QED BY <2>2, <3>1 DEF Put, IsPublic
    <2> QED BY <2>1, <2>2
  <1>3. ASSUME NEW p \in Proc, WriteWallet(p) PROVE Old
    <2>1. g # WalletPath(req[p])
      BY <1>3 DEF WriteWallet, Put, IsPublic, Intact
    <2> QED BY <1>3, <2>1 DEF WriteWallet, Put, IsPublic
  <1>4. ASSUME NEW p \in Proc, WritePublic(p)
        PROVE  \/ Old
               \/ Intact(disk'[g]).by = p /\ Intact(disk'[g]).wallet = opened[p]
    BY <1>4 DEF WritePublic, Put, IsPublic, Intact
  <1>5. ASSUME NEW p \in Proc, WriteNonDuress(p)
        PROVE  \/ Old
               \/ Intact(disk'[g]).by = p /\ Intact(disk'[g]).wallet = opened[p]
    BY <1>5 DEF WriteNonDuress, Put, IsPublic, Intact
  <1>6. ASSUME NEW f \in DOMAIN disk, Damage(f) PROVE Old
    BY <1>6 DEF Damage, Put, IsPublic, Intact
  <1>7. ASSUME NEW p \in Proc,
               \/ Parse(p) \/ Unlock(p) \/ ResolveNonDuress(p) \/ DeriveKey(p)
               \/ VerifyWallet(p) \/ ConfirmNonDuressPassword(p)
               \/ Crash(p) \/ IoError(p)
        PROVE  disk' = disk
    BY <1>7 DEF Parse, Unlock, ResolveNonDuress, DeriveKey, VerifyWallet,
         ConfirmNonDuressPassword, Crash, IoError
  <1>8. CASE UNCHANGED vars
    BY <1>1, <1>8 DEF vars
  <1> QED BY <1>1, <1>2, <1>3, <1>4, <1>5, <1>6, <1>7, <1>8 DEF Next, Step

\* Where a step takes its own invocation, as far as exports are concerned.
LEMMA StepPhases ==
    ASSUME TypeInv, NEW p \in Proc, Step(p) \/ Crash(p) \/ IoError(p)
    PROVE  /\ pc[p] \in Published => pc'[p] \in Published /\ opened'[p] = opened[p]
           /\ pc[p] \in Exporting => opened'[p] = opened[p]
           /\ pc'[p] = "verify" => WriteWallet(p)
           /\ pc'[p] \in Exporting =>
                 \/ pc[p] \in Exporting
                 \/ VerifyWallet(p)
                 \/ req[p].cmd = "export"
           /\ WritePublic(p) \/ WriteNonDuress(p) =>
                 pc[p] \in Exporting /\ pc'[p] \in Published
  <1>0. TypeOK /\ MemoryInv
    BY DEF TypeInv
  <1>1. CASE Crash(p) \/ IoError(p)
    BY <1>0, <1>1 DEF Crash, IoError, TypeOK, Published, Exporting, Ended, Writing, memory,
         WritePublic, WriteNonDuress
  <1>2. CASE Parse(p) \/ Unlock(p) \/ ResolveNonDuress(p) \/ DeriveKey(p)
    BY <1>0, <1>2 DEF Parse, Unlock, ResolveNonDuress, DeriveKey, Export, TypeOK, MemoryInv,
         Published, Exporting, Ended, memory, WritePublic, WriteNonDuress, Request
  <1>3. CASE CreateWallet(p) \/ WriteWallet(p) \/ VerifyWallet(p)
    BY <1>0, <1>3 DEF CreateWallet, WriteWallet, VerifyWallet, Export, CreateNew,
         TruncateAndOpen, TypeOK, Published, Exporting, Ended, memory, WritePublic, WriteNonDuress
  <1>4. CASE ConfirmNonDuressPassword(p) \/ CreatePublic(p) \/ CreateNonDuress(p)
    BY <1>0, <1>4 DEF ConfirmNonDuressPassword, CreatePublic, CreateNonDuress, CreateNew,
         TruncateAndOpen, TypeOK, Published, Exporting, Ended, memory, WritePublic, WriteNonDuress
  <1>5. CASE WritePublic(p) \/ WriteNonDuress(p)
    BY <1>0, <1>5 DEF WritePublic, WriteNonDuress, AfterPublic, TypeOK, Published, Exporting,
         Ended, memory
  <1> QED BY <1>1, <1>2, <1>3, <1>4, <1>5 DEF Step

\* A backed wallet stays backed as long as its invocation keeps what it read.
LEMMA BackedKept ==
    ASSUME TypeInv, WriterInv, [Next]_vars, req' = req, NEW p
    PROVE  /\ OwnWallet(p) => OwnWallet(p)'
           /\ Backed(p) /\ opened'[p] = opened[p] => Backed(p)'
  <1> DEFINE f == WalletPath(req[p])
  <1>1. ASSUME OwnWallet(p)
        PROVE  f \in DOMAIN disk' /\ Intact(disk'[f]) = Intact(disk[f])
    <2>1. f \in DOMAIN disk /\ disk[f].kind # "partial"
      BY <1>1 DEF OwnWallet, Intact, Exists
    <2> QED BY <2>1, WholeFilesKept
  <1>2. OwnWallet(p) => OwnWallet(p)'
    BY <1>1 DEF OwnWallet, Exists
  <1>3. ASSUME Backed(p), opened'[p] = opened[p] PROVE Backed(p)'
    <2>1. OwnWallet(p) /\ OwnWallet(p)'
      BY <1>2, <1>3 DEF Backed
    <2>2. Intact(disk'[f]) = Intact(disk[f])
      BY <1>1, <2>1
    <2> QED BY <1>3, <2>1, <2>2 DEF Backed
  <1> QED BY <1>2, <1>3

\* What verification establishes: the wallet on disk is the invocation's own and
\* opens under the key derived once more.
LEMMA VerifiedIsBacked ==
    ASSUME TypeInv, NEW p \in Proc, OwnWallet(p), VerifyWallet(p),
           pc'[p] \in Exporting, req[p].cmd = "generate"
    PROVE  Backed(p)'
  <1> DEFINE f == WalletPath(req[p])
             c == disk[f]
  <1>0. TypeOK
    BY DEF TypeInv
  <1>1. Verified(p, c) /\ PublicPath(req[p]) # None /\ opened'[p] = c.wallet
    BY <1>0 DEF VerifyWallet, TypeOK, Exporting
  <1>2. req[p].pub # None
    BY <1>0, <1>1, ConstantAssumption DEF PublicPath
  <1>3. Rederives(req[p])
    BY <1>2 DEF Rederives
  <1>4. c.kind = "wallet" /\ c.wallet.sig = req[p].sig
        /\ c.key = default_derive_key(SealingCreds(req[p]), c.by)
    BY <1>1, <1>3 DEF Verified, Decrypts
  <1>5. Intact(c) = c
    BY <1>4 DEF Intact
  <1>6. UNCHANGED <<disk, req>>
    BY DEF VerifyWallet
  <1> QED BY <1>1, <1>4, <1>5, <1>6 DEF Backed, OwnWallet, Exists

\* Every step keeps exports backed.
LEMMA NextBackedInv ==
    ASSUME TypeInv, WriterInv, BackedInv, [Next]_vars
    PROVE  BackedInv'
  <1>0. TypeOK /\ MemoryInv
    BY DEF TypeInv
  <1>1. req' = req
    BY <1>0, StepOthers DEF Next, vars, Step, Parse, Unlock, ResolveNonDuress, DeriveKey,
       CreateWallet, WriteWallet, VerifyWallet, ConfirmNonDuressPassword, CreatePublic,
       WritePublic, CreateNonDuress, WriteNonDuress, Crash, IoError, Damage, memory
  \* Each invocation either moved or kept its phase and its memory.
  <1>2. ASSUME NEW q \in Proc
        PROVE  \/ Step(q) \/ Crash(q) \/ IoError(q)
               \/ pc'[q] = pc[q] /\ opened'[q] = opened[q]
    <2>1. ASSUME NEW p \in Proc, Step(p) \/ Crash(p) \/ IoError(p), p # q
          PROVE  pc'[q] = pc[q] /\ opened'[q] = opened[q]
      BY <1>0, <2>1, StepOthers
    <2>2. ASSUME NEW f \in DOMAIN disk, Damage(f)
          PROVE  pc'[q] = pc[q] /\ opened'[q] = opened[q]
      BY <2>2 DEF Damage, memory
    <2> QED BY <2>1, <2>2 DEF Next, vars
  <1>3. ASSUME NEW q \in Proc, pc'[q] = "verify" PROVE OwnWallet(q)'
    <2>1. CASE WriteWallet(q)
      <3>1. disk' = Put(WalletPath(req[q]),
                        [kind |-> "wallet", by |-> q, key |-> key[q],
                         wallet |-> SealedWallet(req[q], opened[q])])
        BY <2>1 DEF WriteWallet
      <3> QED BY <1>1, <3>1 DEF OwnWallet, Exists, Put, Intact
    <2>2. CASE pc[q] = "verify"
      BY <1>1, <2>2, BackedKept DEF BackedInv
    <2> QED BY <1>2, <1>3, <2>1, <2>2, StepPhases
  <1>4. ASSUME NEW q \in Proc, pc'[q] \in Exporting, req'[q].cmd = "generate"
        PROVE  Backed(q)'
    <2>1. CASE pc[q] \in Exporting
      <3>1. Backed(q) /\ opened'[q] = opened[q]
        BY <1>1, <1>2, <1>4, <2>1, StepPhases DEF BackedInv
      <3> QED BY <1>1, <3>1, BackedKept
    <2>2. CASE VerifyWallet(q)
      <3>1. OwnWallet(q)
        BY <2>2 DEF VerifyWallet, BackedInv
      <3> QED BY <1>1, <1>4, <2>2, <3>1, VerifiedIsBacked
    <2> QED BY <1>1, <1>2, <1>4, <2>1, <2>2, StepPhases
  <1>5. ASSUME NEW g \in DOMAIN disk', IsPublic(disk'[g]),
               NEW q, q = Intact(disk'[g]).by
        PROVE  /\ pc'[q] \in Published
               /\ Intact(disk'[g]).wallet = opened'[q]
               /\ req'[q].cmd = "generate" => Backed(q)'
    <2>1. CASE g \in DOMAIN disk /\ IsPublic(disk[g]) /\ Intact(disk'[g]) = Intact(disk[g])
      <3>1. /\ pc[q] \in Published
            /\ Intact(disk[g]).wallet = opened[q]
            /\ req[q].cmd = "generate" => Backed(q)
        BY <1>5, <2>1 DEF BackedInv
      <3>2. q \in Proc
        BY <1>0, <1>5, <2>1, ContentFacts
        DEF TypeOK, IsPublic, Intact, PublicFile, DamagedFile, WalletFile, Content, PartialFile
      <3>3. pc'[q] \in Published /\ opened'[q] = opened[q]
        BY <1>2, <3>1, <3>2, StepPhases
      <3> QED BY <1>1, <2>1, <3>1, <3>3, BackedKept
    <2>2. ASSUME NEW p \in Proc, WritePublic(p) \/ WriteNonDuress(p),
                 q = p, Intact(disk'[g]).wallet = opened[p]
          PROVE  /\ pc'[p] \in Published
                 /\ Intact(disk'[g]).wallet = opened'[p]
                 /\ req'[p].cmd = "generate" => Backed(p)'
      <3>1. pc[p] \in Exporting /\ pc'[p] \in Published /\ opened'[p] = opened[p]
        BY <2>2, StepPhases DEF Step
      <3>2. req[p].cmd = "generate" => Backed(p)
        BY <3>1 DEF BackedInv
      <3> QED BY <1>1, <2>2, <3>1, <3>2, BackedKept
    <2> QED BY <1>5, <2>1, <2>2, NewExports
  <1>6. (\A f \in DOMAIN disk :
           LET e == Intact(disk[f]) IN
           IsPublic(disk[f]) =>
              /\ pc[e.by] \in Published
              /\ e.wallet = opened[e.by]
              /\ req[e.by].cmd = "generate" => Backed(e.by))'
    BY <1>5 DEF Backed, OwnWallet, Exists
  <1> QED BY <1>3, <1>4, <1>6 DEF BackedInv

\* If a public export made by generate is on disk, however the command ended, its
\* encrypted wallet is too (unless damaged since), the credentials given to
\* generate open it, and it is the exported one.
THEOREM ExportsAreBacked == Spec => []PublicInfoBacked
  <1>1. Init => BackedInv
    BY DEF Init, BackedInv, EmptyDirectory, Exporting
  <1>2. TypeInv /\ WriterInv /\ BackedInv /\ [Next]_vars => BackedInv'
    BY NextBackedInv
  <1>3. TypeInv /\ BackedInv => PublicInfoBacked
    <2> SUFFICES ASSUME TypeInv, BackedInv, NEW f \in DOMAIN disk, IsPublic(disk[f]),
                        req[Intact(disk[f]).by].cmd = "generate"
                 PROVE  LET e == Intact(disk[f])
                            r == req[e.by]
                        IN /\ Exists(r.out)
                           /\ LET w == Intact(disk[r.out]) IN
                              /\ w.kind = "wallet"
                              /\ w.by = e.by
                              /\ Opens(w, r.sig, r.creds)
                              /\ w.wallet = e.wallet
      BY DEF PublicInfoBacked
    <2> DEFINE e == Intact(disk[f])
               r == req[e.by]
    <2>1. e.by \in Proc
      BY ContentFacts DEF TypeInv, TypeOK, IsPublic, Intact, PublicFile, DamagedFile,
         WalletFile, Content, PartialFile
    <2>2. WalletPath(r) = r.out /\ SealingCreds(r) = r.creds
      BY <2>1, RequestFacts, ConstantAssumption
      DEF TypeInv, WellFormed, WalletPath, SealingCreds
    <2>3. Backed(e.by) /\ e.wallet = opened[e.by]
      BY DEF BackedInv
    <2> QED BY <2>2, <2>3 DEF Backed, OwnWallet, Opens, Decrypts
  <1> QED BY <1>1, <1>2, <1>3, InvariantTyped, PTL DEF Spec
---------------------------------------------------------------------------
(* What is there once the wallet commands have ended, and that they are an   *)
(* implementation of ColdStore.                                             *)


\* The wallet file an invocation wrote, and the file it read.
Own(p) == Intact(disk[WalletPath(req[p])])

ReadFrom(p) ==
    LET f == req[p].in
    IN  /\ Exists(f) /\ disk[f].kind # "partial"
        /\ Intact(disk[f]).wallet = opened[p]

\* The wallet an invocation was to make is there and opens.
Openable(p) ==
    LET r == req[p] IN
    /\ OwnWallet(p)
    /\ Opens(Own(p), r.sig, SealingCreds(r))
    /\ Own(p).wallet.net = r.net
    /\ r.cmd = "generate" => Own(p).wallet.secret = r.secret
    /\ r.cmd = "reencode" =>
          /\ Exists(r.in) /\ disk[r.in].kind # "partial"
          /\ Intact(disk[r.in]).wallet.secret = Own(p).wallet.secret

\* From the key to the end: what is read goes into what is sealed, and what is
\* verified opens.
SealInv(p) ==
    /\ pc[p] \in Sealing => key[p].creds = SealingCreds(req[p]) /\ key[p].salt = p
    /\ pc[p] \in Sealing \cup {"deriveKey"} /\ req[p].cmd = "reencode" => ReadFrom(p)
    /\ pc[p] = "verify" =>
          /\ OwnWallet(p)
          /\ Own(p).wallet = SealedWallet(req[p], opened[p])
    /\ /\ pc[p] \in Exporting \cup {"done"} /\ req[p].cmd # "export"
       /\ Rederives(req[p]) \/ ~key[p].flipped
       => Openable(p)

Creating == {"createPublic", "writePublic", "createNonDuress", "writeNonDuress"}

\* The decoy's export, as p makes it.
Decoy(p) == [kind |-> "public", by |-> p, wallet |-> opened[p], seedPw |-> None]

\* From the confirmation to the hidden export: the password is the one meant, and
\* the decoy's export comes first.
HiddenInv(p) ==
    /\ pc[p] \in Creating /\ NonDuressPath(req[p]) # None => typed[p] = req[p].seedPw
    /\ pc[p] \in {"createNonDuress", "writeNonDuress"} =>
          /\ Exists(PublicPath(req[p]))
          /\ Intact(disk[PublicPath(req[p])]) = Decoy(p)

\* A wallet that some file holds under an unflipped key.
KeptWallet(w) == \E f \in KeptFiles : Intact(disk[f]).wallet = w

\* Whatever is exported was read from a wallet that is kept.
ExportInv(p) ==
    pc[p] \in Exporting \/ (pc[p] = "nonDuress" /\ req[p].cmd = "export") =>
        KeptWallet(opened[p])

PublicKept == \A f \in DOMAIN disk : IsPublic(disk[f]) => KeptWallet(Intact(disk[f]).wallet)

OutcomeInv ==
    /\ \A p \in Proc : SealInv(p) /\ HiddenInv(p) /\ ExportInv(p)
    /\ NonDuressBehindDecoy
    /\ PublicKept

IInv == TypeInv /\ WriterInv /\ BackedInv /\ OutcomeInv
-----------------------------------------------------------------------------
(* What is on disk stays, damage being undone. *)

\* No command line changes, and an invocation that does not move keeps its memory.
LEMMA Frame ==
    ASSUME TypeInv, [Next]_vars
    PROVE  /\ req' = req
           /\ \A q \in Proc :
                 \/ Step(q) \/ Crash(q) \/ IoError(q)
                 \/ /\ pc'[q] = pc[q] /\ typed'[q] = typed[q]
                    /\ key'[q] = key[q] /\ opened'[q] = opened[q]
  <1>0. TypeOK
    BY DEF TypeInv
  <1>1. ASSUME NEW p \in Proc, Step(p) \/ Crash(p) \/ IoError(p) PROVE req' = req
    BY <1>1 DEF Step, Parse, Unlock, ResolveNonDuress, DeriveKey, CreateWallet, WriteWallet,
       VerifyWallet, ConfirmNonDuressPassword, CreatePublic, WritePublic, CreateNonDuress,
       WriteNonDuress, Crash, IoError, memory
  <1>2. ASSUME NEW f \in DOMAIN disk, Damage(f) PROVE UNCHANGED <<pc, req, typed, key, opened>>
    BY <1>2 DEF Damage, memory
  <1>3. ASSUME NEW p \in Proc, Step(p) \/ Crash(p) \/ IoError(p), NEW q \in Proc, p # q
        PROVE  /\ pc'[q] = pc[q] /\ typed'[q] = typed[q]
               /\ key'[q] = key[q] /\ opened'[q] = opened[q]
    BY <1>0, <1>3, StepOthers
  <1> QED BY <1>1, <1>2, <1>3 DEF Next, vars

\* A whole file is no partial one once it is damaged, either.
LEMMA WholeIntact ==
    ASSUME TypeOK, NEW f \in DOMAIN disk
    PROVE  disk[f].kind # "partial" <=> Intact(disk[f]).kind # "partial"
  BY ContentFacts DEF TypeOK, Intact, Content, DamagedFile, WalletFile, PublicFile, PartialFile

\* What a whole file says stays, and it never becomes a partial one.
LEMMA FileKept ==
    ASSUME TypeInv, TypeInv', WriterInv, [Next]_vars, NEW f, Exists(f), disk[f].kind # "partial"
    PROVE  f \in DOMAIN disk' /\ disk'[f].kind # "partial" /\ Intact(disk'[f]) = Intact(disk[f])
  <1>1. f \in DOMAIN disk' /\ Intact(disk'[f]) = Intact(disk[f])
    BY WholeFilesKept DEF Exists
  <1>2. Intact(disk[f]).kind # "partial"
    BY WholeIntact DEF TypeInv, Exists
  <1>3. disk'[f].kind # "partial"
    BY <1>1, <1>2 DEF Intact
  <1> QED BY <1>1, <1>3 DEF Exists

\* A wallet that is kept is kept for good.
LEMMA KeptStays ==
    ASSUME TypeInv, TypeInv', WriterInv, [Next]_vars, NEW w, KeptWallet(w)
    PROVE  KeptWallet(w)'
  <1>1. PICK f \in KeptFiles : Intact(disk[f]).wallet = w
    BY DEF KeptWallet
  <1>2. f \in DOMAIN disk /\ Intact(disk[f]).kind = "wallet" /\ ~Intact(disk[f]).key.flipped
    BY <1>1 DEF KeptFiles, IsWallet
  <1>3. disk[f].kind # "partial"
    BY <1>2, WholeIntact DEF TypeInv
  <1>4. f \in DOMAIN disk' /\ Intact(disk'[f]) = Intact(disk[f])
    BY <1>2, <1>3, WholeFilesKept
  <1>5. f \in KeptFiles'
    BY <1>2, <1>4 DEF KeptFiles, IsWallet
  <1> QED BY <1>1, <1>4, <1>5 DEF KeptWallet

\* An invocation's own wallet stays, and stays openable.
LEMMA OwnStays ==
    ASSUME TypeInv, TypeInv', WriterInv, [Next]_vars, NEW p \in Proc
    PROVE  /\ OwnWallet(p) => OwnWallet(p)' /\ Own(p)' = Own(p)
           /\ Openable(p) => Openable(p)'
           /\ ReadFrom(p) /\ opened'[p] = opened[p] => ReadFrom(p)'
  <1>0. req' = req
    BY Frame
  <1>1. ASSUME OwnWallet(p) PROVE OwnWallet(p)' /\ Own(p)' = Own(p)
    <2>1. WalletPath(req[p]) \in DOMAIN disk /\ disk[WalletPath(req[p])].kind # "partial"
      BY <1>1 DEF OwnWallet, Exists, Intact
    <2>2. Intact(disk'[WalletPath(req[p])]) = Intact(disk[WalletPath(req[p])])
      BY <2>1, WholeFilesKept
    <2> QED BY <1>0, <1>1, <2>2, BackedKept DEF Own
  <1>2. ASSUME Exists(req[p].in), disk[req[p].in].kind # "partial"
        PROVE  /\ req[p].in \in DOMAIN disk' /\ disk'[req[p].in].kind # "partial"
               /\ Intact(disk'[req[p].in]) = Intact(disk[req[p].in])
    BY <1>2, FileKept
  <1>3. ASSUME Openable(p) PROVE Openable(p)'
    <2>1. OwnWallet(p)' /\ Own(p)' = Own(p)
      BY <1>1, <1>3 DEF Openable
    <2>2. req[p].cmd = "reencode" =>
             /\ req[p].in \in DOMAIN disk' /\ disk'[req[p].in].kind # "partial"
             /\ Intact(disk'[req[p].in]).wallet.secret = Own(p).wallet.secret
      BY <1>0, <1>2, <1>3 DEF Openable
    <2>3. /\ Opens(Own(p), req[p].sig, SealingCreds(req[p]))
          /\ Own(p).wallet.net = req[p].net
          /\ req[p].cmd = "generate" => Own(p).wallet.secret = req[p].secret
      BY <1>3 DEF Openable
    <2> QED BY <1>0, <2>1, <2>2, <2>3 DEF Openable, Exists
  <1>4. ASSUME ReadFrom(p), opened'[p] = opened[p] PROVE ReadFrom(p)'
    BY <1>0, <1>2, <1>4 DEF ReadFrom, Exists
  <1> QED BY <1>1, <1>3, <1>4
-----------------------------------------------------------------------------
(* From what is read to what is sealed and verified. *)

\* What reencode holds is what it has just read, and goes on reading the same.
LEMMA UnlockSeal ==
    ASSUME TypeInv, NEW p \in Proc, Unlock(p), pc'[p] = "deriveKey"
    PROVE  ReadFrom(p)'
  <1>1. /\ req[p].in \in DOMAIN disk /\ Opens(disk[req[p].in], req[p].sig, req[p].creds)
        /\ opened'[p] = disk[req[p].in].wallet /\ disk' = disk /\ req' = req
    BY DEF Unlock, TypeInv, TypeOK, Exists
  <1>2. disk[req[p].in].kind \in {"wallet", "public"}
    BY <1>1 DEF Opens
  <1> QED BY <1>1, <1>2 DEF ReadFrom, Exists, Intact

\* What is verified opens, and says what it was meant to say.
LEMMA VerifySeal ==
    ASSUME TypeInv, NEW p \in Proc, SealInv(p), VerifyWallet(p),
           pc'[p] \in Exporting \cup {"done"}, Rederives(req[p]) \/ ~key[p].flipped
    PROVE  Openable(p)'
  <1> DEFINE c == disk[WalletPath(req[p])]
  <1>0. TypeOK /\ MemoryInv /\ req[p].cmd # "export"
    BY DEF TypeInv, MemoryInv, VerifyWallet, Sealing
  <1>1. /\ OwnWallet(p) /\ Own(p).wallet = SealedWallet(req[p], opened[p])
        /\ key[p].creds = SealingCreds(req[p]) /\ key[p].salt = p
        /\ req[p].cmd = "reencode" => ReadFrom(p)
    BY DEF SealInv, VerifyWallet, Sealing
  <1>2. Verified(p, c) /\ UNCHANGED <<disk, req>>
    BY <1>0 DEF VerifyWallet, TypeOK, Exporting
  <1>3. Intact(c) = c /\ Own(p) = c /\ c.kind = "wallet" /\ c.by = p
    BY <1>1, <1>2 DEF Verified, Intact, Own, OwnWallet
  <1>4. key[p] \in Key
    BY <1>0 DEF MemoryInv, VerifyWallet, Sealing
  <1>5. ~key[p].flipped => key[p] = default_derive_key(SealingCreds(req[p]), p)
    BY <1>1, <1>4 DEF Key, default_derive_key
  <1>6. c.wallet.sig = req[p].sig /\ c.key = default_derive_key(SealingCreds(req[p]), p)
    BY <1>2, <1>3, <1>5 DEF Verified, Decrypts
  <1>7. Opens(Own(p), req[p].sig, SealingCreds(req[p]))
    BY <1>3, <1>6 DEF Opens, Decrypts
  <1>8. /\ Own(p).wallet.net = req[p].net
        /\ req[p].cmd = "generate" => Own(p).wallet.secret = req[p].secret
        /\ req[p].cmd = "reencode" => Own(p).wallet.secret = opened[p].secret
    <2>1. req[p].cmd = "reencode" => opened[p] \in Wallet
      BY <1>0 DEF MemoryInv, VerifyWallet, Sealing
    <2>2. req[p].cmd \in {"generate", "reencode"}
      BY <1>0, RequestFacts DEF Request
    <2> QED BY <1>1, <2>1, <2>2 DEF SealedWallet, Wallet
  <1>9. Openable(p)
    BY <1>1, <1>7, <1>8 DEF Openable, ReadFrom
  <1> QED BY <1>2, <1>9 DEF Openable, OwnWallet, Own, Exists

\* Every step of an invocation keeps what sealing relies on.
LEMMA StepSeal ==
    ASSUME TypeInv, TypeInv', WriterInv, [Next]_vars, NEW p \in Proc, SealInv(p),
           Step(p) \/ Crash(p) \/ IoError(p)
    PROVE  SealInv(p)'
  <1>0. TypeOK /\ MemoryInv /\ req' = req
    BY Frame DEF TypeInv
  <1>1. CASE pc'[p] \notin Sealing \cup Exporting \cup {"deriveKey", "done"}
    BY <1>1 DEF SealInv, Sealing
  <1>2. CASE Crash(p) \/ IoError(p)
    <2>1. pc'[p] \in {"crashed", "failed"}
      BY <1>0, <1>2 DEF Crash, IoError, TypeOK
    <2> QED BY <1>1, <2>1 DEF Sealing, Exporting
  <1>3. CASE Parse(p)
    <2>1. pc'[p] \in {"failed", "nonDuress", "unlock"}
      BY <1>0, <1>3 DEF Parse, TypeOK
    <2> QED BY <1>1, <2>1 DEF Sealing, Exporting
  <1>4. CASE Unlock(p)
    <2>1. pc'[p] \in {"failed", "nonDuress", "deriveKey"}
      BY <1>0, <1>4 DEF Unlock, TypeOK
    <2>2. CASE pc'[p] = "deriveKey"
      BY <1>4, <2>2, UnlockSeal DEF SealInv, Sealing, Exporting
    <2> QED BY <1>1, <2>1, <2>2 DEF Sealing, Exporting
  <1>5. CASE ResolveNonDuress(p)
    <2>1. req[p].cmd # "reencode"
      BY <1>0, <1>5 DEF ResolveNonDuress, MemoryInv
    <2>2. CASE pc'[p] = "deriveKey"
      BY <1>0, <2>1, <2>2 DEF SealInv, Sealing, Exporting
    <2>3. CASE pc'[p] \in Exporting
      <3>1. req[p].cmd = "export"
        BY <1>0, <1>5, <2>1, <2>3 DEF ResolveNonDuress, TypeOK, Exporting, Request
      <3> QED BY <1>0, <2>3, <3>1 DEF SealInv, Sealing, Exporting
    <2>4. pc'[p] \in {"failed", "deriveKey"} \cup Exporting
      BY <1>0, <1>5 DEF ResolveNonDuress, TypeOK, Export, Exporting
    <2> QED BY <1>1, <2>2, <2>3, <2>4 DEF Sealing, Exporting
  <1>6. CASE DeriveKey(p)
    <2>1. /\ pc[p] = "deriveKey" /\ pc'[p] = "createWallet" /\ opened' = opened
          /\ key'[p].creds = SealingCreds(req[p]) /\ key'[p].salt = p
      BY <1>0, <1>6 DEF DeriveKey, TypeOK
    <2>2. req[p].cmd = "reencode" => ReadFrom(p)'
      BY <2>1, OwnStays DEF SealInv
    <2> QED BY <1>0, <2>1, <2>2 DEF SealInv, Exporting
  <1>7. CASE CreateWallet(p)
    <2>1. /\ pc[p] = "createWallet" /\ pc'[p] \in {"writeWallet", "failed"}
          /\ opened' = opened /\ key' = key
      BY <1>0, <1>7 DEF CreateWallet, CreateNew, TruncateAndOpen, TypeOK, memory
    <2>2. /\ key'[p].creds = SealingCreds(req[p]) /\ key'[p].salt = p
          /\ req[p].cmd = "reencode" => ReadFrom(p)'
      BY <2>1, OwnStays DEF SealInv, Sealing
    <2> QED BY <1>0, <2>1, <2>2 DEF SealInv, Exporting, Sealing
  <1>8. CASE WriteWallet(p)
    <2>1. /\ pc[p] = "writeWallet" /\ pc'[p] = "verify"
          /\ opened' = opened /\ key' = key
          /\ disk' = Put(WalletPath(req[p]),
                         [kind |-> "wallet", by |-> p, key |-> key[p],
                          wallet |-> SealedWallet(req[p], opened[p])])
      BY <1>0, <1>8 DEF WriteWallet, TypeOK, memory
    <2>2. /\ key'[p].creds = SealingCreds(req[p]) /\ key'[p].salt = p
          /\ req[p].cmd = "reencode" => ReadFrom(p)'
      BY <2>1, OwnStays DEF SealInv, Sealing
    <2>3. OwnWallet(p)' /\ Own(p)'.wallet = SealedWallet(req[p], opened[p])
      BY <1>0, <2>1 DEF OwnWallet, Own, Exists, Put, Intact
    <2>4. SealedWallet(req[p], opened[p]) = SealedWallet(req'[p], opened'[p])
      BY <1>0, <2>1
    <2> QED BY <1>0, <2>1, <2>2, <2>3, <2>4 DEF SealInv, Exporting
  <1>9. CASE VerifyWallet(p)
    <2>1. pc'[p] \in {"done", "failed"} \cup Exporting /\ key' = key
      BY <1>0, <1>9 DEF VerifyWallet, Export, TypeOK, Exporting
    <2>2. CASE pc'[p] \in Exporting \cup {"done"}
      <3>1. Rederives(req[p]) \/ ~key[p].flipped => Openable(p)'
        BY <1>9, <2>2, VerifySeal
      <3>2. (Rederives(req[p]) \/ ~key[p].flipped)' <=> Rederives(req[p]) \/ ~key[p].flipped
        BY <1>0, <2>1 DEF Rederives
      <3> QED BY <2>2, <3>1, <3>2 DEF SealInv, Sealing, Exporting
    <2> QED BY <1>1, <2>1, <2>2 DEF Sealing, Exporting
  <1>10. CASE \/ ConfirmNonDuressPassword(p) \/ CreatePublic(p) \/ WritePublic(p)
              \/ CreateNonDuress(p) \/ WriteNonDuress(p)
    <2>1. /\ pc[p] \in Exporting /\ pc'[p] \in {"done", "failed"} \cup Exporting
          /\ key' = key
      BY <1>0, <1>10 DEF ConfirmNonDuressPassword, CreatePublic, WritePublic, CreateNonDuress,
         WriteNonDuress, CreateNew, TruncateAndOpen, AfterPublic, TypeOK, memory, Exporting
    <2>2. CASE pc'[p] \in Exporting \cup {"done"}
      <3>1. req[p].cmd # "export" /\ (Rederives(req[p]) \/ ~key[p].flipped) => Openable(p)'
        BY <2>1, OwnStays DEF SealInv
      <3>2. (Rederives(req[p]) \/ ~key[p].flipped)' <=> Rederives(req[p]) \/ ~key[p].flipped
        BY <1>0, <2>1 DEF Rederives
      <3> QED BY <1>0, <2>2, <3>1, <3>2 DEF SealInv, Sealing, Exporting
    <2> QED BY <1>1, <2>1, <2>2 DEF Sealing, Exporting
  <1> QED BY <1>2, <1>3, <1>4, <1>5, <1>6, <1>7, <1>8, <1>9, <1>10 DEF Step
-----------------------------------------------------------------------------
(* What is exported. *)

\* A public export is there already, or is what its maker writes.
LEMMA NewPublic ==
    ASSUME TypeInv, WriterInv, [Next]_vars, NEW g \in DOMAIN disk', IsPublic(disk'[g])
    PROVE  \/ g \in DOMAIN disk /\ IsPublic(disk[g]) /\ Intact(disk'[g]) = Intact(disk[g])
           \/ \E p \in Proc :
                 \/ WritePublic(p) /\ Intact(disk'[g]) = Decoy(p)
                 \/ /\ WriteNonDuress(p)
                    /\ Intact(disk'[g]) = [Decoy(p) EXCEPT !.seedPw = typed[p]]
  <1> DEFINE Old == g \in DOMAIN disk /\ IsPublic(disk[g])
                    /\ Intact(disk'[g]) = Intact(disk[g])
  <1>1. ASSUME NEW p \in Proc, WritePublic(p)
        PROVE  Old \/ Intact(disk'[g]) = Decoy(p)
    BY <1>1 DEF WritePublic, Put, Intact, IsPublic, Decoy
  <1>2. ASSUME NEW p \in Proc, WriteNonDuress(p)
        PROVE  Old \/ Intact(disk'[g]) = [Decoy(p) EXCEPT !.seedPw = typed[p]]
    <2>1. CASE g = NonDuressPath(req[p])
      <3>1. disk'[g] = [kind |-> "public", by |-> p, wallet |-> opened[p], seedPw |-> typed[p]]
        BY <1>2, <2>1 DEF WriteNonDuress, Put
      <3> QED BY <3>1 DEF Intact, Decoy
    <2>2. CASE g # NonDuressPath(req[p])
      BY <1>2, <2>2 DEF WriteNonDuress, Put, Intact, IsPublic
    <2> QED BY <2>1, <2>2
  <1>3. Old \/ \E p \in Proc : WritePublic(p) \/ WriteNonDuress(p)
    BY NewExports
  <1> QED BY <1>1, <1>2, <1>3

\* The decoy comes first and the password was confirmed, step by step.
LEMMA StepHidden ==
    ASSUME TypeInv, TypeInv', WriterInv, [Next]_vars, NEW p \in Proc, HiddenInv(p),
           Step(p) \/ Crash(p) \/ IoError(p)
    PROVE  HiddenInv(p)'
  <1>0. TypeOK /\ MemoryInv /\ req' = req
    BY Frame DEF TypeInv
  <1>1. CASE pc'[p] \notin Creating
    BY <1>1 DEF HiddenInv, Creating
  <1>2. CASE \/ Crash(p) \/ IoError(p) \/ Parse(p) \/ Unlock(p) \/ DeriveKey(p)
             \/ CreateWallet(p) \/ WriteWallet(p) \/ WriteNonDuress(p)
    <2>1. pc'[p] \notin Creating
      BY <1>0, <1>2 DEF Crash, IoError, Parse, Unlock, DeriveKey, CreateWallet, WriteWallet,
         WriteNonDuress, CreateNew, TruncateAndOpen, TypeOK, Creating
    <2> QED BY <1>1, <2>1
  <1>3. CASE ResolveNonDuress(p) \/ VerifyWallet(p)
    <2>1. pc'[p] \in {"failed", "done", "deriveKey", Export(req[p])}
      BY <1>0, <1>3 DEF ResolveNonDuress, VerifyWallet, TypeOK, Export
    <2>2. CASE pc'[p] \in Creating
      <3>1. NonDuressPath(req[p]) = None /\ pc'[p] = "createPublic"
        BY <2>1, <2>2 DEF Export, Creating
      <3> QED BY <1>0, <3>1 DEF HiddenInv
    <2> QED BY <1>1, <2>2
  <1>4. CASE ConfirmNonDuressPassword(p)
    <2>1. /\ pc'[p] \in {"createPublic", "confirm"} /\ typed' = typed
          /\ pc'[p] = "createPublic" => typed[p] = req[p].seedPw
      BY <1>0, <1>4 DEF ConfirmNonDuressPassword, Again, TypeOK, memory
    <2> QED BY <1>0, <1>1, <2>1 DEF HiddenInv, Creating
  <1>5. CASE CreatePublic(p)
    <2>1. /\ pc[p] = "createPublic" /\ pc'[p] \in {"writePublic", "failed"} /\ typed' = typed
      BY <1>0, <1>5 DEF CreatePublic, CreateNew, TruncateAndOpen, TypeOK, memory
    <2> QED BY <1>0, <1>1, <2>1 DEF HiddenInv, Creating
  <1>6. CASE WritePublic(p)
    <2>1. /\ pc[p] = "writePublic" /\ pc'[p] \in {"createNonDuress", "done"}
          /\ typed' = typed /\ opened' = opened
          /\ disk' = Put(PublicPath(req[p]),
                   [kind |-> "public", by |-> p, wallet |-> opened[p], seedPw |-> None])
      BY <1>0, <1>6 DEF WritePublic, AfterPublic, TypeOK, memory
    <2>2. /\ PublicPath(req[p]) \in DOMAIN disk'
          /\ Intact(disk'[PublicPath(req[p])]) = Decoy(p)
      BY <2>1 DEF Put, Intact, Decoy
    <2>3. Decoy(p)' = Decoy(p)
      BY <2>1 DEF Decoy
    <2> QED BY <1>0, <1>1, <2>1, <2>2, <2>3 DEF HiddenInv, Creating, Exists
  <1>7. CASE CreateNonDuress(p)
    <2>1. /\ pc[p] = "createNonDuress" /\ pc'[p] \in {"writeNonDuress", "failed"}
          /\ typed' = typed /\ opened' = opened
      BY <1>0, <1>7 DEF CreateNonDuress, CreateNew, TruncateAndOpen, TypeOK, memory
    <2>2. /\ PublicPath(req[p]) \in DOMAIN disk
          /\ Intact(disk[PublicPath(req[p])]) = Decoy(p)
      BY <2>1 DEF HiddenInv, Exists
    <2>3. disk[PublicPath(req[p])].kind # "partial"
      BY <2>2 DEF Intact, Decoy
    <2>4. /\ PublicPath(req[p]) \in DOMAIN disk'
          /\ Intact(disk'[PublicPath(req[p])]) = Decoy(p)
      BY <2>2, <2>3, WholeFilesKept
    <2>5. Decoy(p)' = Decoy(p)
      BY <2>1 DEF Decoy
    <2> QED BY <1>0, <1>1, <2>1, <2>4, <2>5 DEF HiddenInv, Creating, Exists
  <1> QED BY <1>2, <1>3, <1>4, <1>5, <1>6, <1>7 DEF Step

\* Whatever invocation stands still keeps what the invariants say of it.
LEMMA StillKept ==
    ASSUME TypeInv, TypeInv', WriterInv, [Next]_vars, NEW q \in Proc,
           pc'[q] = pc[q], typed'[q] = typed[q], key'[q] = key[q], opened'[q] = opened[q]
    PROVE  /\ SealInv(q) => SealInv(q)'
           /\ HiddenInv(q) => HiddenInv(q)'
           /\ ExportInv(q) => ExportInv(q)'
  <1>0. req' = req
    BY Frame
  <1>1. ASSUME SealInv(q) PROVE SealInv(q)'
    <2>1. (Rederives(req[q]) \/ ~key[q].flipped)' <=> Rederives(req[q]) \/ ~key[q].flipped
      BY <1>0 DEF Rederives
    <2>2. SealedWallet(req[q], opened[q])' = SealedWallet(req[q], opened[q])
      BY <1>0 DEF SealedWallet
    <2> QED BY <1>0, <1>1, <2>1, <2>2, OwnStays DEF SealInv
  <1>2. ASSUME HiddenInv(q) PROVE HiddenInv(q)'
    <2>1. ASSUME pc[q] \in {"createNonDuress", "writeNonDuress"}
          PROVE  /\ PublicPath(req[q]) \in DOMAIN disk'
                 /\ Intact(disk'[PublicPath(req[q])]) = Decoy(q)
      <3>1. /\ PublicPath(req[q]) \in DOMAIN disk
            /\ Intact(disk[PublicPath(req[q])]) = Decoy(q)
        BY <1>2, <2>1 DEF HiddenInv, Exists
      <3>2. disk[PublicPath(req[q])].kind # "partial"
        BY <3>1 DEF Intact, Decoy
      <3> QED BY <3>1, <3>2, WholeFilesKept
    <2>2. Decoy(q)' = Decoy(q)
      BY DEF Decoy
    <2> QED BY <1>0, <1>2, <2>1, <2>2 DEF HiddenInv, Exists
  <1>3. ASSUME ExportInv(q) PROVE ExportInv(q)'
    <2>1. PICK w : w = opened[q]
      OBVIOUS
    <2>2. KeptWallet(w) => KeptWallet(w)'
      BY KeptStays
    <2> QED BY <1>0, <1>3, <2>1, <2>2 DEF ExportInv, KeptWallet
  <1> QED BY <1>1, <1>2, <1>3
\* A wallet that verifies, or that opens with its own key, is kept.
LEMMA OpenedKept ==
    ASSUME TypeOK, NEW f \in DOMAIN disk, disk[f].kind = "wallet", ~disk[f].key.flipped
    PROVE  KeptWallet(disk[f].wallet)
  BY DEF KeptWallet, KeptFiles, IsWallet, Intact

\* What is about to be exported was read from a wallet that is kept.
LEMMA StepExport ==
    ASSUME TypeInv, TypeInv', WriterInv, [Next]_vars, PublicKept,
           NEW p \in Proc, ExportInv(p), Step(p) \/ Crash(p) \/ IoError(p)
    PROVE  ExportInv(p)'
  <1>0. TypeOK /\ MemoryInv /\ req' = req
    BY Frame DEF TypeInv
  <1>1. ASSUME NEW w, w = opened'[p], KeptWallet(w) PROVE ExportInv(p)'
    <2>1. KeptWallet(w)'
      BY <1>1, KeptStays
    <2> QED BY <1>1, <2>1 DEF ExportInv, KeptWallet
  <1>2. CASE ~(pc'[p] \in Exporting \/ (pc'[p] = "nonDuress" /\ req[p].cmd = "export"))
    BY <1>0, <1>2 DEF ExportInv
  <1>3. CASE Crash(p) \/ IoError(p) \/ Parse(p) \/ DeriveKey(p) \/ CreateWallet(p) \/ WriteWallet(p)
    <2>1. pc'[p] \notin Exporting /\ (pc'[p] = "nonDuress" => req[p].cmd = "generate")
      BY <1>0, <1>3 DEF Crash, IoError, Parse, DeriveKey, CreateWallet, WriteWallet, CreateNew,
         TruncateAndOpen, TypeOK, Exporting
    <2> QED BY <1>2, <2>1
  <1>4. CASE Unlock(p)
    <2>1. CASE pc'[p] # "nonDuress"
      <3>1. pc'[p] \notin Exporting
        BY <1>0, <1>4 DEF Unlock, TypeOK, Exporting
      <3> QED BY <1>2, <2>1, <3>1
    <2>2. CASE pc'[p] = "nonDuress"
      <3>1. /\ req[p].in \in DOMAIN disk /\ Opens(disk[req[p].in], req[p].sig, req[p].creds)
            /\ opened'[p] = disk[req[p].in].wallet
        BY <1>0, <1>4, <2>2 DEF Unlock, TypeOK, Exists
      <3>2. CASE disk[req[p].in].kind = "wallet"
        <4>1. ~disk[req[p].in].key.flipped
          BY <3>1, <3>2 DEF Opens, Decrypts, default_derive_key
        <4> QED BY <1>0, <1>1, <3>1, <3>2, <4>1, OpenedKept
      <3>3. CASE disk[req[p].in].kind = "public"
        <4>1. Intact(disk[req[p].in]) = disk[req[p].in] /\ IsPublic(disk[req[p].in])
          BY <3>3 DEF Intact, IsPublic
        <4>2. KeptWallet(disk[req[p].in].wallet)
          BY <3>1, <4>1 DEF PublicKept
        <4> QED BY <1>1, <3>1, <4>2
      <3> QED BY <3>1, <3>2, <3>3 DEF Opens
    <2> QED BY <2>1, <2>2
  <1>5. CASE ResolveNonDuress(p)
    <2>1. pc[p] = "nonDuress" /\ opened' = opened /\ pc'[p] # "nonDuress"
      BY <1>0, <1>5 DEF ResolveNonDuress, TypeOK, Export
    <2>2. CASE pc'[p] \in Exporting
      <3>1. req[p].cmd = "export"
        BY <1>0, <1>5, <2>2 DEF ResolveNonDuress, TypeOK, MemoryInv, Exporting, Request
      <3> QED BY <1>1, <2>1, <3>1 DEF ExportInv
    <2> QED BY <1>2, <2>1, <2>2
  <1>6. CASE VerifyWallet(p)
    <2>1. CASE pc'[p] \notin Exporting
      <3>1. pc'[p] # "nonDuress"
        BY <1>0, <1>6 DEF VerifyWallet, Export, TypeOK
      <3> QED BY <1>2, <2>1, <3>1
    <2>2. CASE pc'[p] \in Exporting
      <3> DEFINE c == disk[WalletPath(req[p])]
      <3>1. /\ WalletPath(req[p]) \in DOMAIN disk /\ Verified(p, c) /\ opened'[p] = c.wallet
            /\ PublicPath(req[p]) # None
        BY <1>0, <1>6, <2>2 DEF VerifyWallet, TypeOK, Exporting, Exists
      <3>2. Rederives(req[p])
        <4>1. req[p].cmd # "export" /\ WellFormed(req[p])
          BY <1>0, <1>6, RequestFacts DEF VerifyWallet, MemoryInv, Sealing
        <4> QED BY <3>1, <4>1, ConstantAssumption DEF Rederives, PublicPath
      <3>3. c.kind = "wallet" /\ ~c.key.flipped
        BY <3>1, <3>2 DEF Verified, Decrypts, default_derive_key
      <3> QED BY <1>0, <1>1, <3>1, <3>3, OpenedKept
    <2> QED BY <2>1, <2>2
  <1>7. CASE \/ ConfirmNonDuressPassword(p) \/ CreatePublic(p) \/ WritePublic(p)
             \/ CreateNonDuress(p) \/ WriteNonDuress(p)
    <2>1. pc[p] \in Exporting /\ opened' = opened
      BY <1>7 DEF ConfirmNonDuressPassword, CreatePublic, WritePublic, CreateNonDuress,
         WriteNonDuress, memory, Exporting
    <2> QED BY <1>1, <2>1 DEF ExportInv
  <1> QED BY <1>3, <1>4, <1>5, <1>6, <1>7 DEF Step

\* What one step adds to the exports: a decoy's, or a hidden wallet's behind it.
LEMMA NextPublic ==
    ASSUME IInv, TypeInv', [Next]_vars
    PROVE  NonDuressBehindDecoy' /\ PublicKept'
  <1>0. TypeInv /\ WriterInv /\ TypeOK /\ MemoryInv /\ req' = req
    BY Frame DEF IInv, TypeInv
  <1>1. ASSUME NEW g \in DOMAIN disk', IsPublic(disk'[g]), NEW e, e = Intact(disk'[g])
        PROVE  /\ KeptWallet(e.wallet)'
               /\ e.seedPw # None =>
                     /\ e.seedPw = req[e.by].seedPw
                     /\ PublicPath(req[e.by]) \in DOMAIN disk'
                     /\ Intact(disk'[PublicPath(req[e.by])]) = [e EXCEPT !.seedPw = None]
    <2>1. CASE g \in DOMAIN disk /\ IsPublic(disk[g]) /\ e = Intact(disk[g])
      <3>1. KeptWallet(e.wallet)
        BY <2>1 DEF IInv, OutcomeInv, PublicKept
      <3>2. KeptWallet(e.wallet)'
        BY <1>0, <3>1, KeptStays
      <3>3. ASSUME e.seedPw # None
            PROVE  /\ e.seedPw = req[e.by].seedPw
                   /\ PublicPath(req[e.by]) \in DOMAIN disk'
                   /\ Intact(disk'[PublicPath(req[e.by])]) = [e EXCEPT !.seedPw = None]
        <4>1. /\ e.seedPw = req[e.by].seedPw
              /\ PublicPath(req[e.by]) \in DOMAIN disk
              /\ Intact(disk[PublicPath(req[e.by])]) = [e EXCEPT !.seedPw = None]
          BY <2>1, <3>3 DEF IInv, OutcomeInv, NonDuressBehindDecoy, Exists
        <4>2. e \in PublicFile
          BY <1>0, <2>1, ContentFacts
          DEF TypeOK, IsPublic, Intact, PublicFile, DamagedFile, WalletFile, Content, PartialFile
        <4>3. Intact(disk[PublicPath(req[e.by])]).kind = "public"
          BY <4>1, <4>2 DEF PublicFile
        <4>4. disk[PublicPath(req[e.by])].kind # "partial"
          BY <4>3 DEF Intact
        <4> QED BY <1>0, <4>1, <4>4, WholeFilesKept
      <3> QED BY <3>2, <3>3
    <2>2. ASSUME NEW p \in Proc, WritePublic(p), e = Decoy(p)
          PROVE  KeptWallet(e.wallet)' /\ e.seedPw = None
      <3>1. e.wallet = opened[p] /\ e.seedPw = None
        BY <2>2 DEF Decoy
      <3>2. KeptWallet(e.wallet)
        BY <2>2, <3>1 DEF IInv, OutcomeInv, ExportInv, WritePublic, Exporting
      <3> QED BY <1>0, <3>1, <3>2, KeptStays
    <2>3. ASSUME NEW p \in Proc, WriteNonDuress(p), e = [Decoy(p) EXCEPT !.seedPw = typed[p]]
          PROVE  /\ KeptWallet(e.wallet)'
                 /\ e.seedPw = req[e.by].seedPw
                 /\ PublicPath(req[e.by]) \in DOMAIN disk'
                 /\ Intact(disk'[PublicPath(req[e.by])]) = [e EXCEPT !.seedPw = None]
      <3>1. /\ e = [kind |-> "public", by |-> p, wallet |-> opened[p], seedPw |-> typed[p]]
            /\ [e EXCEPT !.seedPw = None] = Decoy(p)
        <4>1. e = [kind |-> "public", by |-> p, wallet |-> opened[p], seedPw |-> typed[p]]
          BY <2>3 DEF Decoy
        <4> QED BY <4>1 DEF Decoy
      <3>2. KeptWallet(e.wallet)
        BY <2>3, <3>1 DEF IInv, OutcomeInv, ExportInv, WriteNonDuress, Exporting
      <3>3. KeptWallet(e.wallet)'
        BY <1>0, <3>2, KeptStays
      <3>4. pc[p] = "writeNonDuress" /\ NonDuressPath(req[p]) # None
        BY <1>0, <2>3 DEF WriteNonDuress, MemoryInv
      <3>5. /\ typed[p] = req[p].seedPw
            /\ PublicPath(req[p]) \in DOMAIN disk
            /\ Intact(disk[PublicPath(req[p])]) = Decoy(p)
        BY <3>4 DEF IInv, OutcomeInv, HiddenInv, Creating, Exists
      <3>6. disk[PublicPath(req[p])].kind # "partial"
        BY <3>5 DEF Intact, Decoy
      <3>7. /\ PublicPath(req[p]) \in DOMAIN disk'
            /\ Intact(disk'[PublicPath(req[p])]) = Decoy(p)
        BY <1>0, <3>5, <3>6, WholeFilesKept
      <3>8. e.by = p /\ e.seedPw = typed[p]
        BY <3>1
      <3> QED BY <3>1, <3>3, <3>5, <3>7, <3>8
    <2> QED BY <1>0, <1>1, <2>1, <2>2, <2>3, NewPublic
  <1>2. PublicKept'
    <2> SUFFICES ASSUME NEW g \in DOMAIN disk', IsPublic(disk'[g])
                 PROVE  KeptWallet(Intact(disk[g]).wallet)'
      BY DEF PublicKept
    <2>1. PICK e : e = Intact(disk'[g])
      OBVIOUS
    <2>2. KeptWallet(e.wallet)'
      BY <1>1, <2>1
    <2> QED BY <2>1, <2>2 DEF KeptWallet
  <1>3. NonDuressBehindDecoy'
    BY <1>0, <1>1 DEF NonDuressBehindDecoy, Exists
  <1> QED BY <1>2, <1>3
-----------------------------------------------------------------------------
(* How the commands end. *)

\* An empty directory and invocations that have not begun.
LEMMA InitOutcome == Init => OutcomeInv
  <1> SUFFICES ASSUME Init PROVE OutcomeInv
    OBVIOUS
  <1>1. \A p \in Proc : SealInv(p) /\ HiddenInv(p) /\ ExportInv(p)
    BY DEF Init, SealInv, HiddenInv, ExportInv, Sealing, Exporting, Creating
  <1>2. NonDuressBehindDecoy /\ PublicKept
    BY DEF Init, EmptyDirectory, NonDuressBehindDecoy, PublicKept
  <1> QED BY <1>1, <1>2 DEF OutcomeInv

\* All that the theorems rest on is kept by every step.
LEMMA NextOutcome ==
    ASSUME IInv, [Next]_vars
    PROVE  IInv'
  <1>1. TypeInv /\ WriterInv /\ BackedInv /\ PublicKept
    BY DEF IInv, OutcomeInv
  <1>2. TypeInv' /\ WriterInv' /\ BackedInv'
    BY <1>1, NextTypeInv, NextWriterInv, NextBackedInv
  <1>3. ASSUME NEW q \in Proc PROVE SealInv(q)' /\ HiddenInv(q)' /\ ExportInv(q)'
    <2>1. SealInv(q) /\ HiddenInv(q) /\ ExportInv(q)
      BY DEF IInv, OutcomeInv
    <2>2. CASE Step(q) \/ Crash(q) \/ IoError(q)
      BY <1>1, <1>2, <2>1, <2>2, StepSeal, StepHidden, StepExport
    <2>3. CASE /\ pc'[q] = pc[q] /\ typed'[q] = typed[q]
               /\ key'[q] = key[q] /\ opened'[q] = opened[q]
      BY <1>1, <1>2, <2>1, <2>3, StillKept
    <2> QED BY <1>1, <2>2, <2>3, Frame
  <1>4. NonDuressBehindDecoy' /\ PublicKept'
    BY <1>2, NextPublic
  <1> QED BY <1>2, <1>3, <1>4 DEF IInv, OutcomeInv

\* What the phases rely on always holds.
LEMMA Invariant == Spec => []IInv
  <1>1. Init => IInv
    <2>1. Init => WriterInv
      BY DEF Init, WriterInv, Writing
    <2>2. Init => BackedInv
      BY DEF Init, BackedInv, EmptyDirectory, Exporting
    <2> QED BY <2>1, <2>2, InitTypeInv, InitOutcome DEF IInv
  <1>2. IInv /\ [Next]_vars => IInv'
    BY NextOutcome
  <1> QED BY <1>1, <1>2, PTL DEF Spec

\* When generate or reencode reports success, its wallet is under the name it
\* chose, opens with the credentials for it and says what it was asked to say:
\* nothing that happens to the directory afterwards changes that but damage.
THEOREM SuccessIsOpenable == Spec => []SuccessMeansOpenable
  <1>1. IInv => SuccessMeansOpenable
    <2> SUFFICES ASSUME IInv, NEW p \in Proc, pc[p] = "done", req[p].cmd # "export",
                        Rederives(req[p]) \/ ~key[p].flipped
                 PROVE  /\ Exists(WalletPath(req[p]))
                        /\ Own(p).kind = "wallet" /\ Own(p).by = p
                        /\ Opens(Own(p), req[p].sig, SealingCreds(req[p]))
                        /\ Own(p).wallet.net = req[p].net
                        /\ req[p].cmd = "generate" => Own(p).wallet.secret = req[p].secret
                        /\ req[p].cmd = "reencode" =>
                              /\ Exists(req[p].in)
                              /\ Intact(disk[req[p].in]).wallet.secret = Own(p).wallet.secret
      BY DEF SuccessMeansOpenable, Own, SealingCreds
    <2>1. Openable(p)
      BY DEF IInv, OutcomeInv, SealInv
    <2> QED BY <2>1 DEF Openable, OwnWallet, Own
  <1> QED BY <1>1, Invariant, PTL

\* The export of a hidden wallet is for the password its user means and never
\* without the decoy's export of the same wallet, wherever the command was cut
\* short (export_public_info and double_check_non_duress_password).
THEOREM HiddenBehindDecoy == Spec => []NonDuressBehindDecoy
  <1>1. IInv => NonDuressBehindDecoy
    BY DEF IInv, OutcomeInv
  <1> QED BY <1>1, Invariant, PTL
-----------------------------------------------------------------------------
(* The commands implement the cold store. *)

\* The elements of the store and of its exports that files stand for.
KeptEntry(f) ==
    [name |-> f, creds |-> Intact(disk[f]).key.creds, wallet |-> Intact(disk[f]).wallet]
ExportEntry(f) ==
    [name |-> f, wallet |-> Intact(disk[f]).wallet, seedPw |-> Intact(disk[f]).seedPw]
StoreOfFiles == {KeptEntry(f) : f \in KeptFiles}
PublicOfFiles == {ExportEntry(f) : f \in ExportedFiles}

\* A step that leaves every whole file whole and adds none is a stutter.
LEMMA SameFiles ==
    ASSUME KeptFiles' = KeptFiles, ExportedFiles' = ExportedFiles,
           \A g \in KeptFiles \cup ExportedFiles : Intact(disk'[g]) = Intact(disk[g])
    PROVE  StoreOfFiles' = StoreOfFiles /\ PublicOfFiles' = PublicOfFiles
  <1>1. \A g \in KeptFiles : KeptEntry(g)' = KeptEntry(g)
    BY DEF KeptEntry
  <1>2. \A g \in ExportedFiles : ExportEntry(g)' = ExportEntry(g)
    BY DEF ExportEntry
  <1> QED BY <1>1, <1>2 DEF StoreOfFiles, PublicOfFiles

\* A new partial file, or a damaged one, is such a step.
LEMMA PartialIsStutter ==
    ASSUME NEW f, NEW p, f \notin DOMAIN disk, disk' = Put(f, [kind |-> "partial", by |-> p])
    PROVE  StoreOfFiles' = StoreOfFiles /\ PublicOfFiles' = PublicOfFiles
  <1>1. DOMAIN disk' = DOMAIN disk \cup {f}
    BY DEF Put
  <1>2. disk'[f] = [kind |-> "partial", by |-> p] /\ \A g \in DOMAIN disk : disk'[g] = disk[g]
    BY DEF Put
  <1>3. ~IsWallet(disk'[f]) /\ ~IsPublic(disk'[f])
    BY <1>2 DEF IsWallet, IsPublic, Intact
  <1>4. \A g \in DOMAIN disk : Intact(disk'[g]) = Intact(disk[g])
    BY <1>2 DEF Intact
  <1>5. \A g : g \in KeptFiles' <=> g \in KeptFiles
    BY <1>1, <1>3, <1>4 DEF KeptFiles, IsWallet
  <1>6. \A g : g \in ExportedFiles' <=> g \in ExportedFiles
    BY <1>1, <1>3, <1>4 DEF ExportedFiles, IsPublic
  <1>7. KeptFiles \cup ExportedFiles \subseteq DOMAIN disk
    BY DEF KeptFiles, ExportedFiles
  <1> QED BY <1>4, <1>5, <1>6, <1>7, SameFiles

\* Damage changes no entry: a damaged file stands for what it was.
LEMMA DamageIsStutter ==
    ASSUME NEW f \in DOMAIN disk, Damage(f)
    PROVE  StoreOfFiles' = StoreOfFiles /\ PublicOfFiles' = PublicOfFiles
  <1>1. DOMAIN disk' = DOMAIN disk
    BY DEF Damage, Put
  <1>2. \A g \in DOMAIN disk : Intact(disk'[g]) = Intact(disk[g])
    BY DEF Damage, Put, Intact
  <1>3. \A g : g \in KeptFiles' <=> g \in KeptFiles
    BY <1>1, <1>2 DEF KeptFiles, IsWallet
  <1>4. \A g : g \in ExportedFiles' <=> g \in ExportedFiles
    BY <1>1, <1>2 DEF ExportedFiles, IsPublic
  <1>5. KeptFiles \cup ExportedFiles \subseteq DOMAIN disk
    BY DEF KeptFiles, ExportedFiles
  <1> QED BY <1>2, <1>3, <1>4, <1>5, SameFiles

\* No element of the store has the name of a partial file.
LEMMA PartialIsUnused ==
    ASSUME NEW f, disk[f].kind = "partial"
    PROVE  f \notin KeptFiles /\ f \notin ExportedFiles
           /\ \A e \in StoreOfFiles \cup PublicOfFiles : e.name # f
  <1>1. f \notin KeptFiles /\ f \notin ExportedFiles
    BY DEF KeptFiles, ExportedFiles, IsWallet, IsPublic, Intact
  <1> QED BY <1>1 DEF StoreOfFiles, PublicOfFiles, KeptEntry, ExportEntry

\* Filling a partial file adds what it then is, and nothing else.
LEMMA FillAdds ==
    ASSUME NEW f \in DOMAIN disk, disk[f].kind = "partial", NEW c, disk' = Put(f, c),
           c.kind \in {"wallet", "public"}
    PROVE  /\ StoreOfFiles' = StoreOfFiles \cup
                 (IF c.kind = "wallet" /\ ~c.key.flipped
                  THEN {[name |-> f, creds |-> c.key.creds, wallet |-> c.wallet]} ELSE {})
           /\ PublicOfFiles' = PublicOfFiles \cup
                 (IF c.kind = "public"
                  THEN {[name |-> f, wallet |-> c.wallet, seedPw |-> c.seedPw]} ELSE {})
  <1>1. DOMAIN disk' = DOMAIN disk
    BY DEF Put
  <1>2. disk'[f] = c /\ Intact(c) = c /\ \A g \in DOMAIN disk : g # f => disk'[g] = disk[g]
    BY DEF Put, Intact
  <1>3. f \notin KeptFiles /\ f \notin ExportedFiles
    BY PartialIsUnused
  <1>4. \A g : g \in KeptFiles' <=>
               g \in KeptFiles \/ (g = f /\ c.kind = "wallet" /\ ~c.key.flipped)
    BY <1>1, <1>2, <1>3 DEF KeptFiles, IsWallet
  <1>5. \A g : g \in ExportedFiles' <=> g \in ExportedFiles \/ (g = f /\ c.kind = "public")
    BY <1>1, <1>2, <1>3 DEF ExportedFiles, IsPublic
  <1>6. \A g \in KeptFiles : KeptEntry(g)' = KeptEntry(g)
    BY <1>2, <1>3 DEF KeptEntry, KeptFiles
  <1>7. \A g \in ExportedFiles : ExportEntry(g)' = ExportEntry(g)
    BY <1>2, <1>3 DEF ExportEntry, ExportedFiles
  <1>8. KeptEntry(f)' = [name |-> f, creds |-> c.key.creds, wallet |-> c.wallet]
    BY <1>2 DEF KeptEntry
  <1>9. ExportEntry(f)' = [name |-> f, wallet |-> c.wallet, seedPw |-> c.seedPw]
    BY <1>2 DEF ExportEntry
  <1>10. StoreOfFiles' = StoreOfFiles \cup
                 (IF c.kind = "wallet" /\ ~c.key.flipped
                  THEN {[name |-> f, creds |-> c.key.creds, wallet |-> c.wallet]} ELSE {})
    BY <1>4, <1>6, <1>8 DEF StoreOfFiles
  <1>11. PublicOfFiles' = PublicOfFiles \cup
                 (IF c.kind = "public"
                  THEN {[name |-> f, wallet |-> c.wallet, seedPw |-> c.seedPw]} ELSE {})
    BY <1>5, <1>7, <1>9 DEF PublicOfFiles
  <1> QED BY <1>10, <1>11
\* An invocation that writes fills the partial file it created, under a name
\* nothing in the store has.
LEMMA WritesOwn ==
    ASSUME IInv, NEW p \in Proc, pc[p] \in Writing
    PROVE  /\ Target(p) \in DOMAIN disk /\ disk[Target(p)].kind = "partial"
           /\ Target(p) \in Names
           /\ \A e \in StoreOfFiles \cup PublicOfFiles : e.name # Target(p)
  <1>1. Target(p) \in DOMAIN disk /\ disk[Target(p)] = [kind |-> "partial", by |-> p]
    BY DEF IInv, WriterInv, Exists
  <1>2. Target(p) \in Names
    BY <1>1 DEF IInv, TypeInv, TypeOK
  <1>3. disk[Target(p)].kind = "partial"
    BY <1>1
  <1> QED BY <1>1, <1>2, <1>3, PartialIsUnused

\* Writing a wallet is keeping it, unless its key was flipped.
LEMMA WriteWalletKeeps ==
    ASSUME IInv, NEW p \in Proc, WriteWallet(p)
    PROVE  Store!Next \/ UNCHANGED Store!vars
  <1> DEFINE f == WalletPath(req[p])
             c == [kind |-> "wallet", by |-> p, key |-> key[p],
                   wallet |-> SealedWallet(req[p], opened[p])]
  <1>1. Target(p) = f /\ pc[p] \in Writing /\ disk' = Put(f, c)
    BY DEF WriteWallet, Target, Writing
  <1>2. /\ f \in DOMAIN disk /\ disk[f].kind = "partial" /\ f \in Names
        /\ \A e \in StoreOfFiles \cup PublicOfFiles : e.name # f
    BY <1>1, WritesOwn
  <1>3. key[p] \in Key /\ c.wallet \in Wallet
    <2>1. /\ pc[p] \in Sealing /\ TypeOK /\ MemoryInv
      BY DEF WriteWallet, Sealing, IInv, TypeInv
    <2>2. key[p] \in Key /\ (req[p].cmd # "generate" => opened[p] \in Wallet)
      BY <2>1, RequestFacts DEF MemoryInv, Request
    <2> QED BY <2>1, <2>2, RequestFacts, SealedWalletType
  <1>4. c.kind = "wallet" /\ c.key = key[p]
    OBVIOUS
  <1> HIDE DEF f, c
  <1>5. PublicOfFiles' = PublicOfFiles
    BY <1>1, <1>2, <1>4, FillAdds
  <1>6. CASE key[p].flipped
    <2>1. StoreOfFiles' = StoreOfFiles
      BY <1>1, <1>2, <1>4, <1>6, FillAdds
    <2> QED BY <1>5, <2>1 DEF Store!vars, StoreOfFiles, PublicOfFiles, KeptEntry, ExportEntry
  <1>7. CASE ~key[p].flipped
    <2>1. StoreOfFiles' = StoreOfFiles \cup
             {[name |-> f, creds |-> key[p].creds, wallet |-> c.wallet]}
      BY <1>1, <1>2, <1>4, <1>7, FillAdds
    <2>2. key[p].creds \in Creds
      BY <1>3 DEF Key
    <2>3. PICK n \in Names, v \in Wallet, k \in Creds :
             n = f /\ v = c.wallet /\ k = key[p].creds
      BY <1>2, <1>3, <2>2
    <2>4. Store!Unused(n)
      BY <1>2, <2>3 DEF Store!Unused, StoreOfFiles, PublicOfFiles, KeptEntry, ExportEntry
    <2>5. Store!Keep(n, k, v)
      BY <1>5, <2>1, <2>3, <2>4
      DEF Store!Keep, StoreOfFiles, PublicOfFiles, KeptEntry, ExportEntry
    <2> QED BY <2>5 DEF Store!Next
  <1> QED BY <1>6, <1>7

\* Writing an export is publishing it: its wallet is kept, and its decoy's export
\* is there when it is a hidden one's.
LEMMA WriteExportPublishes ==
    ASSUME IInv, NEW p \in Proc, NEW f, NEW pw \in SeedPw \cup {None},
           Target(p) = f, pc[p] \in {"writePublic", "writeNonDuress"},
           disk' = Put(f, [kind |-> "public", by |-> p, wallet |-> opened[p], seedPw |-> pw]),
           pw # None => pc[p] = "writeNonDuress"
    PROVE  Store!Next
  <1> DEFINE w == opened[p]
             c == [kind |-> "public", by |-> p, wallet |-> w, seedPw |-> pw]
  <1>1. /\ f \in DOMAIN disk /\ disk[f].kind = "partial" /\ f \in Names
        /\ \A e \in StoreOfFiles \cup PublicOfFiles : e.name # f
    BY WritesOwn DEF Writing
  <1>2. w \in Wallet /\ PublicPath(req[p]) # None
    BY DEF IInv, TypeInv, MemoryInv, Exporting
  <1>3. c.kind = "public" /\ c.wallet = w /\ c.seedPw = pw
    OBVIOUS
  <1>4. disk' = Put(f, c)
    OBVIOUS
  <1> HIDE DEF c
  <1>5. StoreOfFiles' = StoreOfFiles
    BY <1>1, <1>3, <1>4, FillAdds
  <1>6. PublicOfFiles' = PublicOfFiles \cup {[name |-> f, wallet |-> w, seedPw |-> pw]}
    BY <1>1, <1>3, <1>4, FillAdds
  <1>7. Store!Unused(f)
    BY <1>1 DEF Store!Unused, StoreOfFiles, PublicOfFiles, KeptEntry, ExportEntry
  <1>8. \E k \in StoreOfFiles : k.wallet = w
    <2>1. KeptWallet(w)
      BY DEF IInv, OutcomeInv, ExportInv, Exporting
    <2>2. PICK g \in KeptFiles : Intact(disk[g]).wallet = w
      BY <2>1 DEF KeptWallet
    <2>3. KeptEntry(g).wallet = w /\ KeptEntry(g) \in StoreOfFiles
      BY <2>2 DEF KeptEntry, StoreOfFiles
    <2> QED BY <2>3
  <1>9. ASSUME pw # None PROVE \E e \in PublicOfFiles : e.wallet = w /\ e.seedPw = None
    <2>1. /\ PublicPath(req[p]) \in DOMAIN disk
          /\ Intact(disk[PublicPath(req[p])]) = Decoy(p)
      BY <1>9 DEF IInv, OutcomeInv, HiddenInv, Exists
    <2>2. PublicPath(req[p]) \in ExportedFiles
      BY <2>1 DEF ExportedFiles, IsPublic, Decoy
    <2>3. ExportEntry(PublicPath(req[p])).wallet = w
          /\ ExportEntry(PublicPath(req[p])).seedPw = None
      BY <2>1 DEF ExportEntry, Decoy
    <2> QED BY <2>2, <2>3 DEF PublicOfFiles
  <1> HIDE DEF w
  <1>10. Store!Publish(f, w, pw)
    BY <1>5, <1>6, <1>7, <1>8, <1>9
    DEF Store!Publish, StoreOfFiles, PublicOfFiles, KeptEntry, ExportEntry
  <1> QED BY <1>1, <1>2, <1>10 DEF Store!Next

\* Every step is one of the cold store, or changes nothing of it.
LEMMA StepImplements ==
    ASSUME IInv, [Next]_vars
    PROVE  [Store!Next]_(Store!vars)
  <1>0. TypeOK /\ MemoryInv
    BY DEF IInv, TypeInv
  <1>1. ASSUME StoreOfFiles' = StoreOfFiles, PublicOfFiles' = PublicOfFiles
        PROVE  UNCHANGED Store!vars
    BY <1>1 DEF Store!vars, StoreOfFiles, PublicOfFiles, KeptEntry, ExportEntry
  <1>2. CASE disk' = disk
    <2>1. KeptFiles' = KeptFiles /\ ExportedFiles' = ExportedFiles
      BY <1>2 DEF KeptFiles, ExportedFiles, IsWallet, IsPublic, Intact
    <2> QED BY <1>1, <1>2, <2>1, SameFiles
  <1>3. ASSUME NEW p \in Proc, NEW f, NEW l, CreateNew(p, f, l)
        PROVE  UNCHANGED Store!vars
    <2>1. CASE disk' = disk
      <3>1. KeptFiles' = KeptFiles /\ ExportedFiles' = ExportedFiles
        BY <2>1 DEF KeptFiles, ExportedFiles, IsWallet, IsPublic, Intact
      <3> QED BY <1>1, <2>1, <3>1, SameFiles
    <2>2. CASE f \notin DOMAIN disk /\ disk' = Put(f, [kind |-> "partial", by |-> p])
      BY <1>1, <2>2, PartialIsStutter
    <2> QED BY <1>3, <2>1, <2>2 DEF CreateNew, TruncateAndOpen, Exists
  <1>4. ASSUME NEW p \in Proc, CreateWallet(p) \/ CreatePublic(p) \/ CreateNonDuress(p)
        PROVE  UNCHANGED Store!vars
    BY <1>3, <1>4 DEF CreateWallet, CreatePublic, CreateNonDuress
  <1>5. ASSUME NEW p \in Proc, WritePublic(p) PROVE Store!Next
    <2>1. Target(p) = PublicPath(req[p]) /\ pc[p] = "writePublic"
      BY <1>5 DEF WritePublic, Target
    <2> QED BY <1>5, <2>1, WriteExportPublishes DEF WritePublic
  <1>6. ASSUME NEW p \in Proc, WriteNonDuress(p) PROVE Store!Next
    <2>1. Target(p) = NonDuressPath(req[p]) /\ pc[p] = "writeNonDuress"
      BY <1>6 DEF WriteNonDuress, Target
    <2>2. typed[p] \in SeedPw \cup {None}
      BY <1>0 DEF TypeOK
    <2> QED BY <1>6, <2>1, <2>2, WriteExportPublishes DEF WriteNonDuress
  <1>7. ASSUME NEW f \in DOMAIN disk, Damage(f) PROVE UNCHANGED Store!vars
    BY <1>1, <1>7, DamageIsStutter
  <1>8. ASSUME NEW p \in Proc,
               \/ Parse(p) \/ Unlock(p) \/ ResolveNonDuress(p) \/ DeriveKey(p)
               \/ VerifyWallet(p) \/ ConfirmNonDuressPassword(p)
               \/ Crash(p) \/ IoError(p)
        PROVE  disk' = disk
    BY <1>8 DEF Parse, Unlock, ResolveNonDuress, DeriveKey, VerifyWallet,
         ConfirmNonDuressPassword, Crash, IoError
  <1>9. CASE UNCHANGED vars
    BY <1>2, <1>9 DEF vars
  <1> QED BY <1>2, <1>4, <1>5, <1>6, <1>7, <1>8, <1>9, WriteWalletKeeps DEF Next, Step

\* The commands implement the cold store: however they interleave, fail and are
\* cut short, every step adds a wallet under a name that was never used, adds an
\* export of a wallet that is kept (the decoy's before the hidden one's), or
\* changes nothing that is kept or exported.
THEOREM CommandsAreColdStore == Spec => ImplementsColdStore
  <1>1. Init => Store!Init
    BY DEF Init, EmptyDirectory, Store!Init, KeptFiles, ExportedFiles
  <1>2. IInv /\ [Next]_vars => [Store!Next]_(Store!vars)
    BY StepImplements
  <1> QED BY <1>1, <1>2, Invariant, PTL DEF Spec, ImplementsColdStore, Store!Spec
=============================================================================
