------------------------ MODULE InteractiveSessionProofs ------------------------
(***************************************************************************)
(* Proofs about InteractiveSession, for any arguments, words, files and      *)
(* bounds: what a device with internet may do, what is exported, shown and   *)
(* signed, and which words become a seed.                                   *)
(*                                                                         *)
(* The inductive invariant says what every step of a script leaves behind   *)
(* it, answered or skipped, and every answer, where it was asked for.        *)
(***************************************************************************)
EXTENDS InteractiveSession, SequenceFacts

---------------------------------------------------------------------------
(* Types of what a session keeps.                                           *)
Answers ==
    [listed : SUBSET Path, input : Path \cup {None}, file : Contents \cup {None},
     output : Path \cup {None}, public : Path \cup {None}, hidden_output : Path \cup {None},
     keyfiles : SUBSET Keyfile, mode : {"random", "all", "complete"}, typed : Seeds,
     words : Seeds, tries : Nat, mnemonic : Seeds, duress : BOOLEAN, password : Pw \cup {None},
     hidden : HiddenPw \cup {NoPw}, chosen : {"decoy", "hidden"}, confirmed : BOOLEAN]

Events ==
    [what : {"sealed", "export", "show", "sign"}, of : Creations \cup OpenActions,
     seed : Seeds, seed_password : HiddenPw \cup {NoPw}, chosen : {"decoy", "hidden"},
     confirmed : BOOLEAN]

TypeInv == TypeOK /\ answers \in Answers /\ done \subseteq Events

(* What a step leaves behind it, answered or skipped: of a script, with the   *)
(* answers a, an opened wallet w, the arguments g, the events d and the       *)
(* handle h of the lookup.                                                  *)
HiddenOf(a, w) == IF w = None THEN a.hidden ELSE w.hidden
SeedOf(a, w) == IF w = None THEN a.mnemonic ELSE w.seed
Left(step, script, a, w, g, d, h) ==
    /\ step = "check" =>
          \/ h = "taken"
          \/ script \in {"singlesig_generate", "batch_generate"} /\ g.password # None
    /\ step = "input" => a.input \in Path /\ a.file \in Contents
    /\ step = "output" => a.output \in Path
    /\ step = "hidden_output" => HiddenOf(a, w) = NoPw \/ a.hidden_output \in Path
    /\ step = "start_batch" => (a.duress \/ g.duress => a.public # None)
    /\ step = "words_checked" => a.mode = "random" \/ a.mnemonic # << >>
    /\ step = "confirm" =>
          \/ a.confirmed \/ HiddenOf(a, w) = NoPw
          \/ script \in {"ShowReceivingQrCode", "ShowSecrets", "SignPsbt"} /\ a.chosen = "decoy"
    /\ step = "seal" => (script \in Creations =>
          \E e \in d : e.what = "sealed" /\ e.seed = a.mnemonic)
    /\ step = "export" =>
          \/ script \in Creations \cup Openings /\ a.public = None
          \/ \E e \in d : e.what = "export" /\ e.seed = SeedOf(a, w) /\ e.seed_password = NoPw

StepsInv ==
    \A i \in 1..at : i < at =>
        Left(Script[doing][i], doing, answers, wallet, args, done, checker.h)

(* What is asked now was not to be skipped.                                 *)
SkippedBy(script, step, a, w, g) ==
    \/ /\ script \in Creations \cup Openings
       /\ \/ step = "keyfiles" /\ g.keyfiles # {}
          \/ step = "duress" /\ g.duress
          \/ step = "new_password" /\ g.password # None
          \/ /\ step = "check" /\ g.password # None
             /\ script \in {"singlesig_generate", "batch_generate"}
          \/ step = "password" /\ g.password # None /\ script = "singlesig_open"
          \/ step = "hidden_password" /\ ~(a.duress \/ g.duress)
          \/ step = "export" /\ a.public = None
          \/ step \in {"keyfiles", "password"} /\ a.file # None /\ a.file.kind = "multisigExport"
    \/ step \in {"words", "words_checked"} /\ a.mode = "random"
    \/ step = "acknowledge" /\ w.kind = "multisig"
    \/ /\ step \in {"choose", "hidden_output", "export_hidden", "confirm"}
       /\ HiddenOf(a, w) = NoPw
    \/ /\ step = "confirm" /\ script \in {"ShowReceivingQrCode", "ShowSecrets", "SignPsbt"}
       /\ a.chosen = "decoy"
NowInv == ~SkippedBy(doing, Script[doing][at], answers, wallet, args)

(* An answer that is there was asked for before.                            *)
Past(step, script, place) == \E i \in 1..place : i < place /\ Script[script][i] = step
Asked(a, script, place) ==
    /\ a.hidden # NoPw =>
          /\ Past("hidden_password", script, place)
          /\ script \in Creations => a.public \in Path /\ a.hidden_output \in Path
    /\ a.mode # "random" => script = "singlesig_generate" /\ Past("seed", script, place)
    /\ a.words # << >> =>
          /\ a.mode # "random"
          /\ Len(a.words) - Len(a.typed) \in 0..1
          /\ SubSeq(a.words, 1, Len(a.typed)) = a.typed
          /\ a.mode = "complete" => from_str(a.words) = "Ok"
    /\ a.mnemonic # << >> =>
          \/ Past("words_checked", script, place) \/ Past("cosigners", script, place)
          \/ Past("seal", script, place)
    /\ a.mode # "random" /\ a.mnemonic # << >> =>
          a.mnemonic = a.words /\ from_str(a.words) = "Ok"
AskedInv == Asked(answers, doing, at)

(* The lookup: whatever it said, only a process that may go on goes on.       *)
LookupInv ==
    /\ checker.h = "running" => looked = "unknown"
    /\ checker.h \in {"reachable", "unreachable"} => looked = checker.h
    /\ checker.h = "taken" /\ looked = "reachable" => doing = "ended"
    /\ wallet # None => checker.h = "taken"
    /\ checker.h # "taken" \/ looked = "reachable" =>
          \A d \in done : d.of \in Creations /\ args.password # None

(* What was done belongs to the one wallet that was made or opened.          *)
DoneInv ==
    /\ wallet # None => wallet.seed_password = NoPw
    /\ doing \in {"menu"} \cup Openings => done = {}
    /\ doing \in Creations =>
          \A d \in done : /\ d.of = doing /\ d.seed = answers.mnemonic
                          /\ Past("seal", doing, at)

IInv ==
    /\ TypeInv /\ StepsInv /\ NowInv /\ AskedInv /\ LookupInv /\ DoneInv /\ OutputsAsChosen
---------------------------------------------------------------------------
(* Induction, and the scripts.                                              *)

\* Min is the least of a set of numbers.
LEMMA MinIsLeast ==
    ASSUME NEW T \in SUBSET Nat, T # {}
    PROVE  Min(T) \in T /\ \A m \in T : Min(T) <= m
BY LeastNat DEF Min

Closing == {"menu", "open_menu", "another", "ended", "finish", "unlock"}

\* Every action has a script, and so have the menus.
LEMMA ScriptDomain ==
    DOMAIN Script = Creations \cup Openings \cup OpenActions
                        \cup {"menu", "open_menu", "another", "ended"}
BY DEF Script, Creations, Openings, OpenActions

\* A script is a sequence of steps, and only its last ends it.
LEMMA ScriptType ==
    ASSUME NEW s \in DOMAIN Script
    PROVE  /\ s \in Creations \cup Openings \cup OpenActions
                     \cup {"menu", "open_menu", "another", "ended"}
           /\ Len(Script[s]) \in Nat \ {0} /\ DOMAIN Script[s] = 1..Len(Script[s])
           /\ \A i \in 1..Len(Script[s]) : Script[s][i] \in Closing <=> i = Len(Script[s])
<1>1. CASE s = "singlesig_generate"
  BY <1>1 DEF Script, singlesig_interactive_generate_one, Creations, Openings, OpenActions, Closing
<1>2. CASE s = "multisig_generate"
  BY <1>2 DEF Script, multisig_interactive_generate_single, Creations, Openings, OpenActions, Closing
<1>3. CASE s = "batch_generate"
  BY <1>3 DEF Script, interactive_generate_batch, Creations, Openings, OpenActions, Closing
<1>4. CASE s = "singlesig_open"
  BY <1>4 DEF Script, singlesig_interactive_open, Creations, Openings, OpenActions, Closing
<1>5. CASE s = "multisig_open"
  BY <1>5 DEF Script, multisig_interactive_open, Creations, Openings, OpenActions, Closing
<1>6. CASE s = "ShowReceivingQrCode"
  BY <1>6 DEF Script, show_receiving_qr_code, Creations, Openings, OpenActions, Closing
<1>7. CASE s = "ExportPublicInfo"
  BY <1>7 DEF Script, export_public_info, Creations, Openings, OpenActions, Closing
<1>8. CASE s = "ShowSecrets"
  BY <1>8 DEF Script, show_secrets, Creations, Openings, OpenActions, Closing
<1>9. CASE s = "SignPsbt"
  BY <1>9 DEF Script, sign_psbt, Creations, Openings, OpenActions, Closing
<1>10. CASE s = "Reencode"
  BY <1>10 DEF Script, reencode, Creations, Openings, OpenActions, Closing
<1>11. CASE s \in {"menu", "open_menu", "another", "ended"}
  BY <1>11 DEF Script, Creations, Openings, OpenActions, Closing
<1> QED
  BY <1>1, <1>2, <1>3, <1>4, <1>5, <1>6, <1>7, <1>8, <1>9, <1>10, <1>11, ScriptDomain DEF Creations, Openings, OpenActions

\* The menus have one step.
LEMMA MenuScripts ==
    \A s \in {"menu", "open_menu", "another", "ended"} : Script[s] = << s >>
BY DEF Script

\* In which scripts a step is.
LEMMA StepScripts ==
    ASSUME NEW s \in DOMAIN Script, NEW i \in 1..Len(Script[s]), NEW step, Script[s][i] = step
    PROVE  /\ step \in {"seed", "words", "words_checked"} => s = "singlesig_generate"
           /\ step = "cosigners" => s = "multisig_generate"
           /\ step = "start_batch" => s = "batch_generate"
           /\ step = "public" => s \in Creations
           /\ step = "hidden_output" => s = "ExportPublicInfo"
           /\ step \in {"export", "export_hidden"} => s \in Creations \cup {"ExportPublicInfo"}
           /\ step = "seal" => s \in Creations \cup {"Reencode"}
           /\ step = "show" => s \in {"ShowReceivingQrCode", "ShowSecrets"}
           /\ step = "sign" => s = "SignPsbt"
           /\ step = "choose" => s \in OpenActions
           /\ step = "unlock" => s \in Openings
           /\ step = "acknowledge" => s \in OpenActions
           /\ step \in {"hidden_password", "duress"} =>
                s \in {"singlesig_generate", "batch_generate", "singlesig_open"}
           /\ step = "finish" => s \in Creations \cup OpenActions
           /\ step \in {"menu", "open_menu", "another", "ended"} => s = step
           /\ step = "check" => s \in Creations \cup Openings \cup {"Reencode"}
           /\ step = "output" => s \in Creations \cup {"ExportPublicInfo", "SignPsbt", "Reencode"}
<1>1. CASE s = "singlesig_generate"
  BY <1>1 DEF Script, singlesig_interactive_generate_one, Creations, Openings, OpenActions
<1>2. CASE s = "multisig_generate"
  BY <1>2 DEF Script, multisig_interactive_generate_single, Creations, Openings, OpenActions
<1>3. CASE s = "batch_generate"
  BY <1>3 DEF Script, interactive_generate_batch, Creations, Openings, OpenActions
<1>4. CASE s = "singlesig_open"
  BY <1>4 DEF Script, singlesig_interactive_open, Creations, Openings, OpenActions
<1>5. CASE s = "multisig_open"
  BY <1>5 DEF Script, multisig_interactive_open, Creations, Openings, OpenActions
<1>6. CASE s = "ShowReceivingQrCode"
  BY <1>6 DEF Script, show_receiving_qr_code, Creations, Openings, OpenActions
<1>7. CASE s = "ExportPublicInfo"
  BY <1>7 DEF Script, export_public_info, Creations, Openings, OpenActions
<1>8. CASE s = "ShowSecrets"
  BY <1>8 DEF Script, show_secrets, Creations, Openings, OpenActions
<1>9. CASE s = "SignPsbt"
  BY <1>9 DEF Script, sign_psbt, Creations, Openings, OpenActions
<1>10. CASE s = "Reencode"
  BY <1>10 DEF Script, reencode, Creations, Openings, OpenActions
<1>11. CASE s \in {"menu", "open_menu", "another", "ended"}
  BY <1>11, MenuScripts DEF Creations, Openings, OpenActions
<1> QED
  BY <1>1, <1>2, <1>3, <1>4, <1>5, <1>6, <1>7, <1>8, <1>9, <1>10, <1>11, ScriptType DEF Creations, Openings, OpenActions

\* What comes first in the scripts: no step before one that its outcome depends on.
LEMMA StepOrder ==
    ASSUME NEW s \in DOMAIN Script, NEW i \in 1..Len(Script[s]), NEW j \in 1..i, j < i
    PROVE  /\ Script[s][j] = "confirm" => Script[s][i] \notin {"choose", "hidden_password"}
           /\ Script[s][j] = "hidden_output" => Script[s][i] # "hidden_password"
           /\ Script[s][j] = "start_batch" => Script[s][i] \notin {"public", "duress"}
           /\ Script[s][j] = "seal" =>
                Script[s][i] \notin {"cosigners", "seed", "words", "words_checked", "seal"}
           /\ Script[s][j] = "export" =>
                Script[s][i] \notin {"cosigners", "seal", "public", "words_checked", "export"}
           /\ Script[s][j] = "words_checked" =>
                Script[s][i] \notin {"seed", "words", "words_checked"}
           /\ Script[s][j] = "seed" => Script[s][i] # "seed"
           /\ Script[s][j] = "hidden_password" =>
                Script[s][i] \notin {"public", "duress", "hidden_password"}
<1>1. CASE s = "singlesig_generate"
  BY <1>1 DEF Script, singlesig_interactive_generate_one
<1>2. CASE s = "multisig_generate"
  BY <1>2 DEF Script, multisig_interactive_generate_single
<1>3. CASE s = "batch_generate"
  BY <1>3 DEF Script, interactive_generate_batch
<1>4. CASE s = "singlesig_open"
  BY <1>4 DEF Script, singlesig_interactive_open
<1>5. CASE s = "multisig_open"
  BY <1>5 DEF Script, multisig_interactive_open
<1>6. CASE s = "ShowReceivingQrCode"
  BY <1>6 DEF Script, show_receiving_qr_code
<1>7. CASE s = "ExportPublicInfo"
  BY <1>7 DEF Script, export_public_info
<1>8. CASE s = "ShowSecrets"
  BY <1>8 DEF Script, show_secrets
<1>9. CASE s = "SignPsbt"
  BY <1>9 DEF Script, sign_psbt
<1>10. CASE s = "Reencode"
  BY <1>10 DEF Script, reencode
<1>11. CASE s \in {"menu", "open_menu", "another", "ended"}
  BY <1>11, MenuScripts
<1> QED
  BY <1>1, <1>2, <1>3, <1>4, <1>5, <1>6, <1>7, <1>8, <1>9, <1>10, <1>11, ScriptType DEF Creations, Openings, OpenActions


\* What came before a step.
LEMMA StepsBefore ==
    ASSUME NEW s \in DOMAIN Script, NEW i \in 1..Len(Script[s])
    PROVE  /\ Script[s][i] \in {"seal", "sign", "public", "hidden_output"} => Past("output", s, i)
           /\ Script[s][i] = "export" => Past(IF s \in Creations THEN "seal" ELSE "output", s, i)
           /\ Script[s][i] = "export_hidden" =>
                /\ Past("export", s, i) /\ Past("confirm", s, i)
                /\ s \in Creations => Past("seal", s, i)
                /\ s \notin Creations => Past("hidden_output", s, i)
           /\ Script[s][i] \in {"show", "sign"} => Past("confirm", s, i)
           /\ Script[s][i] \in {"seal", "unlock", "export", "export_hidden"}
                  /\ s \in Creations \cup Openings => Past("check", s, i)
           /\ Script[s][i] = "unlock" => Past("input", s, i)
           /\ s = "SignPsbt" /\ Script[s][i] = "output" => Past("input", s, i)
           /\ Script[s][i] = "hidden_password" /\ s = "batch_generate" => Past("start_batch", s, i)
           /\ s = "singlesig_generate" /\ Script[s][i] = "seal" => Past("words_checked", s, i)
           /\ Script[s][i] = "words_checked" => i > 1 /\ Script[s][i - 1] = "words"
           /\ Script[s][i] = "words" => Past("seed", s, i)
<1>1. CASE s = "singlesig_generate"
  BY <1>1 DEF Script, singlesig_interactive_generate_one, Past, Creations, Openings
<1>2. CASE s = "multisig_generate"
  BY <1>2 DEF Script, multisig_interactive_generate_single, Past, Creations, Openings
<1>3. CASE s = "batch_generate"
  BY <1>3 DEF Script, interactive_generate_batch, Past, Creations, Openings
<1>4. CASE s = "singlesig_open"
  BY <1>4 DEF Script, singlesig_interactive_open, Past, Creations, Openings
<1>5. CASE s = "multisig_open"
  BY <1>5 DEF Script, multisig_interactive_open, Past, Creations, Openings
<1>6. CASE s = "ShowReceivingQrCode"
  BY <1>6 DEF Script, show_receiving_qr_code, Past, Creations, Openings
<1>7. CASE s = "ExportPublicInfo"
  BY <1>7 DEF Script, export_public_info, Past, Creations, Openings
<1>8. CASE s = "ShowSecrets"
  BY <1>8 DEF Script, show_secrets, Past, Creations, Openings
<1>9. CASE s = "SignPsbt"
  BY <1>9 DEF Script, sign_psbt, Past, Creations, Openings
<1>10. CASE s = "Reencode"
  BY <1>10 DEF Script, reencode, Past, Creations, Openings
<1>11. CASE s \in {"menu", "open_menu", "another", "ended"}
  BY <1>11, MenuScripts DEF Past, Creations, Openings
<1> QED
  BY <1>1, <1>2, <1>3, <1>4, <1>5, <1>6, <1>7, <1>8, <1>9, <1>10, <1>11, ScriptType DEF Creations, Openings, OpenActions

---------------------------------------------------------------------------
(* Going on to the next step.                                               *)

\* SkippedBy is Skipped, of the wallet and the arguments there are.
LEMMA SkippedIs ==
    ASSUME NEW s, NEW step, NEW a
    PROVE  Skipped(s, step, a) <=> SkippedBy(s, step, a, wallet, args)
BY DEF Skipped, SkippedBy, Duress, Hidden, HiddenOf

\* The last step of a script is never skipped.
LEMMA LastIsAsked ==
    ASSUME NEW s, NEW step \in Closing, NEW a, NEW w, NEW g
    PROVE  ~SkippedBy(s, step, a, w, g)
BY DEF SkippedBy, Closing

\* The next step is the first that is not skipped.
LEMMA NextPlace ==
    ASSUME NEW s \in DOMAIN Script, NEW k \in 0..(Len(Script[s]) - 1), NEW a
    PROVE  LET j == NextStep(s, k, a) IN
           /\ j \in (k + 1)..Len(Script[s])
           /\ ~SkippedBy(s, Script[s][j], a, wallet, args)
           /\ \A i \in (k + 1)..(j - 1) : SkippedBy(s, Script[s][i], a, wallet, args)
<1> DEFINE T == {j \in (k + 1)..Len(Script[s]) : ~Skipped(s, Script[s][j], a)}
<1>1. Len(Script[s]) \in Nat \ {0} /\ Script[s][Len(Script[s])] \in Closing
  BY ScriptType
<1>2. Len(Script[s]) \in T
  BY <1>1, LastIsAsked, SkippedIs
<1>3. T \in SUBSET Nat /\ T # {}
  BY <1>1, <1>2
<1>4. Min(T) \in T /\ \A m \in T : Min(T) <= m
  BY <1>3, MinIsLeast
<1>5. \A i \in (k + 1)..(Min(T) - 1) : i \in (k + 1)..Len(Script[s]) /\ i \notin T
  BY <1>1, <1>4
<1> QED
  BY <1>4, <1>5, SkippedIs DEF NextStep

\* A step that is skipped leaves what an answered one does.
LEMMA SkippedLeaves ==
    ASSUME NEW s, NEW step, NEW a, NEW w, NEW g, NEW d, NEW h, SkippedBy(s, step, a, w, g)
    PROVE  Left(step, s, a, w, g, d, h)
BY DEF SkippedBy, Left

\* What is past stays past.
LEMMA PastGrows ==
    ASSUME NEW s, NEW step, NEW k \in Nat, NEW n \in Nat, k <= n, Past(step, s, k)
    PROVE  Past(step, s, n)
BY DEF Past

\* What was asked stays asked.
LEMMA AskedGrows ==
    ASSUME NEW s, NEW a, NEW k \in Nat, NEW n \in Nat, k <= n, Asked(a, s, k)
    PROVE  Asked(a, s, n)
BY PastGrows DEF Asked

\* A step that answers and goes on keeps what the steps before it left, if it
\* does itself.
LEMMA AdvanceSteps ==
    ASSUME doing \in DOMAIN Script, at \in DOMAIN Script[doing], Now \notin Closing,
           NEW a, Advance(a), UNCHANGED << wallet, args >>,
           \A i \in 1..at : i < at =>
              Left(Script[doing][i], doing, a, wallet, args, done', checker'.h),
           Left(Now, doing, a, wallet, args, done', checker'.h),
           Asked(a, doing, at + 1)
    PROVE  /\ doing' = doing /\ answers' = a
           /\ at' \in (at + 1)..Len(Script[doing])
           /\ StepsInv' /\ NowInv' /\ AskedInv'
<1>1. at \in 1..(Len(Script[doing]) - 1) /\ Len(Script[doing]) \in Nat \ {0}
  BY ScriptType DEF Now
<1>2. PICK j : j = at'
  OBVIOUS
<1>3. /\ doing' = doing /\ answers' = a /\ j = NextStep(doing, at, a)
      /\ wallet' = wallet /\ args' = args
  BY <1>2 DEF Advance
<1>4. /\ j \in (at + 1)..Len(Script[doing])
      /\ ~SkippedBy(doing, Script[doing][j], a, wallet, args)
      /\ \A i \in (at + 1)..(j - 1) : SkippedBy(doing, Script[doing][i], a, wallet, args)
  BY <1>1, <1>3, NextPlace
<1>5. \A i \in 1..j : i < j => Left(Script[doing][i], doing, a, wallet, args, done', checker'.h)
  <2> SUFFICES ASSUME NEW i \in 1..j, i < j
               PROVE  Left(Script[doing][i], doing, a, wallet, args, done', checker'.h)
    OBVIOUS
  <2>1. CASE i = at
    BY <2>1 DEF Now
  <2>2. CASE i < at
    BY <1>1, <2>2
  <2>3. CASE i > at
    <3>1. i \in (at + 1)..(j - 1)
      BY <1>1, <1>4, <2>3
    <3> QED
      BY <1>4, <3>1, SkippedLeaves
  <2> QED
    BY <1>1, <1>4, <2>1, <2>2, <2>3
<1>6. StepsInv'
  BY <1>2, <1>3, <1>5 DEF StepsInv
<1>7. NowInv'
  BY <1>2, <1>3, <1>4 DEF NowInv
<1>8. AskedInv'
  <2>1. Asked(a, doing, j)
    BY <1>1, <1>4, AskedGrows
  <2> QED
    BY <1>2, <1>3, <2>1 DEF AskedInv
<1> QED
  BY <1>2, <1>3, <1>4, <1>6, <1>7, <1>8

\* Before anything is answered there is nothing an answer would need.
LEMMA BlankFacts ==
    /\ Blank \in Answers
    /\ \A s, k : Asked(Blank, s, k)
<1>1. << >> \in Seeds
  BY DEF Seeds
<1>2. Blank \in Answers
  BY <1>1 DEF Blank, Answers
<1> QED
  BY <1>2 DEF Blank, Asked

\* A script starts with its first step that is not skipped.
LEMMA GotoSteps ==
    ASSUME NEW s \in DOMAIN Script, Goto(s), UNCHANGED << wallet, args >>
    PROVE  /\ doing' = s /\ answers' = Blank /\ at' \in 1..Len(Script[s])
           /\ StepsInv' /\ NowInv' /\ AskedInv'
<1>1. Len(Script[s]) \in Nat \ {0}
  BY ScriptType
<1>2. PICK j : j = at'
  OBVIOUS
<1>3. doing' = s /\ answers' = Blank /\ j = NextStep(s, 0, Blank)
  BY <1>2 DEF Goto
<1>4. /\ j \in (0 + 1)..Len(Script[s]) /\ ~SkippedBy(s, Script[s][j], Blank, wallet, args)
      /\ \A i \in (0 + 1)..(j - 1) : SkippedBy(s, Script[s][i], Blank, wallet, args)
  <2>1. 0 \in 0..(Len(Script[s]) - 1)
    BY <1>1
  <2> QED
    BY <1>3, <2>1, NextPlace
<1>5. \A i \in 1..j : i < j => Left(Script[s][i], s, Blank, wallet, args, done', checker'.h)
  BY <1>4, SkippedLeaves
<1>6. StepsInv'
  BY <1>2, <1>3, <1>5 DEF StepsInv
<1>7. NowInv'
  BY <1>2, <1>3, <1>4 DEF NowInv
<1>8. AskedInv'
  BY <1>3, BlankFacts DEF AskedInv
<1> QED
  BY <1>2, <1>3, <1>4, <1>6, <1>7, <1>8

\* A menu is asked for what it is.
LEMMA MenuSteps ==
    ASSUME doing' \in {"menu", "open_menu", "another", "ended"}, at' = 1, answers' = Blank
    PROVE  at' \in DOMAIN Script[doing'] /\ StepsInv' /\ NowInv' /\ AskedInv'
<1>1. Script[doing'] = << doing' >>
  BY MenuScripts
<1>2. StepsInv'
  BY DEF StepsInv
<1>3. NowInv'
  BY <1>1, LastIsAsked DEF NowInv, Closing
<1>4. AskedInv'
  BY BlankFacts DEF AskedInv
<1> QED
  BY <1>1, <1>2, <1>3, <1>4

\* Going to a menu stands at its only step.
LEMMA GotoMenu ==
    ASSUME NEW s \in {"menu", "open_menu", "another", "ended"}, Goto(s)
    PROVE  doing' = s /\ at' = 1 /\ answers' = Blank
<1>1. Script[s] = << s >> /\ s \in DOMAIN Script
  BY MenuScripts, ScriptDomain
<1>2. Len(Script[s]) = 1 /\ 0 \in 0..(Len(Script[s]) - 1)
  BY <1>1
<1>3. NextStep(s, 0, Blank) \in (0 + 1)..Len(Script[s])
  BY <1>1, <1>2, NextPlace
<1> QED
  BY <1>2, <1>3 DEF Goto

---------------------------------------------------------------------------
(* The initial states, and the steps that only ask.                         *)

\* The invariant holds at first.
LEMMA InitInv == Init => IInv
<1> SUFFICES ASSUME Init PROVE IInv
  OBVIOUS
<1> USE DEF Init
<1>1. TypeInv
  <2>1. at \in DOMAIN Script[doing] /\ doing \in DOMAIN Script
    BY MenuScripts, ScriptDomain
  <2>2. answers \in Answers
    BY BlankFacts
  <2>3. processes \in 1..MaxProcesses /\ actions \in 0..MaxActions
    BY SessionAssumption
  <2>4. DOMAIN files \subseteq Path /\ \A n \in DOMAIN files : files[n] \in Contents
    BY SessionAssumption
  <2> QED
    BY <2>1, <2>2, <2>3, <2>4 DEF TypeInv, TypeOK, Answers, OpenActions
<1>2. StepsInv
  BY DEF StepsInv
<1>3. NowInv
  BY MenuScripts, LastIsAsked DEF NowInv, Closing
<1>4. AskedInv
  BY BlankFacts DEF AskedInv
<1>5. LookupInv /\ DoneInv /\ OutputsAsChosen
  BY DEF LookupInv, DoneInv, OutputsAsChosen, Creations
<1> QED
  BY <1>1, <1>2, <1>3, <1>4, <1>5 DEF IInv

\* What the questions cannot change.
LEMMA AsksFrame ==
    ASSUME Asks
    PROVE  /\ args' = args /\ processes' = processes /\ actions' = actions /\ files' = files
           /\ checker' = checker /\ looked' = looked /\ done' = done /\ wallet' = wallet
BY DEF Asks, Quiet

\* A question that is answered.
LEMMA AdvanceInv ==
    ASSUME IInv, Asks, Now \notin Closing, NEW a \in Answers, Advance(a),
           \A i \in 1..at : i < at =>
              Left(Script[doing][i], doing, a, wallet, args, done, checker.h),
           Left(Now, doing, a, wallet, args, done, checker.h),
           Asked(a, doing, at + 1),
           a.mnemonic = answers.mnemonic \/ done = {}
    PROVE  IInv'
<1>1. /\ doing' = doing /\ answers' = a /\ at' \in (at + 1)..Len(Script[doing])
      /\ StepsInv' /\ NowInv' /\ AskedInv'
  BY AdvanceSteps, AsksFrame DEF IInv, TypeInv, TypeOK
<1>2. at \in Nat /\ at' \in Nat /\ at <= at' /\ at' \in DOMAIN Script[doing]
  BY <1>1, ScriptType DEF IInv, TypeInv, TypeOK
<1>3. TypeInv'
  BY <1>1, <1>2, AsksFrame DEF IInv, TypeInv, TypeOK, Answers
<1>4. LookupInv'
  BY <1>1, AsksFrame DEF IInv, LookupInv
<1>5. DoneInv'
  <2>1. doing \in Creations /\ Past("seal", doing, at) => Past("seal", doing, at')
    BY <1>2, PastGrows
  <2> QED
    BY <1>1, <2>1, AsksFrame DEF IInv, DoneInv
<1>6. OutputsAsChosen'
  BY AsksFrame DEF IInv, OutputsAsChosen
<1> QED
  BY <1>1, <1>3, <1>4, <1>5, <1>6 DEF IInv

\* The end of a process, by itself or because it found internet.
LEMMA EndInv ==
    ASSUME IInv, End, UNCHANGED << args, processes, actions, files, looked, done >>,
           \/ checker' = checker
           \/ /\ checker'.h = "taken"
              /\ checker' \in [h : {"running", "reachable", "unreachable", "taken"},
                               is_connected : {"unknown", "reachable", "unreachable"}]
    PROVE  IInv'
<1>1. /\ doing' = "ended" /\ at' = 1 /\ answers' = Blank /\ wallet' = None
      /\ args' = args /\ processes' = processes /\ actions' = actions /\ files' = files
      /\ looked' = looked /\ done' = done
  BY DEF End
<1>2. /\ at' \in DOMAIN Script[doing'] /\ doing' \in DOMAIN Script
      /\ StepsInv' /\ NowInv' /\ AskedInv'
  BY <1>1, MenuSteps, ScriptDomain
<1>3. TypeInv'
  BY <1>1, <1>2, BlankFacts DEF IInv, TypeInv, TypeOK, Answers, OpenActions
<1>4. LookupInv'
  BY <1>1 DEF IInv, LookupInv, TypeInv, TypeOK
<1>5. DoneInv'
  BY <1>1 DEF DoneInv, Openings, Creations
<1>6. OutputsAsChosen'
  BY <1>1 DEF IInv, OutputsAsChosen
<1> QED
  BY <1>2, <1>3, <1>4, <1>5, <1>6 DEF IInv

\* Ending keeps the invariant.
LEMMA EndsInv == ASSUME IInv, Ends PROVE IInv'
<1>1. /\ End /\ checker' = checker
      /\ UNCHANGED << args, processes, actions, files, looked, done >>
  BY DEF Ends, Quiet
<1> QED
  BY <1>1, EndInv

\* The same question again.
LEMMA AskAgainInv == ASSUME IInv, Asks, AskAgain(answers) PROVE IInv'
<1>1. /\ doing' = doing /\ at' = at /\ answers' = answers
  BY DEF AskAgain
<1> QED
  BY <1>1, AsksFrame
  DEF IInv, TypeInv, TypeOK, StepsInv, NowInv, AskedInv, LookupInv, DoneInv, OutputsAsChosen

\* From a menu to a script, and back.
LEMMA GotoInv ==
    ASSUME IInv, doing # "ended", NEW s \in DOMAIN Script, Goto(s), actions' \in 0..MaxActions,
           UNCHANGED << args, processes, files, checker, looked, done, wallet >>,
           \/ wallet = None /\ done = {} /\ s \in Creations \cup Openings
           \/ wallet # None /\ s \in OpenActions \cup {"open_menu", "another"}
    PROVE  IInv'
<1>1. /\ doing' = s /\ answers' = Blank /\ at' \in DOMAIN Script[s]
      /\ StepsInv' /\ NowInv' /\ AskedInv'
  BY GotoSteps, ScriptType
<1>2. TypeInv'
  BY <1>1, BlankFacts
  DEF IInv, TypeInv, TypeOK, Answers, OpenActions, Creations, Openings
<1>3. LookupInv'
  BY <1>1 DEF IInv, TypeInv, TypeOK, LookupInv, OpenActions, Creations, Openings
<1>4. DoneInv'
  BY <1>1 DEF IInv, DoneInv, OpenActions, Creations, Openings
<1>5. OutputsAsChosen'
  BY DEF IInv, OutputsAsChosen
<1> QED
  BY <1>1, <1>2, <1>3, <1>4, <1>5 DEF IInv

---------------------------------------------------------------------------
(* The menus, processes and files.                                          *)

\* A menu is one step: what is asked tells which.
LEMMA AtMenu ==
    ASSUME TypeInv
    PROVE  /\ Now = Script[doing][at] /\ at \in 1..Len(Script[doing])
           /\ Now \in {"menu", "open_menu", "another", "ended"} => doing = Now
           /\ Now = "finish" => doing \in Creations \cup OpenActions
           /\ Now = "acknowledge" => doing \in OpenActions
BY StepScripts, ScriptType DEF TypeInv, TypeOK, Now

\* The menus, and leaving at any question, keep the invariant.
LEMMA MenuInv ==
    ASSUME IInv, PickMainAction \/ PickOpenAction \/ Another \/ Finish \/ Interrupt
    PROVE  IInv'
<1> USE AtMenu, ScriptDomain
<1>0. TypeInv /\ DoneInv
  BY DEF IInv
<1>1. CASE Ends
  BY <1>1, EndsInv
<1>2. ASSUME Now = "menu", Asks, NEW s \in Creations \cup Openings, Goto(s) PROVE IInv'
  <2>1. wallet = None /\ done = {} /\ doing # "ended" /\ s \in DOMAIN Script
    BY <1>0, <1>2 DEF TypeInv, TypeOK, DoneInv, OpenActions
  <2>2. actions' \in 0..MaxActions
    BY <1>0, <1>2, AsksFrame DEF TypeInv, TypeOK
  <2> QED
    BY <1>2, <2>1, <2>2, GotoInv, AsksFrame
<1>3. ASSUME Now = "open_menu", actions < MaxActions, actions' = actions + 1,
             NEW s \in OpenActions \cup {"another"}, Goto(s),
             UNCHANGED << args, processes, files, checker, looked, done, wallet >>
      PROVE  IInv'
  <2>1. wallet # None /\ doing # "ended" /\ s \in DOMAIN Script /\ actions' \in 0..MaxActions
    BY <1>0, <1>3, SessionAssumption DEF TypeInv, TypeOK, OpenActions
  <2> QED
    BY <1>3, <2>1, GotoInv
<1>4. ASSUME Asks, NEW s \in {"open_menu", "another"}, Goto(s),
             Now = "another" \/ (Now = "finish" /\ doing \notin Creations)
      PROVE  IInv'
  <2>1. wallet # None /\ doing # "ended" /\ s \in DOMAIN Script
    BY <1>0, <1>4 DEF TypeInv, TypeOK, OpenActions
  <2>2. actions' \in 0..MaxActions
    BY <1>0, <1>4, AsksFrame DEF TypeInv, TypeOK
  <2> QED
    BY <1>4, <2>1, <2>2, GotoInv, AsksFrame
<1>5. CASE PickMainAction
  BY <1>1, <1>2, <1>5 DEF PickMainAction
<1>6. CASE PickOpenAction
  BY <1>1, <1>3, <1>6 DEF PickOpenAction
<1>7. CASE Another
  BY <1>1, <1>4, <1>7 DEF Another
<1>8. CASE Finish
  BY <1>0, <1>1, <1>4, <1>8 DEF Finish
<1>9. CASE Interrupt
  BY <1>1, <1>9 DEF Interrupt
<1> QED
  BY <1>5, <1>6, <1>7, <1>8, <1>9

\* A new process starts with nothing but the files.
LEMMA StartInv == ASSUME IInv, Start PROVE IInv'
<1>1. /\ doing' = "menu" /\ at' = 1 /\ answers' = Blank /\ wallet' = None /\ done' = {}
      /\ looked' = "unknown" /\ files' = files /\ doing = "ended"
      /\ args' \in Args /\ processes' = processes + 1 /\ actions' = 0
      /\ checker'.h \in {"running", "taken"}
      /\ checker' \in [h : {"running", "taken"}, is_connected : {"unknown"}]
  BY DEF Start, IInv, TypeInv, TypeOK, OpenActions
<1>2. /\ at' \in DOMAIN Script[doing'] /\ doing' \in DOMAIN Script
      /\ StepsInv' /\ NowInv' /\ AskedInv'
  BY <1>1, MenuSteps, ScriptDomain
<1>3. processes' \in 1..MaxProcesses /\ actions' \in 0..MaxActions
  BY <1>1, SessionAssumption DEF Start, IInv, TypeInv, TypeOK
<1>4. TypeInv'
  BY <1>1, <1>2, <1>3, BlankFacts DEF IInv, TypeInv, TypeOK, Answers, OpenActions
<1>5. LookupInv' /\ DoneInv' /\ OutputsAsChosen'
  BY <1>1 DEF LookupInv, DoneInv, OutputsAsChosen, Creations
<1> QED
  BY <1>2, <1>4, <1>5 DEF IInv

\* The lookup ends whenever it likes, and changes no answer.
LEMMA LookupEndsInv == ASSUME IInv, LookupEnds PROVE IInv'
<1>1. PICK result \in {"reachable", "unreachable"} :
        checker' = [checker EXCEPT !.h = result] /\ looked' = result
  BY DEF LookupEnds
<1>2. /\ checker.h = "running" /\ args' = args /\ processes' = processes /\ actions' = actions
      /\ files' = files /\ doing' = doing /\ at' = at /\ answers' = answers /\ wallet' = wallet
      /\ done' = done
  BY DEF LookupEnds
<1>3. checker'.h = result /\ checker' \in
        [h : {"running", "reachable", "unreachable", "taken"},
         is_connected : {"unknown", "reachable", "unreachable"}]
  BY <1>1 DEF IInv, TypeInv, TypeOK
<1>4. TypeInv'
  BY <1>1, <1>2, <1>3 DEF IInv, TypeInv, TypeOK
<1>5. StepsInv'
  BY <1>2, <1>3 DEF IInv, StepsInv, Left
<1>6. NowInv' /\ AskedInv' /\ DoneInv' /\ OutputsAsChosen'
  BY <1>2 DEF IInv, NowInv, AskedInv, DoneInv, OutputsAsChosen
<1>7. LookupInv'
  BY <1>1, <1>2, <1>3 DEF IInv, LookupInv
<1> QED
  BY <1>4, <1>5, <1>6, <1>7 DEF IInv

\* Somebody takes a file away.
LEMMA VanishInv == ASSUME IInv, Vanish PROVE IInv'
<1>1. /\ args' = args /\ processes' = processes /\ actions' = actions /\ checker' = checker
      /\ looked' = looked /\ doing' = doing /\ at' = at /\ answers' = answers
      /\ wallet' = wallet /\ done' = done
  BY DEF Vanish
<1>2. DOMAIN files' \subseteq Path /\ \A n \in DOMAIN files' : files'[n] \in Contents
  BY DEF Vanish, IInv, TypeInv, TypeOK
<1> QED
  BY <1>1, <1>2
  DEF IInv, TypeInv, TypeOK, StepsInv, NowInv, AskedInv, LookupInv, DoneInv, OutputsAsChosen

---------------------------------------------------------------------------
(* The words of a seed.                                                     *)

\* A nonempty set of numbers up to n has a largest, which is its Max.
LEMMA MaxIsLargest ==
    ASSUME NEW n \in Nat, NEW T \in SUBSET (1..n), T # {}
    PROVE  Max(T) \in T /\ \A m \in T : m <= Max(T)
<1> DEFINE U == {k \in Nat : \A m \in T : m <= k}
<1>1. n \in U
  OBVIOUS
<1>2. PICK k \in U : \A j \in U : k <= j
  BY <1>1, LeastNat
<1>3. k \in T
  <2> SUFFICES ASSUME k \notin T PROVE FALSE
    OBVIOUS
  <2>0. \A m \in T : m \in Nat /\ m > 0 /\ m <= k
    BY <1>2
  <2>1. k > 0 /\ \A m \in T : m <= k - 1
    <3>1. PICK m \in T : TRUE
      BY T # {}
    <3>2. k > 0
      BY <2>0, <3>1, <1>2
    <3>3. ASSUME NEW i \in T PROVE i <= k - 1
      BY <2>0, <1>2
    <3> QED
      BY <3>2, <3>3
  <2>2. k - 1 \in U
    BY <2>1
  <2> QED
    BY <1>2, <2>1, <2>2
<1>4. \E x \in T : \A m \in T : x >= m
  BY <1>2, <1>3
<1> QED
  BY <1>4 DEF Max

\* A member that no member exceeds is the Max.
LEMMA MaxIs ==
    ASSUME NEW n \in Nat, NEW T \in SUBSET (1..n), NEW k \in T, \A m \in T : m <= k
    PROVE  Max(T) = k
<1>1. Max(T) \in T /\ k <= Max(T)
  BY MaxIsLargest
<1>2. Max(T) <= k
  BY <1>1
<1>3. Max(T) \in Nat /\ k \in Nat
  <2>1. \A m \in T : m \in Nat
    OBVIOUS
  <2> QED
    BY <1>1, <2>1
<1> QED
  BY <1>1, <1>2, <1>3

\* The fold that Value takes of bits, over every set of places.
LEMMA ValueOfSets ==
    ASSUME NEW bits, NEW n \in Nat
    PROVE  \E f : f = [s \in SUBSET (1..n) |->
                          IF s = {} THEN 0 ELSE 2 * f[s \ {Max(s)}] + bits[Max(s)]]
<1> DEFINE G(f, s) == IF s = {} THEN 0 ELSE 2 * f[s \ {Max(s)}] + bits[Max(s)]
           N == {k \in Nat : \E f : f = [s \in SUBSET (1..k) |-> G(f, s)]}
<1>1. 0 \in N
  <2>1. [s \in SUBSET (1..0) |-> 0] = [s \in SUBSET (1..0) |-> G([t \in SUBSET (1..0) |-> 0], s)]
    OBVIOUS
  <2> QED
    BY <2>1
<1>2. ASSUME NEW k \in Nat, k \in N PROVE k + 1 \in N
  <2>1. PICK f : f = [s \in SUBSET (1..k) |-> G(f, s)]
    BY <1>2
  <2> DEFINE g == [s \in SUBSET (1..(k + 1)) |->
                       IF k + 1 \in s THEN 2 * f[s \ {k + 1}] + bits[k + 1] ELSE f[s]]
  <2>2. ASSUME NEW s \in SUBSET (1..(k + 1)) PROVE g[s] = G(g, s)
    <3>1. CASE k + 1 \in s
      <4>1. Max(s) = k + 1
        BY <3>1, MaxIs
      <4>2. s \ {k + 1} \in SUBSET (1..k) /\ s \ {k + 1} \in SUBSET (1..(k + 1))
        OBVIOUS
      <4>3. g[s \ {k + 1}] = f[s \ {k + 1}]
        BY <4>2
      <4> QED
        BY <3>1, <4>1, <4>3
    <3>2. CASE k + 1 \notin s
      <4>0. s \in SUBSET (1..k)
        BY <3>2
      <4>1. s \ {Max(s)} \in SUBSET (1..k) /\ s \ {Max(s)} \in SUBSET (1..(k + 1))
            /\ k + 1 \notin s \ {Max(s)}
        BY <3>2, <4>0
      <4>2. g[s] = f[s] /\ g[s \ {Max(s)}] = f[s \ {Max(s)}]
        BY <3>2, <4>0, <4>1
      <4>3. f[s] = G(f, s)
        <5> HIDE DEF G
        <5> QED
          BY <2>1, <4>0
      <4> QED
        BY <4>2, <4>3
    <3> QED
      BY <3>1, <3>2
  <2>3. g = [s \in SUBSET (1..(k + 1)) |-> G(g, s)]
    <3> HIDE DEF G
    <3> QED
      BY <2>2
  <2> HIDE DEF g, G
  <2> QED
    BY <2>3
<1>3. n \in N
  <2> HIDE DEF N
  <2> QED
    BY <1>1, <1>2, InductionOnNat
<1> QED
  BY <1>3

\* Value reads eleven bits as a number, one after the other.
LEMMA ValueOfEleven ==
    ASSUME NEW bits \in [1..11 -> {0, 1}]
    PROVE  \E f : /\ f[0] = 0 /\ f[11] = Value(bits)
                  /\ \A k \in 1..11 : f[k] = 2 * f[k - 1] + bits[k]
<1> DEFINE f == CHOOSE f : f = [s \in SUBSET (1..11) |->
                          IF s = {} THEN 0 ELSE 2 * f[s \ {Max(s)}] + bits[Max(s)]]
           g == [k \in 0..11 |-> f[1..k]]
<1>1. f = [s \in SUBSET (1..11) |->
              IF s = {} THEN 0 ELSE 2 * f[s \ {Max(s)}] + bits[Max(s)]]
  BY ValueOfSets, Zenon
<1>2. Value(bits) = f[1..11]
  <2>1. DOMAIN bits = 1..11
    OBVIOUS
  <2> QED
    BY <2>1, Zenon DEF Value, FoldLeft, MapThenFoldSet
<1> HIDE DEF f
<1>3. f[{}] = 0 /\ 1..0 = {}
  BY <1>1
<1>4. ASSUME NEW k \in 1..11 PROVE f[1..k] = 2 * f[1..(k - 1)] + bits[k]
  <2>1. 1..k \in SUBSET (1..11) /\ 1..k # {} /\ k \in 1..k /\ \A m \in 1..k : m <= k
    OBVIOUS
  <2>2. Max(1..k) = k
    BY <2>1, MaxIs
  <2>3. (1..k) \ {k} = 1..(k - 1)
    OBVIOUS
  <2> QED
    BY <1>1, <2>1, <2>2, <2>3
<1>5. g[0] = 0 /\ g[11] = Value(bits)
  BY <1>2, <1>3
<1>6. ASSUME NEW k \in 1..11 PROVE g[k] = 2 * g[k - 1] + bits[k]
  <2>1. g[k] = f[1..k] /\ g[k - 1] = f[1..(k - 1)]
    OBVIOUS
  <2> QED
    BY <1>4, <2>1
<1> HIDE DEF g
<1> QED
  BY <1>5, <1>6

\* A number has eleven bits, which are bits; and it is halved.
LEMMA BitsType ==
    ASSUME NEW v \in Nat
    PROVE  Bits(v, 11) \in [1..11 -> {0, 1}]
BY DEF Bits

\* Halving takes the last bit off.
LEMMA Halved ==
    ASSUME NEW u \in Nat, NEW q \in Nat, NEW bit \in 0..1, u = 2 * q + bit
    PROVE  u \div 2 = q /\ u % 2 = bit
OBVIOUS

\* Reading the bits of a number below 2048 gives it back.
LEMMA ValueOfItsBits ==
    ASSUME NEW v \in Nat, v < 2048
    PROVE  Value(Bits(v, 11)) = v
<1> DEFINE b == Bits(v, 11)
<1>1. v \in Nat
  OBVIOUS
<1>2. b \in [1..11 -> {0, 1}]
  BY <1>1, BitsType
<1>3. PICK f : f[0] = 0 /\ f[11] = Value(b) /\ \A k \in 1..11 : f[k] = 2 * f[k - 1] + b[k]
  <2> HIDE DEF b
  <2> QED
    BY <1>2, ValueOfEleven
<1>4. f[0] = v \div 2048
  BY <1>3
<1>5. f[1] = v \div 1024
  <2>1. b[1] = (v \div 1024) % 2
    <3>1. 2^10 = 1024
      BY SMT
    <3> QED
      BY <1>1, <3>1 DEF Bits
  <2> HIDE DEF b
  <2>2. f[1] = 2 * f[0] + b[1]
    BY <1>3
  <2>3. v \div 1024 = 2 * (v \div 2048) + ((v \div 1024) % 2)
    BY <1>1
  <2> QED
    BY <1>4, <2>1, <2>2, <2>3
<1>6. f[2] = v \div 512
  <2>1. b[2] = (v \div 512) % 2
    <3>1. 2^9 = 512
      BY SMT
    <3> QED
      BY <1>1, <3>1 DEF Bits
  <2> HIDE DEF b
  <2>2. f[2] = 2 * f[1] + b[2]
    BY <1>3
  <2>3. v \div 512 = 2 * (v \div 1024) + ((v \div 512) % 2)
    BY <1>1
  <2> QED
    BY <1>5, <2>1, <2>2, <2>3
<1>7. f[3] = v \div 256
  <2>1. b[3] = (v \div 256) % 2
    <3>1. 2^8 = 256
      BY SMT
    <3> QED
      BY <1>1, <3>1 DEF Bits
  <2> HIDE DEF b
  <2>2. f[3] = 2 * f[2] + b[3]
    BY <1>3
  <2>3. v \div 256 = 2 * (v \div 512) + ((v \div 256) % 2)
    BY <1>1
  <2> QED
    BY <1>6, <2>1, <2>2, <2>3
<1>8. f[4] = v \div 128
  <2>1. b[4] = (v \div 128) % 2
    <3>1. 2^7 = 128
      BY SMT
    <3> QED
      BY <1>1, <3>1 DEF Bits
  <2> HIDE DEF b
  <2>2. f[4] = 2 * f[3] + b[4]
    BY <1>3
  <2>3. v \div 128 = 2 * (v \div 256) + ((v \div 128) % 2)
    BY <1>1
  <2> QED
    BY <1>7, <2>1, <2>2, <2>3
<1>9. f[5] = v \div 64
  <2>1. b[5] = (v \div 64) % 2
    <3>1. 2^6 = 64
      BY SMT
    <3> QED
      BY <1>1, <3>1 DEF Bits
  <2> HIDE DEF b
  <2>2. f[5] = 2 * f[4] + b[5]
    BY <1>3
  <2>3. v \div 64 = 2 * (v \div 128) + ((v \div 64) % 2)
    BY <1>1
  <2> QED
    BY <1>8, <2>1, <2>2, <2>3
<1>10. f[6] = v \div 32
  <2>1. b[6] = (v \div 32) % 2
    <3>1. 2^5 = 32
      BY SMT
    <3> QED
      BY <1>1, <3>1 DEF Bits
  <2> HIDE DEF b
  <2>2. f[6] = 2 * f[5] + b[6]
    BY <1>3
  <2>3. v \div 32 = 2 * (v \div 64) + ((v \div 32) % 2)
    BY <1>1
  <2> QED
    BY <1>9, <2>1, <2>2, <2>3
<1>11. f[7] = v \div 16
  <2>1. b[7] = (v \div 16) % 2
    <3>1. 2^4 = 16
      BY SMT
    <3> QED
      BY <1>1, <3>1 DEF Bits
  <2> HIDE DEF b
  <2>2. f[7] = 2 * f[6] + b[7]
    BY <1>3
  <2>3. v \div 16 = 2 * (v \div 32) + ((v \div 16) % 2)
    BY <1>1
  <2> QED
    BY <1>10, <2>1, <2>2, <2>3
<1>12. f[8] = v \div 8
  <2>1. b[8] = (v \div 8) % 2
    <3>1. 2^3 = 8
      BY SMT
    <3> QED
      BY <1>1, <3>1 DEF Bits
  <2> HIDE DEF b
  <2>2. f[8] = 2 * f[7] + b[8]
    BY <1>3
  <2>3. v \div 8 = 2 * (v \div 16) + ((v \div 8) % 2)
    BY <1>1
  <2> QED
    BY <1>11, <2>1, <2>2, <2>3
<1>13. f[9] = v \div 4
  <2>1. b[9] = (v \div 4) % 2
    <3>1. 2^2 = 4
      BY SMT
    <3> QED
      BY <1>1, <3>1 DEF Bits
  <2> HIDE DEF b
  <2>2. f[9] = 2 * f[8] + b[9]
    BY <1>3
  <2>3. v \div 4 = 2 * (v \div 8) + ((v \div 4) % 2)
    BY <1>1
  <2> QED
    BY <1>12, <2>1, <2>2, <2>3
<1>14. f[10] = v \div 2
  <2>1. b[10] = (v \div 2) % 2
    <3>1. 2^1 = 2
      BY SMT
    <3> QED
      BY <1>1, <3>1 DEF Bits
  <2> HIDE DEF b
  <2>2. f[10] = 2 * f[9] + b[10]
    BY <1>3
  <2>3. v \div 2 = 2 * (v \div 4) + ((v \div 2) % 2)
    BY <1>1
  <2> QED
    BY <1>13, <2>1, <2>2, <2>3
<1>15. f[11] = v
  <2>1. b[11] = v % 2
    <3>1. 2^0 = 1
      BY SMT
    <3> QED
      BY <1>1, <3>1 DEF Bits
  <2> HIDE DEF b
  <2>2. f[11] = 2 * f[10] + b[11]
    BY <1>3
  <2>3. v = 2 * (v \div 2) + (v % 2)
    BY <1>1
  <2> QED
    BY <1>14, <2>1, <2>2, <2>3
<1> QED
  BY <1>3, <1>15

\* Eleven bits are the bits of the number they are read as.
LEMMA BitsOfTheirValue ==
    ASSUME NEW b \in [1..11 -> {0, 1}]
    PROVE  Value(b) \in 0..2047 /\ Bits(Value(b), 11) = b
<1> DEFINE v == Value(b)
<1>1. PICK f : f[0] = 0 /\ f[11] = v /\ \A k \in 1..11 : f[k] = 2 * f[k - 1] + b[k]
  BY ValueOfEleven
<1> HIDE DEF v
<1>2. \A k \in 1..11 : b[k] \in 0..1
  OBVIOUS
<1>3. f[0] \in Nat /\ f[0] < 1
  BY <1>1
<1>4. f[1] \in Nat /\ f[1] < 2
  <2>1. f[1] = 2 * f[0] + b[1] /\ b[1] \in 0..1
    BY <1>1, <1>2
  <2> QED
    BY <1>3, <2>1
<1>5. f[2] \in Nat /\ f[2] < 4
  <2>1. f[2] = 2 * f[1] + b[2] /\ b[2] \in 0..1
    BY <1>1, <1>2
  <2> QED
    BY <1>4, <2>1
<1>6. f[3] \in Nat /\ f[3] < 8
  <2>1. f[3] = 2 * f[2] + b[3] /\ b[3] \in 0..1
    BY <1>1, <1>2
  <2> QED
    BY <1>5, <2>1
<1>7. f[4] \in Nat /\ f[4] < 16
  <2>1. f[4] = 2 * f[3] + b[4] /\ b[4] \in 0..1
    BY <1>1, <1>2
  <2> QED
    BY <1>6, <2>1
<1>8. f[5] \in Nat /\ f[5] < 32
  <2>1. f[5] = 2 * f[4] + b[5] /\ b[5] \in 0..1
    BY <1>1, <1>2
  <2> QED
    BY <1>7, <2>1
<1>9. f[6] \in Nat /\ f[6] < 64
  <2>1. f[6] = 2 * f[5] + b[6] /\ b[6] \in 0..1
    BY <1>1, <1>2
  <2> QED
    BY <1>8, <2>1
<1>10. f[7] \in Nat /\ f[7] < 128
  <2>1. f[7] = 2 * f[6] + b[7] /\ b[7] \in 0..1
    BY <1>1, <1>2
  <2> QED
    BY <1>9, <2>1
<1>11. f[8] \in Nat /\ f[8] < 256
  <2>1. f[8] = 2 * f[7] + b[8] /\ b[8] \in 0..1
    BY <1>1, <1>2
  <2> QED
    BY <1>10, <2>1
<1>12. f[9] \in Nat /\ f[9] < 512
  <2>1. f[9] = 2 * f[8] + b[9] /\ b[9] \in 0..1
    BY <1>1, <1>2
  <2> QED
    BY <1>11, <2>1
<1>13. f[10] \in Nat /\ f[10] < 1024
  <2>1. f[10] = 2 * f[9] + b[10] /\ b[10] \in 0..1
    BY <1>1, <1>2
  <2> QED
    BY <1>12, <2>1
<1>14. f[11] \in Nat /\ f[11] < 2048
  <2>1. f[11] = 2 * f[10] + b[11] /\ b[11] \in 0..1
    BY <1>1, <1>2
  <2> QED
    BY <1>13, <2>1
<1>15. v = f[11] /\ v \in Nat /\ v < 2048
  BY <1>1, <1>14
<1>16. \A k \in 0..11 : f[k] \in Nat
  BY <1>3, <1>4, <1>5, <1>6, <1>7, <1>8,
     <1>9, <1>10, <1>11, <1>12, <1>13, <1>14
<1>17. ASSUME NEW k \in 1..11 PROVE f[k] \div 2 = f[k - 1] /\ f[k] % 2 = b[k]
  <2>1. f[k] = 2 * f[k - 1] + b[k] /\ f[k] \in Nat /\ f[k - 1] \in Nat /\ b[k] \in 0..1
    BY <1>1, <1>2, <1>16
  <2> QED
    BY <2>1, Halved
<1>18. v \div 2 = f[10]
  BY <1>15, <1>17
<1>19. v \div 4 = f[9]
  <2>1. v \div 4 = (v \div 2) \div 2
    BY <1>15
  <2> QED
    BY <1>18, <1>17, <2>1
<1>20. v \div 8 = f[8]
  <2>1. v \div 8 = (v \div 4) \div 2
    BY <1>15
  <2> QED
    BY <1>19, <1>17, <2>1
<1>21. v \div 16 = f[7]
  <2>1. v \div 16 = (v \div 8) \div 2
    BY <1>15
  <2> QED
    BY <1>20, <1>17, <2>1
<1>22. v \div 32 = f[6]
  <2>1. v \div 32 = (v \div 16) \div 2
    BY <1>15
  <2> QED
    BY <1>21, <1>17, <2>1
<1>23. v \div 64 = f[5]
  <2>1. v \div 64 = (v \div 32) \div 2
    BY <1>15
  <2> QED
    BY <1>22, <1>17, <2>1
<1>24. v \div 128 = f[4]
  <2>1. v \div 128 = (v \div 64) \div 2
    BY <1>15
  <2> QED
    BY <1>23, <1>17, <2>1
<1>25. v \div 256 = f[3]
  <2>1. v \div 256 = (v \div 128) \div 2
    BY <1>15
  <2> QED
    BY <1>24, <1>17, <2>1
<1>26. v \div 512 = f[2]
  <2>1. v \div 512 = (v \div 256) \div 2
    BY <1>15
  <2> QED
    BY <1>25, <1>17, <2>1
<1>27. v \div 1024 = f[1]
  <2>1. v \div 1024 = (v \div 512) \div 2
    BY <1>15
  <2> QED
    BY <1>26, <1>17, <2>1
<1>28. \A i \in 1..11 : Bits(v, 11)[i] = b[i]
  <2>1. Bits(v, 11)[1] = b[1]
    <3>1. Bits(v, 11)[1] = (v \div 1024) % 2
      <4>1. 2^10 = 1024
        BY SMT
      <4> QED
        BY <1>15, <4>1 DEF Bits
    <3> QED
      BY <1>27, <1>17, <3>1
  <2>2. Bits(v, 11)[2] = b[2]
    <3>1. Bits(v, 11)[2] = (v \div 512) % 2
      <4>1. 2^9 = 512
        BY SMT
      <4> QED
        BY <1>15, <4>1 DEF Bits
    <3> QED
      BY <1>26, <1>17, <3>1
  <2>3. Bits(v, 11)[3] = b[3]
    <3>1. Bits(v, 11)[3] = (v \div 256) % 2
      <4>1. 2^8 = 256
        BY SMT
      <4> QED
        BY <1>15, <4>1 DEF Bits
    <3> QED
      BY <1>25, <1>17, <3>1
  <2>4. Bits(v, 11)[4] = b[4]
    <3>1. Bits(v, 11)[4] = (v \div 128) % 2
      <4>1. 2^7 = 128
        BY SMT
      <4> QED
        BY <1>15, <4>1 DEF Bits
    <3> QED
      BY <1>24, <1>17, <3>1
  <2>5. Bits(v, 11)[5] = b[5]
    <3>1. Bits(v, 11)[5] = (v \div 64) % 2
      <4>1. 2^6 = 64
        BY SMT
      <4> QED
        BY <1>15, <4>1 DEF Bits
    <3> QED
      BY <1>23, <1>17, <3>1
  <2>6. Bits(v, 11)[6] = b[6]
    <3>1. Bits(v, 11)[6] = (v \div 32) % 2
      <4>1. 2^5 = 32
        BY SMT
      <4> QED
        BY <1>15, <4>1 DEF Bits
    <3> QED
      BY <1>22, <1>17, <3>1
  <2>7. Bits(v, 11)[7] = b[7]
    <3>1. Bits(v, 11)[7] = (v \div 16) % 2
      <4>1. 2^4 = 16
        BY SMT
      <4> QED
        BY <1>15, <4>1 DEF Bits
    <3> QED
      BY <1>21, <1>17, <3>1
  <2>8. Bits(v, 11)[8] = b[8]
    <3>1. Bits(v, 11)[8] = (v \div 8) % 2
      <4>1. 2^3 = 8
        BY SMT
      <4> QED
        BY <1>15, <4>1 DEF Bits
    <3> QED
      BY <1>20, <1>17, <3>1
  <2>9. Bits(v, 11)[9] = b[9]
    <3>1. Bits(v, 11)[9] = (v \div 4) % 2
      <4>1. 2^2 = 4
        BY SMT
      <4> QED
        BY <1>15, <4>1 DEF Bits
    <3> QED
      BY <1>19, <1>17, <3>1
  <2>10. Bits(v, 11)[10] = b[10]
    <3>1. Bits(v, 11)[10] = (v \div 2) % 2
      <4>1. 2^1 = 2
        BY SMT
      <4> QED
        BY <1>15, <4>1 DEF Bits
    <3> QED
      BY <1>18, <1>17, <3>1
  <2>11. Bits(v, 11)[11] = b[11]
    <3>1. Bits(v, 11)[11] = v % 2
      <4>1. 2^0 = 1
        BY SMT
      <4> QED
        BY <1>15, <4>1 DEF Bits
    <3> QED
      BY <1>15, <1>17, <3>1
  <2> QED
    BY <2>1, <2>2, <2>3, <2>4, <2>5, <2>6, <2>7, <2>8, <2>9, <2>10, <2>11
<1>29. Bits(v, 11) \in [1..11 -> {0, 1}]
  BY <1>15, BitsType
<1>30. Bits(v, 11) = b
  BY <1>28, <1>29
<1>31. v \in 0..2047
  <2>1. v \in Nat /\ v < 2048
    BY <1>15
  <2> QED
    BY <2>1
<1> QED
  BY <1>30, <1>31 DEF v

\* The bits of words are the bits of one word after the other.
LEMMA ConcatenatedBits ==
    ASSUME NEW words \in Seeds, words # << >>
    PROVE  /\ Concatenated(words) \in Seq({0, 1})
           /\ Len(Concatenated(words)) = 11 * Len(words)
           /\ \A i \in 1..Len(words), j \in 1..11 :
                 Concatenated(words)[11 * i - 11 + j] = Bits(words[i], 11)[j]
<1> DEFINE n == Len(words)
           seqs == [i \in 1..n |-> Bits(words[i], 11)]
<1> DEFINE W == 0..2047
           Bit == {0, 1}
<1>0. words \in Seq(W)
  BY DEF Seeds
<1>1. n \in Nat \ {0} /\ DOMAIN words = 1..n /\ \A i \in 1..n : words[i] \in Nat
  <2>2. \A v \in W : v \in Nat
    OBVIOUS
  <2> HIDE DEF W
  <2>1. \A i \in 1..Len(words) : words[i] \in W
    BY <1>0
  <2>3. n \in Nat /\ DOMAIN words = 1..n /\ n # 0
    BY <1>0, EmptySeq
  <2> QED
    BY <2>1, <2>2, <2>3
<1>2. ASSUME NEW i \in 1..n PROVE seqs[i] \in Seq({0, 1}) /\ Len(seqs[i]) = 11
  <2>1. Bits(words[i], 11) \in [1..11 -> {0, 1}]
    BY <1>1, BitsType
  <2>2. seqs[i] = Bits(words[i], 11)
    OBVIOUS
  <2> HIDE DEF seqs, n
  <2>3. seqs[i] \in [1..11 -> {0, 1}]
    BY <2>1, <2>2
  <2>4. seqs[i] \in [1..11 -> Bit] /\ 11 \in Nat
    BY <2>3
  <2>5. seqs[i] \in Seq(Bit) /\ Len(seqs[i]) = 11
    <3> HIDE DEF Bit
    <3> QED
      BY <2>4, SeqOfLength
  <2> QED
    BY <2>5
<1>3. seqs \in [1..n -> Seq({0, 1})]
  <2>1. seqs \in [1..n -> {seqs[i] : i \in 1..n}]
    OBVIOUS
  <2> HIDE DEF seqs, n
  <2> QED
    BY <1>2, <2>1
<1>4. Concatenated(words) = FlattenSeq(seqs)
  BY <1>1, Zenon DEF Concatenated
<1>5. \A i \in 1..n : seqs[i] = Bits(words[i], 11)
  OBVIOUS
<1> HIDE DEF n, seqs
<1>6. PICK f \in [1..n -> Seq({0, 1})] :
         FlattenSeq(seqs) = f[n] /\ Flattens(f, seqs, n)
  <2>1. n \in Nat \ {0}
    BY <1>1
  <2>2. seqs \in [1..n -> Seq(Bit)]
    BY <1>3
  <2>3. \E f \in [1..n -> Seq(Bit)] :
           FlattenSeq(seqs) = f[n] /\ Flattens(f, seqs, n)
    <3> HIDE DEF Bit
    <3> QED
      BY <2>1, <2>2, FlattenSteps
  <2> QED
    BY <2>3
<1> DEFINE Right(k) == /\ Len(f[k]) = 11 * k
                       /\ \A i \in 1..k, j \in 1..11 : f[k][11 * i - 11 + j] = seqs[i][j]
           M == {k \in Nat : k \in 1..n => Right(k)}
<1>7. 0 \in M
  OBVIOUS
<1>8. ASSUME NEW k \in Nat, k \in M PROVE k + 1 \in M
  <2> SUFFICES ASSUME k + 1 \in 1..n PROVE Right(k + 1)
    <3> HIDE DEF Right
    <3> QED
      OBVIOUS
  <2>1. CASE k = 0
    <3>1. Len(f[1]) = 11
      BY <1>1, <1>2, <1>6 DEF Flattens
    <3>2. ASSUME NEW i \in 1..1, NEW j \in 1..11 PROVE f[1][11 * i - 11 + j] = seqs[i][j]
      <4>1. i = 1 /\ 11 * i - 11 + j = j
        OBVIOUS
      <4> QED
        BY <1>6, <4>1 DEF Flattens
    <3> QED
      BY <2>1, <3>1, <3>2
  <2>2. CASE k # 0
    <3>0. k \in 1..n /\ k + 1 \in 2..n /\ (k + 1) - 1 = k
      BY <1>1, <2>2
    <3>1. Right(k)
      <4> HIDE DEF Right
      <4> QED
        BY <1>8, <3>0
    <3>2. f[k + 1] = f[k] \o seqs[k + 1] /\ f[k] \in Seq({0, 1}) /\ seqs[k + 1] \in Seq({0, 1})
      <4>1. f[k + 1] = f[k] \o seqs[k + 1]
        BY <1>6, <3>0 DEF Flattens
      <4> QED
        BY <1>2, <3>0, <4>1
    <3>3. Len(f[k]) = 11 * k /\ Len(seqs[k + 1]) = 11
      BY <1>2, <3>0, <3>1
    <3>4. /\ Len(f[k + 1]) = 11 * k + 11
          /\ \A p \in 1..(11 * k + 11) :
                f[k + 1][p] = IF p <= 11 * k THEN f[k][p] ELSE seqs[k + 1][p - 11 * k]
      <4>1. /\ Len(f[k] \o seqs[k + 1]) = Len(f[k]) + Len(seqs[k + 1])
            /\ \A p \in 1..(Len(f[k]) + Len(seqs[k + 1])) : (f[k] \o seqs[k + 1])[p] =
                  IF p <= Len(f[k]) THEN f[k][p] ELSE seqs[k + 1][p - Len(f[k])]
        BY <3>2, ConcatProperties
      <4> QED
        BY <3>2, <3>3, <4>1
    <3>5. ASSUME NEW i \in 1..(k + 1), NEW j \in 1..11
          PROVE  f[k + 1][11 * i - 11 + j] = seqs[i][j]
      <4>1. CASE i = k + 1
        <5>1. /\ 11 * i - 11 + j \in 1..(11 * k + 11) /\ ~(11 * i - 11 + j <= 11 * k)
              /\ (11 * i - 11 + j) - 11 * k = j
          BY <4>1
        <5> QED
          BY <3>4, <4>1, <5>1
      <4>2. CASE i \in 1..k
        <5>1. 11 * i - 11 + j \in 1..(11 * k + 11) /\ 11 * i - 11 + j <= 11 * k
          BY <4>2
        <5> QED
          BY <3>1, <3>4, <4>2, <5>1
      <4> QED
        BY <4>1, <4>2
    <3>6. 11 * k + 11 = 11 * (k + 1)
      OBVIOUS
    <3> QED
      BY <3>4, <3>5, <3>6
  <2> QED
    BY <2>1, <2>2
<1> HIDE DEF M
<1>9. n \in M
  BY <1>1, <1>7, <1>8, InductionOnNat
<1>10. Right(n)
  BY <1>1, <1>9 DEF M
<1>11. f[n] \in Seq({0, 1})
  BY <1>1
<1>12. f[n] = Concatenated(words)
  BY <1>4, <1>6
<1>13. \A i \in 1..n, j \in 1..11 : Concatenated(words)[11 * i - 11 + j] = Bits(words[i], 11)[j]
  BY <1>5, <1>10, <1>12
<1> QED
  BY <1>10, <1>11, <1>12, <1>13 DEF n

\* Eleven bits are read where a word begins.
LEMMA ElevenRead ==
    ASSUME NEW all \in Seq({0, 1}), NEW i \in Nat \ {0}, 11 * i <= Len(all)
    PROVE  /\ SubSeq(all, 11 * i - 10, 11 * i) \in [1..11 -> {0, 1}]
           /\ \A j \in 1..11 : SubSeq(all, 11 * i - 10, 11 * i)[j] = all[11 * i - 11 + j]
<1> DEFINE Bit == {0, 1}
           s == SubSeq(all, 11 * i - 10, 11 * i)
           m == 11 * i - 10
<1>0. all \in Seq(Bit)
  OBVIOUS
<1> HIDE DEF Bit
<1>1. m \in Int /\ 11 * i \in Int /\ (11 * i) - m + 1 = 11 /\ m <= 11 * i
  OBVIOUS
<1>2. \A p \in m..(11 * i) : p \in 1..Len(all)
  OBVIOUS
<1>3. \A p \in m..(11 * i) : all[p] \in Bit
  BY <1>0, <1>2, ElementOfSeq
<1> HIDE DEF m
<1>4. /\ SubSeq(all, m, 11 * i) \in Seq(Bit)
      /\ Len(SubSeq(all, m, 11 * i)) = 11
      /\ \A j \in 1..11 : SubSeq(all, m, 11 * i)[j] = all[m + j - 1]
  BY <1>1, <1>3, SubSeqProperties
<1>5. SubSeq(all, m, 11 * i) \in [1..11 -> Bit]
  BY <1>4, LenProperties
<1>6. \A j \in 1..11 : m + j - 1 = 11 * i - 11 + j
  BY DEF m
<1> QED
  BY <1>4, <1>5, <1>6 DEF m, Bit

\* Words that are read of bits begin with the words whose bits these begin with.
LEMMA WordsRead ==
    ASSUME NEW typed \in Seeds, typed # << >>, NEW all \in Seq({0, 1}),
           11 * Len(typed) + 11 <= Len(all),
           \A p \in 1..(11 * Len(typed)) : all[p] = Concatenated(typed)[p]
    PROVE  LET w == WordsOf(all, Len(typed) + 1) IN
           /\ w \in Seeds /\ Len(w) = Len(typed) + 1
           /\ SubSeq(w, 1, Len(typed)) = typed
           /\ Len(Concatenated(w)) = 11 * Len(typed) + 11
           /\ \A p \in 1..(11 * Len(typed) + 11) : Concatenated(w)[p] = all[p]
<1> DEFINE n == Len(typed)
           W == 0..2047
           r(i) == SubSeq(all, 11 * i - 10, 11 * i)
           w == [i \in 1..(n + 1) |-> Value(r(i))]
<1>1. n \in Nat \ {0} /\ typed \in Seq(W)
  <2>1. typed \in Seq(W)
    BY DEF Seeds
  <2> HIDE DEF W
  <2> QED
    BY <2>1, EmptySeq
<1>2. WordsOf(all, n + 1) = w
  BY DEF WordsOf
<1>3. ASSUME NEW i \in 1..(n + 1)
      PROVE  /\ r(i) \in [1..11 -> {0, 1}]
             /\ \A j \in 1..11 : r(i)[j] = all[11 * i - 11 + j]
  <2>0. n \in Nat /\ 11 * n + 11 <= Len(all) /\ Len(all) \in Nat
    BY <1>1
  <2> HIDE DEF n
  <2>1. i \in Nat \ {0} /\ 11 * i <= 11 * n + 11
    BY <2>0
  <2>2. 11 * i <= Len(all)
    BY <2>0, <2>1
  <2> QED
    BY <2>1, <2>2, ElevenRead
<1>4. ASSUME NEW i \in 1..(n + 1) PROVE w[i] \in W /\ Bits(w[i], 11) = r(i)
  <2>1. w[i] = Value(r(i)) /\ r(i) \in [1..11 -> {0, 1}]
    BY <1>3
  <2>2. \A b \in [1..11 -> {0, 1}] : Value(b) \in W /\ Bits(Value(b), 11) = b
    BY BitsOfTheirValue
  <2> HIDE DEF w, r, W
  <2> QED
    BY <2>1, <2>2, Zenon
<1>5. w \in Seq(W) /\ Len(w) = n + 1
  <2>1. n + 1 \in Nat /\ w \in [1..(n + 1) -> {w[i] : i \in 1..(n + 1)}]
    BY <1>1
  <2> HIDE DEF w, W, n
  <2>2. w \in [1..(n + 1) -> W]
    BY <1>4, <2>1
  <2> QED
    BY <2>1, <2>2, SeqOfLength
<1>6. w \in Seeds
  BY <1>5 DEF Seeds
<1>7. ASSUME NEW i \in 1..n PROVE w[i] = typed[i]
  <2>1. i \in 1..(n + 1) /\ \A j \in 1..11 : 11 * i - 11 + j \in 1..(11 * n)
    BY <1>1
  <2>2. \A j \in 1..11 : all[11 * i - 11 + j] = Concatenated(typed)[11 * i - 11 + j]
    BY <2>1
  <2>3. \A j \in 1..11 : Concatenated(typed)[11 * i - 11 + j] = Bits(typed[i], 11)[j]
    BY ConcatenatedBits
  <2>4. \A j \in 1..11 : r(i)[j] = Bits(typed[i], 11)[j]
    <3> HIDE DEF r
    <3> QED
      BY <1>3, <2>1, <2>2, <2>3
  <2>5. typed[i] \in W
    <3> HIDE DEF W
    <3> QED
      BY <1>1, ElementOfSeq
  <2>6. Bits(typed[i], 11) \in [1..11 -> {0, 1}]
    <3>0. \A v \in W : v \in Nat
      OBVIOUS
    <3> HIDE DEF W
    <3>1. typed[i] \in Nat
      BY <2>5, <3>0
    <3> QED
      BY <3>1, BitsType
  <2>7. r(i) = Bits(typed[i], 11)
    <3>1. r(i) \in [1..11 -> {0, 1}]
      BY <1>3, <2>1
    <3> DEFINE Bit == {0, 1}
               D == 1..11
    <3>2. /\ r(i) \in [D -> Bit] /\ Bits(typed[i], 11) \in [D -> Bit]
          /\ \A j \in D : r(i)[j] = Bits(typed[i], 11)[j]
      <4> HIDE DEF r
      <4> QED
        BY <2>4, <2>6, <3>1
    <3> HIDE DEF r, Bit, D
    <3> QED
      BY <3>2, SameFunction
  <2>8. w[i] = Value(r(i))
    BY <2>1
  <2>9. \A v \in W : Value(Bits(v, 11)) = v
    <3>1. \A v \in W : v \in Nat /\ v < 2048
      OBVIOUS
    <3> HIDE DEF W
    <3> QED
      BY <3>1, ValueOfItsBits
  <2> HIDE DEF w, r, W
  <2> QED
    BY <2>5, <2>7, <2>8, <2>9
<1>8. SubSeq(w, 1, n) = typed
  <2> HIDE DEF w, W
  <2>1. n \in Nat /\ Len(typed) = n /\ Len(w) = n + 1
    BY <1>1, <1>5
  <2> HIDE DEF n
  <2>2. \A i \in 1..n : i \in 1..Len(w)
    BY <2>1
  <2>3. \A i \in 1..n : w[i] \in W
    BY <1>5, <2>2, ElementOfSeq
  <2>4. /\ SubSeq(w, 1, n) \in Seq(W) /\ Len(SubSeq(w, 1, n)) = n
        /\ \A i \in 1..n : SubSeq(w, 1, n)[i] = w[i]
    <3>1. 1 \in Int /\ n \in Int /\ n - 1 + 1 = n /\ \A i \in 1..n : 1 + i - 1 = i
      BY <2>1
    <3>2. /\ SubSeq(w, 1, n) \in Seq(W)
          /\ Len(SubSeq(w, 1, n)) = IF 1 <= n THEN n - 1 + 1 ELSE 0
          /\ \A i \in 1..(n - 1 + 1) : SubSeq(w, 1, n)[i] = w[1 + i - 1]
      BY <2>3, <3>1, SubSeqProperties
    <3> QED
      BY <2>1, <3>1, <3>2
  <2> QED
    BY <1>1, <1>7, <2>1, <2>4, SeqEqual
<1>9. /\ Len(Concatenated(w)) = 11 * n + 11
      /\ \A i \in 1..(n + 1), j \in 1..11 : Concatenated(w)[11 * i - 11 + j] = Bits(w[i], 11)[j]
  <2> HIDE DEF w, n
  <2>1. w # << >> /\ 11 * (n + 1) = 11 * n + 11
    BY <1>1, <1>5
  <2>2. /\ Len(Concatenated(w)) = 11 * Len(w)
        /\ \A i \in 1..Len(w), j \in 1..11 : Concatenated(w)[11 * i - 11 + j] = Bits(w[i], 11)[j]
    BY <1>6, <2>1, ConcatenatedBits
  <2> QED
    BY <1>5, <2>1, <2>2
<1>10. ASSUME NEW p \in 1..(11 * n + 11) PROVE Concatenated(w)[p] = all[p]
  <2> DEFINE i == ((p - 1) \div 11) + 1
             j == ((p - 1) % 11) + 1
  <2>1. n \in Nat
    BY <1>1
  <2> HIDE DEF n, w, r
  <2>2. i \in 1..(n + 1) /\ j \in 1..11 /\ 11 * i - 11 + j = p
    BY <2>1
  <2> HIDE DEF i, j
  <2>3. Concatenated(w)[11 * i - 11 + j] = Bits(w[i], 11)[j]
    BY <1>9, <2>2
  <2>4. Bits(w[i], 11) = r(i)
    BY <1>4, <2>2
  <2>5. r(i)[j] = all[11 * i - 11 + j]
    BY <1>3, <2>2
  <2> QED
    BY <2>2, <2>3, <2>4, <2>5
<1> HIDE DEF w
<1>11. /\ w \in Seeds /\ Len(w) = Len(typed) + 1 /\ SubSeq(w, 1, Len(typed)) = typed
       /\ Len(Concatenated(w)) = 11 * Len(typed) + 11
       /\ \A p \in 1..(11 * Len(typed) + 11) : Concatenated(w)[p] = all[p]
  BY <1>5, <1>6, <1>8, <1>9, <1>10
<1>12. WordsOf(all, Len(typed) + 1) = w
  BY <1>2
<1> HIDE DEF n
<1> QED
  BY <1>11, <1>12

\* A byte that is begun is filled with zeros; whole bytes are left alone.
LEMMA FlushedBits ==
    ASSUME NEW d \in Seq({0, 1})
    PROVE  /\ Flushed(d) \in Seq({0, 1})
           /\ Len(Flushed(d)) = Len(d) + ((8 - (Len(d) % 8)) % 8)
           /\ \A i \in 1..Len(d) : Flushed(d)[i] = d[i]
           /\ Len(d) % 8 = 0 => Flushed(d) = d
<1> DEFINE Bit == {0, 1}
           k == (8 - (Len(d) % 8)) % 8
           z == [i \in 1..k |-> 0]
<1>1. d \in Seq(Bit) /\ z \in [1..k -> Bit] /\ Flushed(d) = d \o z
  BY DEF Flushed
<1> HIDE DEF z
<1>2. Len(d) \in Nat
  BY <1>1
<1>3. k \in Nat /\ (Len(d) % 8 = 0 => k = 0)
  BY <1>2
<1> HIDE DEF k, Bit
<1>4. z \in Seq(Bit) /\ Len(z) = k
  BY <1>1, <1>3, SeqOfLength
<1>5. /\ d \o z \in Seq(Bit) /\ Len(d \o z) = Len(d) + Len(z)
      /\ \A i \in 1..(Len(d) + Len(z)) : (d \o z)[i] =
            IF i <= Len(d) THEN d[i] ELSE z[i - Len(d)]
  <2>1. d \in Seq(Bit) /\ z \in Seq(Bit)
    BY <1>1, <1>4
  <2> QED
    BY <2>1, ConcatProperties
<1>6. \A i \in 1..Len(d) : i \in 1..(Len(d) + Len(z)) /\ i <= Len(d)
  BY <1>2, <1>3, <1>4
<1>7. \A i \in 1..Len(d) : (d \o z)[i] = d[i]
  BY <1>5, <1>6
<1>8. ASSUME Len(d) % 8 = 0 PROVE d \o z = d
  <2>1. k = 0 /\ Len(d \o z) = Len(d)
    BY <1>2, <1>3, <1>4, <1>5, <1>8
  <2> QED
    BY <1>1, <1>5, <1>7, <2>1, SeqEqual
<1>9. /\ Flushed(d) \in Seq(Bit) /\ Len(Flushed(d)) = Len(d) + k
      /\ \A i \in 1..Len(d) : Flushed(d)[i] = d[i]
      /\ Len(d) % 8 = 0 => Flushed(d) = d
  BY <1>1, <1>4, <1>5, <1>7, <1>8
<1> QED
  BY <1>9 DEF Bit, k

\* A part of bits.
LEMMA PartOfBits ==
    ASSUME NEW d \in Seq({0, 1}), NEW m \in Nat, NEW n \in Nat, 1 <= m, m <= n + 1, n <= Len(d)
    PROVE  /\ SubSeq(d, m, n) \in Seq({0, 1}) /\ Len(SubSeq(d, m, n)) = n - m + 1
           /\ \A i \in 1..(n - m + 1) : SubSeq(d, m, n)[i] = d[m + i - 1]
<1> DEFINE Bit == {0, 1}
<1>1. d \in Seq(Bit)
  OBVIOUS
<1> HIDE DEF Bit
<1>2. m \in Int /\ n \in Int /\ Len(d) \in Nat
  BY <1>1
<1>3. \A i \in m..n : i \in 1..Len(d)
  BY <1>2
<1>4. \A i \in m..n : d[i] \in Bit
  BY <1>1, <1>3, ElementOfSeq
<1>5. /\ SubSeq(d, m, n) \in Seq(Bit)
      /\ Len(SubSeq(d, m, n)) = IF m <= n THEN n - m + 1 ELSE 0
      /\ \A i \in 1..(n - m + 1) : SubSeq(d, m, n)[i] = d[m + i - 1]
  BY <1>2, <1>4, SubSeqProperties
<1>6. (IF m <= n THEN n - m + 1 ELSE 0) = n - m + 1
  BY <1>2
<1> QED
  BY <1>5, <1>6 DEF Bit

\* The entropy is the bits of the words and of the random number, in whole bytes.
LEMMA EntropyBits ==
    ASSUME NEW random \in Nat, NEW typed \in Seeds, Len(typed) \in {11, 23}
    PROVE  /\ Entropy(random, typed) \in Seq({0, 1})
           /\ Len(Entropy(random, typed)) = IF Len(typed) = 11 THEN 128 ELSE 256
           /\ \A p \in 1..(11 * Len(typed)) : Entropy(random, typed)[p] = Concatenated(typed)[p]
<1> DEFINE Bit == {0, 1}
           n == Len(typed)
           r == IF n = 11 THEN 7 ELSE 3
           C == Concatenated(typed)
           B == Bits(random, r)
           L == IF n = 11 THEN 128 ELSE 256
<1>1. /\ n \in {11, 23} /\ r \in Nat /\ L = 11 * n + r /\ L % 8 = 0 /\ 11 * n \in Nat
      /\ (8 - (L % 8)) % 8 = 0 /\ L \in Nat
  <2>1. n = 11 \/ n = 23
    OBVIOUS
  <2> HIDE DEF n
  <2>2. CASE n = 11
    BY <2>2
  <2>3. CASE n = 23
    BY <2>3
  <2> QED
    BY <2>1, <2>2, <2>3
<1>2. B \in [1..r -> Bit]
  <2> HIDE DEF n
  <2>1. ASSUME NEW i \in 1..r PROVE (random \div 2^(r - i)) % 2 \in Bit
    OBVIOUS
  <2> HIDE DEF r, Bit
  <2> QED
    BY <2>1 DEF Bits
<1>3. C \in Seq(Bit) /\ Len(C) = 11 * n
  <2>1. typed # << >>
    BY <1>1
  <2> QED
    BY <2>1, ConcatenatedBits
<1>4. Entropy(random, typed) = Flushed(C \o B)
  BY DEF Entropy
<1> HIDE DEF C, B, L, r, n
<1>5. B \in Seq(Bit) /\ Len(B) = r
  <2> HIDE DEF Bit
  <2> QED
    BY <1>1, <1>2, SeqOfLength
<1>6. /\ C \o B \in Seq(Bit) /\ Len(C \o B) = 11 * n + r
      /\ \A p \in 1..(11 * n + r) : (C \o B)[p] = IF p <= 11 * n THEN C[p] ELSE B[p - 11 * n]
  <2>1. C \in Seq(Bit) /\ B \in Seq(Bit)
    BY <1>3, <1>5
  <2>2. /\ C \o B \in Seq(Bit) /\ Len(C \o B) = Len(C) + Len(B)
        /\ \A p \in 1..(Len(C) + Len(B)) : (C \o B)[p] =
              IF p <= Len(C) THEN C[p] ELSE B[p - Len(C)]
    <3> HIDE DEF Bit
    <3> QED
      BY <2>1, ConcatProperties
  <2> QED
    BY <1>3, <1>5, <2>2
<1>7. \A p \in 1..(11 * n) : (C \o B)[p] = C[p]
  <2>1. \A p \in 1..(11 * n) : p \in 1..(11 * n + r) /\ p <= 11 * n
    BY <1>1
  <2> QED
    BY <1>6, <2>1
<1>8. Len(C \o B) = L /\ Len(C \o B) % 8 = 0
  BY <1>1, <1>6
<1>9. Flushed(C \o B) = C \o B
  <2>1. C \o B \in Seq({0, 1})
    BY <1>6
  <2> QED
    BY <1>8, <2>1, FlushedBits
<1>10. C \o B \in Seq({0, 1}) /\ Len(C \o B) = L /\ \A p \in 1..(11 * n) : (C \o B)[p] = C[p]
  BY <1>6, <1>7, <1>8
<1>11. /\ Entropy(random, typed) \in Seq({0, 1}) /\ Len(Entropy(random, typed)) = L
       /\ \A p \in 1..(11 * n) : Entropy(random, typed)[p] = C[p]
  BY <1>4, <1>9, <1>10
<1> QED
  BY <1>11 DEF C, L, n

\* Eleven or twenty-three words are some.
LEMMA NotEmpty ==
    ASSUME NEW typed, Len(typed) \in {11, 23}
    PROVE  typed # << >>
OBVIOUS

\* Words that lack the last are kept, and completed to words whose checksum is right.
LEMMA CompletedWords ==
    ASSUME NEW random \in Random, NEW typed \in Typed, Len(typed) \in {11, 23}
    PROVE  LET w == complete_words_with_checksum(random, typed) IN
           /\ w \in Seeds /\ Len(w) = Len(typed) + 1
           /\ SubSeq(w, 1, Len(typed)) = typed /\ from_str(w) = "Ok"
<1>0. typed # << >>
  BY NotEmpty
<1> DEFINE n == Len(typed)
           L == IF n = 11 THEN 128 ELSE 256
           c == IF n = 11 THEN 4 ELSE 8
           E == Entropy(random, typed)
           h == Sha256(E)
           s == SubSeq(h, 1, c)
           cs == calculate_checksum(E)
           all == E \o cs
           w == WordsOf(all, n + 1)
           bits == Concatenated(w)
<1>1. random \in Nat /\ typed \in Seeds /\ h \in [1..8 -> {0, 1}] /\ typed # << >>
  <2>1. random \in Nat
    BY SessionAssumption
  <2>2. typed \in Seeds
    BY SessionAssumption
  <2>3. h \in [1..8 -> {0, 1}]
    BY SessionAssumption
  <2> QED
    BY <1>0, <2>1, <2>2, <2>3
<1>2. /\ n \in {11, 23} /\ n \in Nat /\ L \in Nat /\ c \in Nat /\ c <= 8 /\ 1 <= c
      /\ (L \div 8) \div 4 = c /\ 11 * n + 11 = L + c /\ 11 * n <= L
      /\ (((L + 8) \div 8) * 3) \div 4 = n + 1
      /\ c + ((8 - (c % 8)) % 8) = 8
      /\ n + 1 \in {12, 15, 18, 21, 24} /\ ((n + 1) * 32) \div 3 = L /\ (n + 1) \div 3 = c
  <2>1. n = 11 \/ n = 23
    OBVIOUS
  <2> HIDE DEF n
  <2>2. CASE n = 11
    BY <2>2
  <2>3. CASE n = 23
    BY <2>3
  <2> QED
    BY <2>1, <2>2, <2>3
<1>3. E \in Seq({0, 1}) /\ Len(E) = L /\ \A p \in 1..(11 * n) : E[p] = Concatenated(typed)[p]
  BY <1>1, EntropyBits
<1> HIDE DEF n, L, c, E
<1>4. h \in Seq({0, 1}) /\ Len(h) = 8
  <2> DEFINE Bit == {0, 1}
  <2>1. h \in [1..8 -> Bit] /\ 8 \in Nat
    BY <1>1
  <2>2. h \in Seq(Bit) /\ Len(h) = 8
    <3> HIDE DEF Bit, h
    <3> QED
      BY <2>1, SeqOfLength
  <2> QED
    BY <2>2
<1> HIDE DEF h
<1>5. s \in Seq({0, 1}) /\ Len(s) = c /\ \A i \in 1..c : s[i] = h[i]
  <2>1. 1 \in Nat /\ 1 <= 1 /\ 1 <= c + 1 /\ c <= Len(h) /\ c - 1 + 1 = c
        /\ \A i \in 1..c : 1 + i - 1 = i
    BY <1>2, <1>4
  <2>2. /\ SubSeq(h, 1, c) \in Seq({0, 1}) /\ Len(SubSeq(h, 1, c)) = c - 1 + 1
        /\ \A i \in 1..(c - 1 + 1) : SubSeq(h, 1, c)[i] = h[1 + i - 1]
    BY <1>2, <1>4, <2>1, PartOfBits
  <2> QED
    BY <2>1, <2>2
<1>6. cs = Flushed(s)
  <2>1. BytesOf(E) \div 4 = c
    BY <1>2, <1>3 DEF BytesOf
  <2> QED
    BY <2>1 DEF calculate_checksum, h
<1> HIDE DEF s, cs
<1>7. cs \in Seq({0, 1}) /\ Len(cs) = 8 /\ \A i \in 1..c : cs[i] = h[i]
  BY <1>2, <1>5, <1>6, FlushedBits
<1>8. /\ all \in Seq({0, 1}) /\ Len(all) = L + 8
      /\ \A p \in 1..(L + 8) : all[p] = IF p <= L THEN E[p] ELSE cs[p - L]
  <2> DEFINE Bit == {0, 1}
  <2>1. E \in Seq(Bit) /\ cs \in Seq(Bit)
    BY <1>3, <1>7
  <2>2. /\ E \o cs \in Seq(Bit) /\ Len(E \o cs) = Len(E) + Len(cs)
        /\ \A p \in 1..(Len(E) + Len(cs)) : (E \o cs)[p] =
              IF p <= Len(E) THEN E[p] ELSE cs[p - Len(E)]
    <3> HIDE DEF Bit
    <3> QED
      BY <2>1, ConcatProperties
  <2> QED
    BY <1>3, <1>7, <2>2
<1>9. complete_words_with_checksum(random, typed) = w
  <2>1. (BytesOf(all) * 3) \div 4 = n + 1
    BY <1>2, <1>8 DEF BytesOf
  <2>2. complete_words_with_checksum(random, typed) = WordsOf(all, (BytesOf(all) * 3) \div 4)
    BY DEF complete_words_with_checksum, Completed, E, cs
  <2> HIDE DEF all
  <2> QED
    BY <2>1, <2>2
<1> HIDE DEF all
<1>10. /\ w \in Seeds /\ Len(w) = n + 1 /\ SubSeq(w, 1, n) = typed
       /\ Len(bits) = L + c
       /\ \A p \in 1..(L + c) : bits[p] = all[p]
  <2>1. 11 * n + 11 <= Len(all)
    BY <1>2, <1>8
  <2>2. \A p \in 1..(11 * n) : all[p] = Concatenated(typed)[p]
    <3>1. \A p \in 1..(11 * n) : p \in 1..(L + 8) /\ p <= L
      BY <1>2
    <3> QED
      BY <1>3, <1>8, <3>1
  <2>3. /\ w \in Seeds /\ Len(w) = n + 1 /\ SubSeq(w, 1, n) = typed
        /\ Len(bits) = 11 * n + 11
        /\ \A p \in 1..(11 * n + 11) : bits[p] = all[p]
    BY <1>1, <1>8, <2>1, <2>2, WordsRead DEF n
  <2> HIDE DEF w, bits
  <2> QED
    BY <1>2, <2>3
<1>11. bits \in Seq({0, 1})
  <2>1. w # << >>
    BY <1>2, <1>10
  <2> HIDE DEF w
  <2> QED
    BY <1>10, <2>1, ConcatenatedBits
<1> HIDE DEF bits, w
<1>12. SubSeq(bits, 1, L) = E
  <2>1. 1 \in Nat /\ 1 <= 1 /\ 1 <= L + 1 /\ L <= Len(bits) /\ L - 1 + 1 = L
        /\ \A i \in 1..L : 1 + i - 1 = i /\ i \in 1..(L + c) /\ i \in 1..(L + 8) /\ i <= L
    BY <1>2, <1>10
  <2>2. /\ SubSeq(bits, 1, L) \in Seq({0, 1}) /\ Len(SubSeq(bits, 1, L)) = L - 1 + 1
        /\ \A i \in 1..(L - 1 + 1) : SubSeq(bits, 1, L)[i] = bits[1 + i - 1]
    BY <1>2, <1>11, <2>1, PartOfBits
  <2>3. Len(SubSeq(bits, 1, L)) = Len(E) /\ \A i \in 1..L : SubSeq(bits, 1, L)[i] = E[i]
    BY <1>3, <1>8, <1>10, <2>1, <2>2
  <2> QED
    BY <1>3, <2>2, <2>3, SeqEqual
<1>13. SubSeq(bits, L + 1, L + c) = s
  <2>1. /\ L + 1 \in Nat /\ L + c \in Nat /\ 1 <= L + 1 /\ L + 1 <= (L + c) + 1
        /\ L + c <= Len(bits) /\ (L + c) - (L + 1) + 1 = c
        /\ \A i \in 1..c : /\ (L + 1) + i - 1 = L + i /\ L + i \in 1..(L + c)
                           /\ L + i \in 1..(L + 8) /\ ~(L + i <= L) /\ (L + i) - L = i
    BY <1>2, <1>10
  <2>2. /\ SubSeq(bits, L + 1, L + c) \in Seq({0, 1})
        /\ Len(SubSeq(bits, L + 1, L + c)) = (L + c) - (L + 1) + 1
        /\ \A i \in 1..((L + c) - (L + 1) + 1) :
              SubSeq(bits, L + 1, L + c)[i] = bits[(L + 1) + i - 1]
    BY <1>11, <2>1, PartOfBits
  <2>3. \A i \in 1..c : SubSeq(bits, L + 1, L + c)[i] = s[i]
    <3> SUFFICES ASSUME NEW i \in 1..c PROVE SubSeq(bits, L + 1, L + c)[i] = s[i]
      OBVIOUS
    <3>1. SubSeq(bits, L + 1, L + c)[i] = bits[L + i]
      BY <2>1, <2>2
    <3>2. bits[L + i] = all[L + i]
      BY <1>10, <2>1
    <3>3. all[L + i] = cs[i]
      BY <1>8, <2>1
    <3> QED
      BY <1>5, <1>7, <3>1, <3>2, <3>3
  <2> QED
    BY <1>5, <2>1, <2>2, <2>3, SeqEqual
<1>14. from_str(w) = "Ok"
  BY <1>2, <1>10, <1>12, <1>13 DEF from_str, bits, s, h
<1> QED
  BY <1>9, <1>10, <1>14 DEF n

---------------------------------------------------------------------------
(* Questions and their answers.                                             *)

\* An answer that only adds to the others.
Adds(a) ==
    /\ a.public = answers.public /\ a.mode = answers.mode /\ a.typed = answers.typed
    /\ a.words = answers.words /\ a.mnemonic = answers.mnemonic /\ a.duress = answers.duress
    /\ a.hidden = answers.hidden /\ a.chosen = answers.chosen
    /\ \/ a.input = answers.input /\ a.file = answers.file
       \/ a.input \in Path /\ a.file \in Contents
    /\ a.output = answers.output \/ a.output \in Path
    /\ a.hidden_output = answers.hidden_output \/ a.hidden_output \in Path
    /\ a.confirmed = answers.confirmed \/ a.confirmed

\* A question whose answer is added to the others keeps the invariant.
LEMMA AddsInv ==
    ASSUME IInv, Asks, Now \notin Closing, NEW a \in Answers, Advance(a), Adds(a),
           Left(Now, doing, a, wallet, args, done, checker.h)
    PROVE  IInv'
<1>1. \A i \in 1..at : i < at =>
          Left(Script[doing][i], doing, a, wallet, args, done, checker.h)
  BY DEF IInv, StepsInv, Left, Adds, HiddenOf, SeedOf
<1>2. Asked(a, doing, at)
  BY DEF IInv, AskedInv, Asked, Adds
<1>3. Asked(a, doing, at + 1)
  BY <1>2, AskedGrows, ScriptType DEF IInv, TypeInv, TypeOK
<1> QED
  BY <1>1, <1>3, AdvanceInv DEF Adds

\* What is put into the record of the answers.
LEMMA AnswerTypes ==
    ASSUME answers \in Answers
    PROVE  /\ \A names \in SUBSET Path : [answers EXCEPT !.listed = names] \in Answers
           /\ \A n \in Path, f \in Contents :
                [answers EXCEPT !.input = n, !.file = f] \in Answers
           /\ \A k \in SUBSET Keyfile : [answers EXCEPT !.keyfiles = k] \in Answers
           /\ \A n \in Path : [answers EXCEPT !.output = n] \in Answers
           /\ \A n \in Path : [answers EXCEPT !.hidden_output = n] \in Answers
           /\ \A p \in Pw : [answers EXCEPT !.password = p] \in Answers
           /\ [answers EXCEPT !.confirmed = TRUE] \in Answers
<1>1. \A names \in SUBSET Path : [answers EXCEPT !.listed = names] \in Answers
  BY DEF Answers
<1>2. \A n \in Path, f \in Contents : [answers EXCEPT !.input = n, !.file = f] \in Answers
  BY DEF Answers
<1>3. \A k \in SUBSET Keyfile : [answers EXCEPT !.keyfiles = k] \in Answers
  BY DEF Answers
<1>4. \A n \in Path : [answers EXCEPT !.output = n] \in Answers
  BY DEF Answers
<1>5. \A n \in Path : [answers EXCEPT !.hidden_output = n] \in Answers
  BY DEF Answers
<1>6. \A p \in Pw : [answers EXCEPT !.password = p] \in Answers
  BY DEF Answers
<1>7. [answers EXCEPT !.confirmed = TRUE] \in Answers
  BY DEF Answers
<1> QED
  BY <1>1, <1>2, <1>3, <1>4, <1>5, <1>6, <1>7

\* Names that are suggested are names.
LEMMA SuggestedPaths ==
    ASSUME NEW p \in Path
    PROVE  /\ from_wallet_to_public_info_json_path(p) \in Path
           /\ from_input_to_signed_psbt(p) \in Path
           /\ from_input_to_reencoded(p) \in Path
           /\ from_public_info_json_path_to_non_duress(p) \in Path
<1>1. p.stem \in Seq(Mark)
  BY DEF Path
<1>2. /\ Append(p.stem, "_pub") \in Seq(Mark) /\ Append(p.stem, "_signed") \in Seq(Mark)
      /\ Append(p.stem, "_reencoded") \in Seq(Mark) /\ Append(p.stem, "_non_duress") \in Seq(Mark)
  BY <1>1 DEF Mark
<1> QED
  BY <1>2 DEF Path, Extension, from_wallet_to_public_info_json_path, from_input_to_signed_psbt,
    from_input_to_reencoded, from_public_info_json_path_to_non_duress,
    extend_base_name_with_suffix, PUB_FILE_SUFFIX, PUB_NON_DURESS_FILE_SUFFIX,
    SIGNED_PSBT_FILE_SUFFIX, REENCODED_FILE_SUFFIX

\* What a step that has been passed left.
LEMMA PastLeft ==
    ASSUME StepsInv, NEW step, Past(step, doing, at)
    PROVE  Left(step, doing, answers, wallet, args, done, checker.h)
BY DEF StepsInv, Past

\* ListFiles keeps the invariant.
LEMMA ListFilesInv == ASSUME IInv, ListFiles PROVE IInv'
<1> DEFINE names == {n \in DOMAIN files : doing = "SignPsbt" => IsPsbtName(n)}
           a == [answers EXCEPT !.listed = names]
<1>1. CASE Ends
  BY <1>1, EndsInv
<1>2. CASE Asks /\ Advance(a)
  <2>1. names \in SUBSET Path
    BY DEF IInv, TypeInv, TypeOK
  <2>2. a \in Answers
    BY <2>1, AnswerTypes DEF IInv, TypeInv
  <2>5. Adds(a)
    BY DEF IInv, TypeInv, Answers, Adds
  <2>3. Now = "list" /\ Now \notin Closing
    BY DEF ListFiles, Closing
  <2>4. Left(Now, doing, a, wallet, args, done, checker.h)
    BY <2>3 DEF Left
  <2> HIDE DEF a
  <2> QED
    BY <1>2, <2>2, <2>3, <2>4, <2>5, AddsInv
<1> QED
  BY <1>1, <1>2 DEF ListFiles

\* PickInput keeps the invariant.
LEMMA PickInputInv == ASSUME IInv, PickInput PROVE IInv'
<1>1. CASE Ends
  BY <1>1, EndsInv
<1>2. CASE Asks /\ AskAgain(answers)
  BY <1>2, AskAgainInv
<1>3. ASSUME NEW n \in answers.listed, Exists(n), Asks,
             Advance([answers EXCEPT !.input = n, !.file = files[n]])
      PROVE  IInv'
  <2> DEFINE a == [answers EXCEPT !.input = n, !.file = files[n]]
  <2>1. n \in Path /\ files[n] \in Contents
    BY <1>3 DEF IInv, TypeInv, TypeOK, Exists
  <2>2. a \in Answers
    BY <2>1, AnswerTypes DEF IInv, TypeInv
  <2>3. Adds(a) /\ a.input \in Path /\ a.file \in Contents
    BY <2>1 DEF IInv, TypeInv, Answers, Adds
  <2>4. Now = "input" /\ Now \notin Closing
    BY DEF PickInput, Closing
  <2>5. Left(Now, doing, a, wallet, args, done, checker.h)
    BY <2>3, <2>4 DEF Left
  <2>6. Advance(a)
    BY <1>3
  <2> HIDE DEF a
  <2> QED
    BY <1>3, <2>2, <2>3, <2>4, <2>5, <2>6, AddsInv
<1> QED
  BY <1>1, <1>2, <1>3 DEF PickInput

\* AskForKeyfiles keeps the invariant.
LEMMA AskForKeyfilesInv == ASSUME IInv, AskForKeyfiles PROVE IInv'
<1>1. PICK chosen \in SUBSET (Keyfile \cap DOMAIN files) :
        Asks /\ Advance([answers EXCEPT !.keyfiles = chosen])
  BY DEF AskForKeyfiles
<1> DEFINE a == [answers EXCEPT !.keyfiles = chosen]
<1>2. a \in Answers
  <2>1. answers \in Answers
    BY DEF IInv, TypeInv
  <2> QED
    BY <2>1, AnswerTypes
<1>6. Adds(a)
  BY DEF IInv, TypeInv, Answers, Adds
<1>3. Now = "keyfiles" /\ Now \notin Closing
  BY DEF AskForKeyfiles, Closing
<1>4. Left(Now, doing, a, wallet, args, done, checker.h)
  BY <1>3 DEF Left
<1>5. Asks /\ Advance(a)
  BY <1>1
<1> HIDE DEF a
<1> QED
  BY <1>2, <1>3, <1>4, <1>5, <1>6, AddsInv

\* AskOutput keeps the invariant.
LEMMA AskOutputInv == ASSUME IInv, AskOutput PROVE IInv'
<1>1. PICK n \in Free(Suggested \cup Names) : Asks /\ Advance([answers EXCEPT !.output = n])
  BY DEF AskOutput
<1> DEFINE a == [answers EXCEPT !.output = n]
<1>2. Now = "output" /\ Now \notin Closing
  BY DEF AskOutput, Closing
<1>3. n \in Path
  <2>1. doing \in {"ExportPublicInfo", "Reencode"} => wallet.input \in Path
    BY DEF IInv, TypeInv, TypeOK, OpenActions, Wallets
  <2>2. doing = "SignPsbt" => answers.input \in Path
    <3>1. doing = "SignPsbt" => Past("input", doing, at)
      BY <1>2, StepsBefore, AtMenu, ScriptDomain DEF IInv, OpenActions
    <3> QED
      BY <3>1, PastLeft DEF IInv, Left
  <2>3. Suggested \subseteq Path
    BY <2>1, <2>2, SuggestedPaths DEF Suggested
  <2> QED
    BY <2>3, SessionAssumption DEF Free
<1>4. a \in Answers
  BY <1>3, AnswerTypes DEF IInv, TypeInv
<1>5. Adds(a) /\ a.output \in Path
  BY <1>3 DEF IInv, TypeInv, Answers, Adds
<1>6. Left(Now, doing, a, wallet, args, done, checker.h)
  BY <1>2, <1>5 DEF Left
<1>7. Asks /\ Advance(a)
  BY <1>1
<1> HIDE DEF a
<1> QED
  BY <1>2, <1>4, <1>5, <1>6, <1>7, AddsInv

\* AskHiddenOutput keeps the invariant.
LEMMA AskHiddenOutputInv == ASSUME IInv, AskHiddenOutput PROVE IInv'
<1>1. PICK n \in Free({from_public_info_json_path_to_non_duress(answers.output)} \cup Names) :
        Asks /\ Advance([answers EXCEPT !.hidden_output = n])
  BY DEF AskHiddenOutput
<1> DEFINE a == [answers EXCEPT !.hidden_output = n]
<1>2. Now = "hidden_output" /\ Now \notin Closing
  BY DEF AskHiddenOutput, Closing
<1>3. n \in Path
  <2>1. Past("output", doing, at)
    BY <1>2, StepsBefore, AtMenu DEF IInv, TypeInv, TypeOK
  <2>2. answers.output \in Path
    BY <2>1, PastLeft DEF IInv, Left
  <2> QED
    BY <2>2, SuggestedPaths, SessionAssumption DEF Free
<1>4. a \in Answers
  BY <1>3, AnswerTypes DEF IInv, TypeInv
<1>5. Adds(a) /\ a.hidden_output \in Path
  BY <1>3 DEF IInv, TypeInv, Answers, Adds
<1>6. Left(Now, doing, a, wallet, args, done, checker.h)
  BY <1>2, <1>5 DEF Left
<1>7. Asks /\ Advance(a)
  BY <1>1
<1> HIDE DEF a
<1> QED
  BY <1>2, <1>4, <1>5, <1>6, <1>7, AddsInv

\* AskPassword keeps the invariant.
LEMMA AskPasswordInv == ASSUME IInv, AskPassword PROVE IInv'
<1>1. PICK p \in Pw : Asks /\ Advance([answers EXCEPT !.password = p])
  BY DEF AskPassword
<1> DEFINE a == [answers EXCEPT !.password = p]
<1>2. a \in Answers
  <2>1. answers \in Answers
    BY DEF IInv, TypeInv
  <2> QED
    BY <2>1, AnswerTypes
<1>6. Adds(a)
  BY DEF IInv, TypeInv, Answers, Adds
<1>3. Now \in {"password", "new_password"} /\ Now \notin Closing
  BY DEF AskPassword, Closing
<1>4. Left(Now, doing, a, wallet, args, done, checker.h)
  BY <1>3 DEF Left
<1>5. Asks /\ Advance(a)
  BY <1>1
<1> HIDE DEF a
<1> QED
  BY <1>2, <1>3, <1>4, <1>5, <1>6, AddsInv

\* StartBatch keeps the invariant.
LEMMA StartBatchInv == ASSUME IInv, StartBatch PROVE IInv'
<1>1. CASE Ends
  BY <1>1, EndsInv
<1>2. CASE Asks /\ Advance(answers) /\ ~(Duress(answers) /\ answers.public = None)
  <2>1. Now = "start_batch" /\ Now \notin Closing
    BY DEF StartBatch, Closing
  <2>2. Left(Now, doing, answers, wallet, args, done, checker.h)
    BY <1>2, <2>1 DEF Left, Duress
  <2>3. answers \in Answers /\ Adds(answers)
    BY DEF IInv, TypeInv, Adds
  <2> QED
    BY <1>2, <2>1, <2>2, <2>3, AddsInv
<1> QED
  BY <1>1, <1>2 DEF StartBatch

\* Confirm keeps the invariant.
LEMMA ConfirmInv == ASSUME IInv, Confirm PROVE IInv'
<1>1. CASE Asks /\ AskAgain(answers)
  BY <1>1, AskAgainInv
<1>2. CASE Asks /\ Advance([answers EXCEPT !.confirmed = TRUE])
  <2> DEFINE a == [answers EXCEPT !.confirmed = TRUE]
  <2>1. Now = "confirm" /\ Now \notin Closing
    BY DEF Confirm, Closing
  <2>2. a \in Answers
    BY AnswerTypes DEF IInv, TypeInv
  <2>3. Adds(a) /\ a.confirmed
    BY DEF IInv, TypeInv, Answers, Adds
  <2>4. Left(Now, doing, a, wallet, args, done, checker.h)
    BY <2>1, <2>3 DEF Left
  <2> HIDE DEF a
  <2> QED
    BY <1>2, <2>1, <2>2, <2>3, <2>4, AddsInv DEF a
<1> QED
  BY <1>1, <1>2 DEF Confirm

\* Acknowledge keeps the invariant.
LEMMA AcknowledgeInv == ASSUME IInv, Acknowledge PROVE IInv'
<1>1. Now = "acknowledge" /\ Now \notin Closing
  BY DEF Acknowledge, Closing
<1>2. CASE Asks /\ Advance(answers)
  <2>1. Left(Now, doing, answers, wallet, args, done, checker.h)
    BY <1>1 DEF Left
  <2>2. answers \in Answers /\ Adds(answers)
    BY DEF IInv, TypeInv, Adds
  <2> QED
    BY <1>1, <1>2, <2>1, <2>2, AddsInv
<1>3. CASE Asks /\ Goto("another")
  <2>1. doing \in OpenActions
    BY <1>1, AtMenu DEF IInv
  <2>2. wallet # None /\ doing # "ended" /\ "another" \in DOMAIN Script
    BY <2>1, ScriptDomain DEF IInv, TypeInv, TypeOK, OpenActions
  <2>3. actions' \in 0..MaxActions
    BY <1>3, AsksFrame DEF IInv, TypeInv, TypeOK
  <2> QED
    BY <1>3, <2>2, <2>3, GotoInv, AsksFrame
<1> QED
  BY <1>2, <1>3 DEF Acknowledge

\* Nothing is done before the seal of a new wallet.
LEMMA Unsealed ==
    ASSUME IInv, doing \in Creations, Now \in {"cosigners", "seed", "words", "words_checked", "seal"}
    PROVE  done = {}
<1>1. ~Past("seal", doing, at)
  BY StepOrder, AtMenu DEF IInv, TypeInv, TypeOK, Past
<1> QED
  BY <1>1 DEF IInv, DoneInv

\* AskPublicOutput keeps the invariant.
LEMMA AskPublicOutputInv == ASSUME IInv, AskPublicOutput PROVE IInv'
<1>1. Now = "public" /\ Now \notin Closing
  BY DEF AskPublicOutput, Closing
<1>2. doing \in DOMAIN Script /\ at \in 1..Len(Script[doing]) /\ answers \in Answers
  BY AtMenu DEF IInv, TypeInv, TypeOK
<1>3. CASE Asks /\ Advance(answers)
  <2>1. Left(Now, doing, answers, wallet, args, done, checker.h)
    BY <1>1 DEF Left
  <2>2. Adds(answers)
    BY DEF Adds
  <2> QED
    BY <1>1, <1>2, <1>3, <2>1, <2>2, AddsInv
<1>4. ASSUME NEW n \in Path, Asks, Advance([answers EXCEPT !.public = n]) PROVE IInv'
  <2> DEFINE a == [answers EXCEPT !.public = n]
  <2>1. a \in Answers
    BY <1>2 DEF Answers
  <2>2. /\ a.public = n /\ a.mode = answers.mode /\ a.typed = answers.typed
        /\ a.words = answers.words /\ a.mnemonic = answers.mnemonic /\ a.duress = answers.duress
        /\ a.hidden = answers.hidden /\ a.chosen = answers.chosen /\ a.input = answers.input
        /\ a.file = answers.file /\ a.output = answers.output
        /\ a.hidden_output = answers.hidden_output /\ a.confirmed = answers.confirmed
    BY <1>2 DEF Answers
  <2>3. Advance(a)
    BY <1>4
  <2> HIDE DEF a
  <2>4. n # None
    BY SessionAssumption
  <2>5. \A i \in 1..at : i < at =>
          Left(Script[doing][i], doing, a, wallet, args, done, checker.h)
    <3>1. \A i \in 1..at : i < at => Script[doing][i] # "export"
      BY <1>1, <1>2, StepOrder DEF Now
    <3> QED
      BY <2>2, <2>4, <3>1 DEF IInv, StepsInv, Left, HiddenOf, SeedOf
  <2>6. Left(Now, doing, a, wallet, args, done, checker.h)
    BY <1>1 DEF Left
  <2>7. Asked(a, doing, at)
    BY <2>2 DEF IInv, AskedInv, Asked
  <2>8. Asked(a, doing, at + 1)
    BY <1>2, <2>7, AskedGrows
  <2> QED
    BY <1>1, <1>4, <2>1, <2>2, <2>3, <2>5, <2>6, <2>8, AdvanceInv
<1>5. from_wallet_to_public_info_json_path(answers.output) \in Path
  <2>1. Past("output", doing, at)
    BY <1>1, <1>2, StepsBefore DEF Now
  <2> QED
    BY <2>1, PastLeft, SuggestedPaths DEF IInv, Left
<1> QED
  BY <1>3, <1>4, <1>5, SessionAssumption DEF AskPublicOutput, Free

\* CollectCosigners keeps the invariant.
LEMMA CollectCosignersInv == ASSUME IInv, CollectCosigners PROVE IInv'
<1>1. Now = "cosigners" /\ Now \notin Closing
  BY DEF CollectCosigners, Closing
<1>2. doing \in DOMAIN Script /\ at \in 1..Len(Script[doing]) /\ answers \in Answers
  BY AtMenu DEF IInv, TypeInv, TypeOK
<1>3. CASE Ends
  BY <1>3, EndsInv
<1>4. ASSUME NEW s \in Drawn, Asks, Advance([answers EXCEPT !.mnemonic = s]) PROVE IInv'
  <2> DEFINE a == [answers EXCEPT !.mnemonic = s]
  <2>1. a \in Answers
    BY <1>2, SessionAssumption DEF Answers
  <2>2. /\ a.public = answers.public /\ a.mode = answers.mode /\ a.typed = answers.typed
        /\ a.words = answers.words /\ a.mnemonic = s /\ a.duress = answers.duress
        /\ a.hidden = answers.hidden /\ a.chosen = answers.chosen /\ a.input = answers.input
        /\ a.file = answers.file /\ a.output = answers.output
        /\ a.hidden_output = answers.hidden_output /\ a.confirmed = answers.confirmed
    BY <1>2 DEF Answers
  <2>3. Advance(a)
    BY <1>4
  <2> HIDE DEF a
  <2>4. doing = "multisig_generate"
    BY <1>1, <1>2, StepScripts DEF Now
  <2>5. \A i \in 1..at : i < at =>
          Left(Script[doing][i], doing, a, wallet, args, done, checker.h)
    <3>1. \A i \in 1..at : i < at => Script[doing][i] \notin {"export", "seal"}
      BY <1>1, <1>2, StepOrder DEF Now
    <3>2. \A i \in 1..at : Script[doing][i] # "words_checked"
      BY <1>2, <2>4, StepScripts
    <3> QED
      BY <2>2, <3>1, <3>2 DEF IInv, StepsInv, Left, HiddenOf, SeedOf
  <2>6. Left(Now, doing, a, wallet, args, done, checker.h)
    BY <1>1 DEF Left
  <2>7. Past("cosigners", doing, at + 1)
    BY <1>1, <1>2 DEF Past, Now
  <2>8. answers.mode = "random" /\ (a.hidden # NoPw => Past("hidden_password", doing, at + 1))
    BY <1>2, <2>2, <2>4, PastGrows DEF IInv, AskedInv, Asked
  <2>9. Asked(a, doing, at + 1)
    BY <2>2, <2>7, <2>8 DEF IInv, AskedInv, Asked
  <2>10. done = {}
    BY <1>1, <2>4, Unsealed DEF Creations
  <2> QED
    BY <1>1, <1>4, <2>1, <2>3, <2>5, <2>6, <2>9, <2>10, AdvanceInv
<1> QED
  BY <1>3, <1>4 DEF CollectCosigners

\* A step of the seed is asked for before anything is made of it.
LEMMA SeedSteps ==
    ASSUME IInv, Now \in {"seed", "words", "words_checked"}
    PROVE  /\ doing = "singlesig_generate" /\ done = {} /\ answers.mnemonic = << >>
           /\ \A i \in 1..at : i < at => Script[doing][i] \notin {"export", "seal", "words_checked"}
           /\ Now = "seed" => answers.words = << >> /\ answers.mode = "random"
           /\ Now # "seed" => answers.mode # "random"
<1>1. doing \in DOMAIN Script /\ at \in 1..Len(Script[doing]) /\ Script[doing][at] = Now
  BY AtMenu DEF IInv, TypeInv, TypeOK
<1>2. doing = "singlesig_generate"
  BY <1>1, StepScripts
<1>3. done = {}
  BY <1>2, Unsealed DEF Creations
<1>4. \A i \in 1..at : i < at => Script[doing][i] \notin {"export", "seal", "words_checked"}
  <2> SUFFICES ASSUME NEW i \in 1..at, i < at
               PROVE  Script[doing][i] \notin {"export", "seal", "words_checked"}
    OBVIOUS
  <2>1. Script[doing][i] = "export" => Past("seal", doing, i)
    BY <1>1, <1>2, StepsBefore DEF Creations
  <2>2. ~Past("seal", doing, i)
    BY <1>1, StepOrder DEF Past
  <2> QED
    BY <1>1, <2>1, <2>2, StepOrder
<1>5. ~Past("cosigners", doing, at)
  BY <1>1, <1>2, StepScripts DEF Past
<1>6. answers.mnemonic = << >>
  BY <1>4, <1>5 DEF IInv, AskedInv, Asked, Past
<1>7. Now = "seed" => ~Past("seed", doing, at)
  BY <1>1, StepOrder DEF Past
<1>8. Now = "seed" => answers.words = << >> /\ answers.mode = "random"
  BY <1>7 DEF IInv, AskedInv, Asked
<1>9. Now # "seed" => answers.mode # "random"
  BY <1>1 DEF IInv, NowInv, SkippedBy
<1> QED
  BY <1>2, <1>3, <1>4, <1>6, <1>8, <1>9

\* AskSeed keeps the invariant.
LEMMA AskSeedInv == ASSUME IInv, AskSeed PROVE IInv'
<1>1. PICK mode \in {"random", "all", "complete"} :
        Asks /\ Advance([answers EXCEPT !.mode = mode])
  BY DEF AskSeed
<1>2. Now = "seed" /\ Now \notin Closing
  BY DEF AskSeed, Closing
<1>3. doing \in DOMAIN Script /\ at \in 1..Len(Script[doing]) /\ answers \in Answers
  BY AtMenu DEF IInv, TypeInv, TypeOK
<1> DEFINE a == [answers EXCEPT !.mode = mode]
<1>4. a \in Answers
  BY <1>3 DEF Answers
<1>5. /\ a.public = answers.public /\ a.mode = mode /\ a.typed = answers.typed
      /\ a.words = answers.words /\ a.mnemonic = answers.mnemonic /\ a.duress = answers.duress
      /\ a.hidden = answers.hidden /\ a.chosen = answers.chosen /\ a.input = answers.input
      /\ a.file = answers.file /\ a.output = answers.output
      /\ a.hidden_output = answers.hidden_output /\ a.confirmed = answers.confirmed
  BY <1>3 DEF Answers
<1>6. Asks /\ Advance(a)
  BY <1>1
<1> HIDE DEF a
<1>7. /\ doing = "singlesig_generate" /\ answers.words = << >> /\ answers.mnemonic = << >>
      /\ \A i \in 1..at : i < at => Script[doing][i] \notin {"export", "seal", "words_checked"}
  BY <1>2, SeedSteps
<1>8. \A i \in 1..at : i < at =>
          Left(Script[doing][i], doing, a, wallet, args, done, checker.h)
  BY <1>5, <1>7 DEF IInv, StepsInv, Left, HiddenOf, SeedOf
<1>9. Left(Now, doing, a, wallet, args, done, checker.h)
  BY <1>2 DEF Left
<1>10. Past("seed", doing, at + 1)
  BY <1>2, <1>3 DEF Past, Now
<1>11. a.hidden # NoPw => Past("hidden_password", doing, at + 1)
  BY <1>3, <1>5, PastGrows DEF IInv, AskedInv, Asked
<1>12. Asked(a, doing, at + 1)
  BY <1>5, <1>7, <1>10, <1>11 DEF IInv, AskedInv, Asked
<1> QED
  BY <1>2, <1>4, <1>5, <1>6, <1>8, <1>9, <1>12, AdvanceInv

\* What is typed, completed if it is to be.
LEMMA TypedWords ==
    ASSUME NEW typed \in Typed, NEW random \in Random, WordsToAsk(Len(typed)),
           NEW w, w = IF answers.mode = "all" THEN typed
                      ELSE complete_words_with_checksum(random, typed)
    PROVE  /\ w \in Seeds /\ w # << >> /\ Len(w) - Len(typed) \in 0..1
           /\ SubSeq(w, 1, Len(typed)) = typed
           /\ answers.mode # "all" => from_str(w) = "Ok"
<1>0. typed \in Seeds /\ Len(typed) \in Nat
  BY SessionAssumption DEF Seeds
<1>1. CASE answers.mode = "all"
  <2>1. w = typed /\ Len(typed) \in {12, 24}
    BY <1>1 DEF WordsToAsk
  <2>2. SubSeq(typed, 1, Len(typed)) = typed
    BY <1>0 DEF Seeds
  <2> QED
    BY <1>0, <1>1, <2>1, <2>2 DEF Seeds
<1>2. CASE answers.mode # "all"
  <2>1. w = complete_words_with_checksum(random, typed) /\ Len(typed) \in {11, 23}
    BY <1>2 DEF WordsToAsk
  <2>2. /\ w \in Seeds /\ Len(w) = Len(typed) + 1
        /\ SubSeq(w, 1, Len(typed)) = typed /\ from_str(w) = "Ok"
    BY <2>1, CompletedWords
  <2> QED
    BY <2>1, <2>2
<1> QED
  BY <1>1, <1>2

\* TypeWords keeps the invariant.
LEMMA TypeWordsInv == ASSUME IInv, TypeWords PROVE IInv'
<1>1. PICK typed \in Typed, random \in Random :
        /\ WordsToAsk(Len(typed)) /\ Asks
        /\ Advance([answers EXCEPT !.typed = typed,
                !.words = IF answers.mode = "all" THEN typed
                          ELSE complete_words_with_checksum(random, typed)])
  BY DEF TypeWords
<1>2. Now = "words" /\ Now \notin Closing
  BY DEF TypeWords, Closing
<1>3. doing \in DOMAIN Script /\ at \in 1..Len(Script[doing]) /\ answers \in Answers
  BY AtMenu DEF IInv, TypeInv, TypeOK
<1>4. PICK w : w = IF answers.mode = "all" THEN typed
                   ELSE complete_words_with_checksum(random, typed)
  OBVIOUS
<1> DEFINE a == [answers EXCEPT !.typed = typed, !.words = w]
<1>5. Asks /\ Advance(a)
  BY <1>1, <1>4
<1>6. /\ w \in Seeds /\ w # << >> /\ Len(w) - Len(typed) \in 0..1
      /\ SubSeq(w, 1, Len(typed)) = typed
      /\ answers.mode # "all" => from_str(w) = "Ok"
  BY <1>1, <1>4, TypedWords
<1>7. a \in Answers
  BY <1>3, <1>6, SessionAssumption DEF Answers
<1>8. /\ a.public = answers.public /\ a.mode = answers.mode /\ a.typed = typed
      /\ a.words = w /\ a.mnemonic = answers.mnemonic /\ a.duress = answers.duress
      /\ a.hidden = answers.hidden /\ a.chosen = answers.chosen /\ a.input = answers.input
      /\ a.file = answers.file /\ a.output = answers.output
      /\ a.hidden_output = answers.hidden_output /\ a.confirmed = answers.confirmed
  BY <1>3 DEF Answers
<1> HIDE DEF a
<1>9. /\ doing = "singlesig_generate" /\ answers.mode # "random" /\ answers.mnemonic = << >>
  BY <1>2, SeedSteps
<1>10. \A i \in 1..at : i < at =>
          Left(Script[doing][i], doing, a, wallet, args, done, checker.h)
  BY <1>8 DEF IInv, StepsInv, Left, HiddenOf, SeedOf
<1>11. Left(Now, doing, a, wallet, args, done, checker.h)
  BY <1>2 DEF Left
<1>12. a.hidden # NoPw => Past("hidden_password", doing, at + 1)
  BY <1>3, <1>8, PastGrows DEF IInv, AskedInv, Asked
<1>13. Past("seed", doing, at + 1)
  BY <1>3, <1>9, PastGrows DEF IInv, AskedInv, Asked
<1>14. Asked(a, doing, at + 1)
  BY <1>6, <1>8, <1>9, <1>12, <1>13 DEF IInv, AskedInv, Asked
<1> QED
  BY <1>2, <1>5, <1>7, <1>8, <1>10, <1>11, <1>14, AdvanceInv

\* What is past stays past going back by one other step.
LEMMA PastShrinks ==
    ASSUME NEW s, NEW step, NEW k \in Nat, Past(step, s, k), Script[s][k - 1] # step
    PROVE  Past(step, s, k - 1)
BY DEF Past

\* CheckWords keeps the invariant.
LEMMA CheckWordsInv == ASSUME IInv, CheckWords PROVE IInv'
<1>1. Now = "words_checked" /\ Now \notin Closing
  BY DEF CheckWords, Closing
<1>2. doing \in DOMAIN Script /\ at \in 1..Len(Script[doing]) /\ answers \in Answers
  BY AtMenu DEF IInv, TypeInv, TypeOK
<1>3. /\ doing = "singlesig_generate" /\ answers.mode # "random" /\ answers.mnemonic = << >>
      /\ \A i \in 1..at : i < at => Script[doing][i] \notin {"export", "seal", "words_checked"}
      /\ done = {}
  BY <1>1, SeedSteps
<1>4. CASE Ends
  BY <1>4, EndsInv
<1>5. CASE /\ from_str(answers.words) = "Ok" /\ Asks
           /\ Advance([answers EXCEPT !.mnemonic = answers.words])
  <2> DEFINE a == [answers EXCEPT !.mnemonic = answers.words]
  <2>1. a \in Answers
    BY <1>2 DEF Answers
  <2>2. /\ a.public = answers.public /\ a.mode = answers.mode /\ a.typed = answers.typed
        /\ a.words = answers.words /\ a.mnemonic = answers.words /\ a.duress = answers.duress
        /\ a.hidden = answers.hidden /\ a.chosen = answers.chosen /\ a.input = answers.input
        /\ a.file = answers.file /\ a.output = answers.output
        /\ a.hidden_output = answers.hidden_output /\ a.confirmed = answers.confirmed
    BY <1>2 DEF Answers
  <2>3. Advance(a)
    BY <1>5
  <2> HIDE DEF a
  <2>4. answers.words # << >>
    <3>1. from_str(<< >>) # "Ok"
      BY DEF from_str
    <3> QED
      BY <1>5, <3>1
  <2>5. \A i \in 1..at : i < at =>
          Left(Script[doing][i], doing, a, wallet, args, done, checker.h)
    BY <1>3, <2>2 DEF IInv, StepsInv, Left, HiddenOf, SeedOf
  <2>6. Left(Now, doing, a, wallet, args, done, checker.h)
    BY <1>1, <2>2, <2>4 DEF Left
  <2>7. Past("words_checked", doing, at + 1)
    BY <1>1, <1>2 DEF Past, Now
  <2>8. Asked(answers, doing, at + 1)
    BY <1>2, AskedGrows DEF IInv, AskedInv
  <2>9. Asked(a, doing, at + 1)
    BY <1>5, <2>2, <2>7, <2>8 DEF Asked
  <2> QED
    BY <1>1, <1>3, <1>5, <2>1, <2>3, <2>5, <2>6, <2>9, AdvanceInv
<1>6. CASE /\ answers.tries < MaxTries /\ Asks /\ answers' = [answers EXCEPT !.tries = @ + 1]
           /\ at' = at - 1 /\ UNCHANGED doing
  <2>1. PICK a : a = answers'
    OBVIOUS
  <2>2. PICK k : k = at'
    OBVIOUS
  <2>3. k = at - 1 /\ at > 1 /\ Script[doing][k] = "words" /\ k \in 1..Len(Script[doing])
    BY <1>1, <1>2, <1>6, <2>2, StepsBefore DEF Now
  <2>4. /\ a.public = answers.public /\ a.mode = answers.mode /\ a.typed = answers.typed
        /\ a.words = answers.words /\ a.mnemonic = answers.mnemonic /\ a.duress = answers.duress
        /\ a.hidden = answers.hidden /\ a.chosen = answers.chosen /\ a.input = answers.input
        /\ a.file = answers.file /\ a.output = answers.output
        /\ a.hidden_output = answers.hidden_output /\ a.confirmed = answers.confirmed
    BY <1>2, <1>6, <2>1 DEF Answers
  <2>5. a \in Answers
    BY <1>2, <1>6, <2>1 DEF Answers
  <2>6. \A i \in 1..k : i < k =>
          Left(Script[doing][i], doing, a, wallet, args, done, checker.h)
    BY <1>2, <2>3, <2>4 DEF IInv, StepsInv, Left, HiddenOf, SeedOf
  <2>7. \A step : step # "words" /\ Past(step, doing, at) => Past(step, doing, k)
    BY <1>2, <2>3, PastShrinks
  <2>8. Asked(a, doing, k)
    BY <1>3, <2>4, <2>7 DEF IInv, AskedInv, Asked
  <2>9. ~SkippedBy(doing, Script[doing][k], a, wallet, args)
    BY <1>3, <2>3, <2>4 DEF SkippedBy
  <2>10. /\ doing' = doing /\ args' = args /\ processes' = processes /\ actions' = actions
         /\ files' = files /\ checker' = checker /\ looked' = looked /\ done' = done
         /\ wallet' = wallet
    BY <1>6, AsksFrame
  <2>11. TypeInv'
    BY <1>2, <2>1, <2>2, <2>3, <2>5, <2>10, ScriptType DEF IInv, TypeInv, TypeOK, Answers
  <2>12. StepsInv'
    BY <2>1, <2>2, <2>6, <2>10 DEF StepsInv
  <2>13. NowInv'
    BY <2>1, <2>2, <2>9, <2>10 DEF NowInv
  <2>14. AskedInv'
    BY <2>1, <2>2, <2>8, <2>10 DEF AskedInv
  <2>15. DoneInv' /\ LookupInv' /\ OutputsAsChosen'
    BY <1>3, <2>10 DEF IInv, DoneInv, LookupInv, OutputsAsChosen
  <2> QED
    BY <2>11, <2>12, <2>13, <2>14, <2>15 DEF IInv
<1> QED
  BY <1>4, <1>5, <1>6 DEF CheckWords

\* AskDuress keeps the invariant.
LEMMA AskDuressInv == ASSUME IInv, AskDuress PROVE IInv'
<1>1. PICK duress \in BOOLEAN : Asks /\ Advance([answers EXCEPT !.duress = duress])
  BY DEF AskDuress
<1>2. Now = "duress" /\ Now \notin Closing
  BY DEF AskDuress, Closing
<1>3. doing \in DOMAIN Script /\ at \in 1..Len(Script[doing]) /\ answers \in Answers
  BY AtMenu DEF IInv, TypeInv, TypeOK
<1> DEFINE a == [answers EXCEPT !.duress = duress]
<1>4. a \in Answers
  BY <1>3 DEF Answers
<1>5. /\ a.public = answers.public /\ a.mode = answers.mode /\ a.typed = answers.typed
      /\ a.words = answers.words /\ a.mnemonic = answers.mnemonic
      /\ a.hidden = answers.hidden /\ a.chosen = answers.chosen /\ a.input = answers.input
      /\ a.file = answers.file /\ a.output = answers.output
      /\ a.hidden_output = answers.hidden_output /\ a.confirmed = answers.confirmed
  BY <1>3 DEF Answers
<1>6. Asks /\ Advance(a)
  BY <1>1
<1> HIDE DEF a
<1>7. \A i \in 1..at : i < at => Script[doing][i] # "start_batch"
  BY <1>2, <1>3, StepOrder DEF Now
<1>8. \A i \in 1..at : i < at =>
          Left(Script[doing][i], doing, a, wallet, args, done, checker.h)
  BY <1>5, <1>7 DEF IInv, StepsInv, Left, HiddenOf, SeedOf
<1>9. Left(Now, doing, a, wallet, args, done, checker.h)
  BY <1>2 DEF Left
<1>10. Asked(answers, doing, at + 1)
  BY <1>3, AskedGrows DEF IInv, AskedInv
<1>11. Asked(a, doing, at + 1)
  BY <1>5, <1>10 DEF Asked
<1> QED
  BY <1>2, <1>4, <1>5, <1>6, <1>8, <1>9, <1>11, AdvanceInv

\* ChooseWallet keeps the invariant.
LEMMA ChooseWalletInv == ASSUME IInv, ChooseWallet PROVE IInv'
<1>1. PICK chosen \in {"decoy", "hidden"} : Asks /\ Advance([answers EXCEPT !.chosen = chosen])
  BY DEF ChooseWallet
<1>2. Now = "choose" /\ Now \notin Closing
  BY DEF ChooseWallet, Closing
<1>3. doing \in DOMAIN Script /\ at \in 1..Len(Script[doing]) /\ answers \in Answers
  BY AtMenu DEF IInv, TypeInv, TypeOK
<1> DEFINE a == [answers EXCEPT !.chosen = chosen]
<1>4. a \in Answers
  BY <1>3 DEF Answers
<1>5. /\ a.public = answers.public /\ a.mode = answers.mode /\ a.typed = answers.typed
      /\ a.words = answers.words /\ a.mnemonic = answers.mnemonic /\ a.duress = answers.duress
      /\ a.hidden = answers.hidden /\ a.input = answers.input
      /\ a.file = answers.file /\ a.output = answers.output
      /\ a.hidden_output = answers.hidden_output /\ a.confirmed = answers.confirmed
  BY <1>3 DEF Answers
<1>6. Asks /\ Advance(a)
  BY <1>1
<1> HIDE DEF a
<1>7. \A i \in 1..at : i < at => Script[doing][i] # "confirm"
  BY <1>2, <1>3, StepOrder DEF Now
<1>8. \A i \in 1..at : i < at =>
          Left(Script[doing][i], doing, a, wallet, args, done, checker.h)
  BY <1>5, <1>7 DEF IInv, StepsInv, Left, HiddenOf, SeedOf
<1>9. Left(Now, doing, a, wallet, args, done, checker.h)
  BY <1>2 DEF Left
<1>10. Asked(answers, doing, at + 1)
  BY <1>3, AskedGrows DEF IInv, AskedInv
<1>11. Asked(a, doing, at + 1)
  BY <1>5, <1>10 DEF Asked
<1> QED
  BY <1>2, <1>4, <1>5, <1>6, <1>8, <1>9, <1>11, AdvanceInv

\* AskHiddenPassword keeps the invariant.
LEMMA AskHiddenPasswordInv == ASSUME IInv, AskHiddenPassword PROVE IInv'
<1>1. Now = "hidden_password" /\ Now \notin Closing
  BY DEF AskHiddenPassword, Closing
<1>2. doing \in DOMAIN Script /\ at \in 1..Len(Script[doing]) /\ answers \in Answers
  BY AtMenu DEF IInv, TypeInv, TypeOK
<1>3. CASE Ends
  BY <1>3, EndsInv
<1>4. ASSUME ~(doing = "singlesig_generate" /\ (answers.public = None \/ Exists(HiddenPublic))),
             NEW p \in HiddenPw, Asks,
             Advance([answers EXCEPT !.hidden = p,
                         !.hidden_output = IF doing \in Creations THEN HiddenPublic ELSE None])
      PROVE  IInv'
  <2>1. PICK n : n = IF doing \in Creations THEN HiddenPublic ELSE None
    OBVIOUS
  <2> DEFINE a == [answers EXCEPT !.hidden = p, !.hidden_output = n]
  <2>2. Advance(a)
    BY <1>4, <2>1
  <2>3. doing \in Creations => answers.public \in Path
    <3>1. doing \in Creations => doing \in {"singlesig_generate", "batch_generate"}
      BY <1>1, <1>2, StepScripts DEF Now, Creations
    <3>2. doing = "batch_generate" => answers.public # None
      <4>1. doing = "batch_generate" => Past("start_batch", doing, at)
        BY <1>1, <1>2, StepsBefore DEF Now
      <4>2. doing = "batch_generate" => (answers.duress \/ args.duress => answers.public # None)
        BY <4>1, PastLeft DEF IInv, Left
      <4>3. doing = "batch_generate" => answers.duress \/ args.duress
        BY <1>1 DEF IInv, NowInv, SkippedBy, Now, Creations
      <4> QED
        BY <4>2, <4>3
    <3>3. answers.public \in Path \cup {None}
      BY <1>2 DEF Answers
    <3> QED
      BY <1>4, <3>1, <3>2, <3>3
  <2>4. n \in Path \cup {None} /\ (doing \in Creations => n \in Path)
    BY <2>1, <2>3, SuggestedPaths DEF HiddenPublic
  <2>5. a \in Answers
    BY <1>2, <2>4 DEF Answers
  <2>6. /\ a.public = answers.public /\ a.mode = answers.mode /\ a.typed = answers.typed
        /\ a.words = answers.words /\ a.mnemonic = answers.mnemonic /\ a.duress = answers.duress
        /\ a.hidden = p /\ a.chosen = answers.chosen /\ a.input = answers.input
        /\ a.file = answers.file /\ a.output = answers.output
        /\ a.hidden_output = n /\ a.confirmed = answers.confirmed
    BY <1>2 DEF Answers
  <2> HIDE DEF a
  <2>7. \A i \in 1..at : i < at => Script[doing][i] \notin {"confirm", "hidden_output"}
    BY <1>1, <1>2, StepOrder DEF Now
  <2>8. \A i \in 1..at : i < at =>
          Left(Script[doing][i], doing, a, wallet, args, done, checker.h)
    BY <2>6, <2>7 DEF IInv, StepsInv, Left, HiddenOf, SeedOf
  <2>9. Left(Now, doing, a, wallet, args, done, checker.h)
    BY <1>1 DEF Left
  <2>10. Asked(answers, doing, at + 1)
    BY <1>2, AskedGrows DEF IInv, AskedInv
  <2>11. Past("hidden_password", doing, at + 1)
    BY <1>1, <1>2 DEF Past, Now
  <2>12. Asked(a, doing, at + 1)
    BY <2>3, <2>4, <2>6, <2>10, <2>11 DEF Asked
  <2> QED
    BY <1>1, <1>4, <2>2, <2>5, <2>6, <2>8, <2>9, <2>12, AdvanceInv
<1> QED
  BY <1>3, <1>4 DEF AskHiddenPassword

\* A check waits for the lookup and takes its handle; only who saw no internet
\* goes on.
LEMMA CheckInv == ASSUME IInv, Check PROVE IInv'
<1>1. /\ Now = "check" /\ Now \notin Closing /\ checker.h # "running"
      /\ UNCHANGED << args, processes, actions, files, looked, done >>
  BY DEF Check, Closing
<1>2. /\ checker'.h = "taken"
      /\ checker' \in [h : {"running", "reachable", "unreachable", "taken"},
                       is_connected : {"unknown", "reachable", "unreachable"}]
  BY DEF Check, IInv, TypeInv, TypeOK
<1>3. doing \in DOMAIN Script /\ at \in 1..Len(Script[doing]) /\ answers \in Answers
  BY AtMenu DEF IInv, TypeInv, TypeOK
<1>4. CASE End
  BY <1>1, <1>2, <1>4, EndInv
<1>5. CASE ~IsConnected /\ Advance(answers) /\ wallet' = wallet
  <2>1. looked # "reachable"
    <3>1. doing # "ended"
      BY <1>1, <1>3, StepScripts DEF Now, Creations, Openings
    <3>2. checker.h \in {"reachable", "unreachable", "taken"}
      BY <1>1 DEF IInv, TypeInv, TypeOK
    <3> QED
      BY <1>5, <3>1, <3>2 DEF IInv, LookupInv, IsConnected
  <2>2. \A i \in 1..at : i < at =>
          Left(Script[doing][i], doing, answers, wallet, args, done', checker'.h)
    BY <1>1, <1>2 DEF IInv, StepsInv, Left
  <2>3. Left(Now, doing, answers, wallet, args, done', checker'.h)
    BY <1>1, <1>2 DEF Left
  <2>4. Asked(answers, doing, at + 1)
    BY <1>3, AskedGrows DEF IInv, AskedInv
  <2>5. /\ doing' = doing /\ answers' = answers /\ at' \in (at + 1)..Len(Script[doing])
        /\ StepsInv' /\ NowInv' /\ AskedInv'
    BY <1>1, <1>3, <1>5, <2>2, <2>3, <2>4, AdvanceSteps DEF IInv, TypeInv, TypeOK
  <2>6. at \in Nat /\ at' \in Nat /\ at <= at' /\ at' \in DOMAIN Script[doing]
    BY <1>3, <2>5, ScriptType
  <2>7. TypeInv'
    BY <1>1, <1>2, <1>5, <2>5, <2>6 DEF IInv, TypeInv, TypeOK
  <2>8. LookupInv'
    BY <1>1, <1>2, <1>5, <2>1 DEF IInv, LookupInv
  <2>9. DoneInv'
    <3>1. Past("seal", doing, at) => Past("seal", doing, at')
      BY <2>6, PastGrows
    <3> QED
      BY <1>1, <1>5, <2>5, <3>1 DEF IInv, DoneInv
  <2>10. OutputsAsChosen'
    BY <1>1, <1>5 DEF IInv, OutputsAsChosen
  <2> QED
    BY <2>5, <2>7, <2>8, <2>9, <2>10 DEF IInv
<1> QED
  BY <1>4, <1>5 DEF Check

---------------------------------------------------------------------------
(* What is done with the answers.                                           *)

\* A file is added.
LEMMA WithType ==
    ASSUME TypeOK, NEW n \in Path, NEW c \in Contents, files' = With(n, c)
    PROVE  DOMAIN files' \subseteq Path /\ \A m \in DOMAIN files' : files'[m] \in Contents
BY DEF TypeOK, With

\* Something is done, and the script goes on.
LEMMA EventInv ==
    ASSUME IInv, Now \in {"seal", "export", "export_hidden", "show", "sign"},
           NEW a \in Answers, Advance(a), Asked(a, doing, at + 1),
           \A i \in 1..at : i < at =>
              Left(Script[doing][i], doing, a, wallet, args, done', checker.h),
           Left(Now, doing, a, wallet, args, done', checker.h),
           NEW e \in Events, done' = done \cup {e}, e.of = doing,
           doing \in Creations =>
              e.seed = a.mnemonic /\ (a.mnemonic = answers.mnemonic \/ done = {}),
           DOMAIN files' \subseteq Path, \A m \in DOMAIN files' : files'[m] \in Contents,
           UNCHANGED << args, processes, actions, checker, looked, wallet >>,
           OutputsAsChosen'
    PROVE  IInv'
<1>1. /\ doing \in DOMAIN Script /\ at \in 1..Len(Script[doing]) /\ Script[doing][at] = Now
      /\ Now \notin Closing
  BY AtMenu DEF IInv, TypeInv, TypeOK, Closing
<1>2. /\ doing' = doing /\ answers' = a /\ at' \in (at + 1)..Len(Script[doing])
      /\ StepsInv' /\ NowInv' /\ AskedInv'
  BY <1>1, AdvanceSteps DEF IInv, TypeInv, TypeOK
<1>3. at \in Nat /\ at' \in Nat /\ at + 1 <= at' /\ at' \in DOMAIN Script[doing]
  BY <1>1, <1>2, ScriptType
<1>4. doing \in Creations \cup OpenActions
  BY <1>1, StepScripts DEF Creations, OpenActions
<1>5. TypeInv'
  BY <1>2, <1>3 DEF IInv, TypeInv, TypeOK, Answers
<1>6. LookupInv'
  <2>1. CASE doing \in OpenActions
    <3>1. wallet # None /\ doing # "ended"
      BY <2>1 DEF IInv, TypeInv, TypeOK, OpenActions
    <3> QED
      BY <1>2, <3>1 DEF IInv, LookupInv
  <2>2. CASE doing \in Creations
    <3>1. checker.h = "taken" \/ args.password # None
      <4>1. Now \notin {"show", "sign"}
        BY <1>1, <2>2, StepScripts DEF Creations
      <4>2. Past("check", doing, at)
        BY <1>1, <2>2, <4>1, StepsBefore
      <4> QED
        BY <4>2, PastLeft DEF IInv, Left
    <3>2. doing # "ended"
      BY <2>2 DEF Creations
    <3> QED
      BY <1>2, <2>2, <3>1, <3>2 DEF IInv, LookupInv
  <2> QED
    BY <1>4, <2>1, <2>2
<1>7. DoneInv'
  <2>1. doing \in Creations => Past("seal", doing, at')
    <3>1. Now = "seal" => Past("seal", doing, at + 1)
      BY <1>1 DEF Past
    <3>2. doing \in Creations /\ Now # "seal" => Past("seal", doing, at)
      <4>1. doing \in Creations => Now \notin {"show", "sign"}
        BY <1>1, StepScripts DEF Creations
      <4> QED
        BY <1>1, <4>1, StepsBefore
    <3> QED
      BY <1>3, <3>1, <3>2, PastGrows
  <2>2. doing \notin {"menu"} \cup Openings
    BY <1>4 DEF Creations, OpenActions, Openings
  <2>3. doing \in Creations => \A d \in done' : d.of = doing /\ d.seed = a.mnemonic
    BY DEF IInv, DoneInv
  <2> QED
    BY <1>2, <2>1, <2>2, <2>3 DEF IInv, DoneInv
<1> QED
  BY <1>2, <1>5, <1>6, <1>7 DEF IInv

\* The same answers, and one thing more that was done.
LEMMA SameAnswers ==
    ASSUME IInv, NEW e
    PROVE  /\ \A i \in 1..at : i < at =>
              Left(Script[doing][i], doing, answers, wallet, args, done \cup {e}, checker.h)
           /\ Asked(answers, doing, at + 1)
<1>1. at \in Nat
  BY AtMenu, ScriptType DEF IInv, TypeInv, TypeOK
<1>2. Asked(answers, doing, at + 1)
  BY <1>1, AskedGrows DEF IInv, AskedInv
<1>3. \A i \in 1..at : i < at =>
        Left(Script[doing][i], doing, answers, wallet, args, done \cup {e}, checker.h)
  BY DEF IInv, StepsInv, Left
<1> QED
  BY <1>2, <1>3

\* Passwords and keyfiles that are given.
LEMMA GivenTypes ==
    ASSUME TypeInv
    PROVE  Password \in Pw \cup {None} /\ Keyfiles \in SUBSET Keyfile
<1>1. args.password \in Pw \cup {None} /\ args.keyfiles \subseteq Keyfile
  BY SessionAssumption DEF TypeInv, TypeOK
<1>2. answers.password \in Pw \cup {None} /\ answers.keyfiles \subseteq Keyfile
  BY DEF TypeInv, Answers
<1> QED
  BY <1>1, <1>2 DEF Password, Keyfiles

\* Seal keeps the invariant.
LEMMA SealInv == ASSUME IInv, Seal PROVE IInv'
<1>1. CASE Ends
  BY <1>1, EndsInv
<1>2. ASSUME NEW seed \in IF doing = "Reencode" THEN {wallet.seed}
                          ELSE IF answers.mnemonic = << >> THEN Drawn ELSE {answers.mnemonic},
             Now = "seal",
             files' = With(answers.output, Content(Kind, seed, NoPw, Password, Keyfiles)),
             done' = done \cup {Event("sealed", seed, NoPw)},
             Advance([answers EXCEPT !.mnemonic = seed]),
             UNCHANGED << args, processes, actions, checker, looked, wallet >>
      PROVE  IInv'
  <2>1. doing \in DOMAIN Script /\ at \in 1..Len(Script[doing]) /\ answers \in Answers
    BY AtMenu DEF IInv, TypeInv, TypeOK
  <2>2. doing \in Creations \cup {"Reencode"}
    BY <1>2, <2>1, StepScripts DEF Now
  <2>3. doing = "Reencode" => wallet \in Wallets /\ wallet # None
    BY DEF IInv, TypeInv, TypeOK, OpenActions
  <2>4. doing \in Creations => wallet = None /\ doing # "Reencode"
    BY DEF IInv, TypeInv, TypeOK, OpenActions, Creations
  <2>5. seed \in Seeds
    BY <1>2, <2>1, <2>3, SessionAssumption DEF Answers, Wallets
  <2> DEFINE a == [answers EXCEPT !.mnemonic = seed]
             e == Event("sealed", seed, NoPw)
  <2>6. a \in Answers
    BY <2>1, <2>5 DEF Answers
  <2>7. /\ a.public = answers.public /\ a.mode = answers.mode /\ a.typed = answers.typed
        /\ a.words = answers.words /\ a.mnemonic = seed /\ a.duress = answers.duress
        /\ a.hidden = answers.hidden /\ a.chosen = answers.chosen /\ a.input = answers.input
        /\ a.file = answers.file /\ a.output = answers.output
        /\ a.hidden_output = answers.hidden_output /\ a.confirmed = answers.confirmed
    BY <2>1 DEF Answers
  <2>8. /\ e.what = "sealed" /\ e.of = doing /\ e.seed = seed /\ e.seed_password = NoPw
    BY DEF Event
  <2>9. e \in Events
    BY <2>1, <2>2, <2>5 DEF Event, Events, Answers, OpenActions
  <2>10. Advance(a) /\ done' = done \cup {e}
    BY <1>2
  <2> HIDE DEF a, e
  <2>11. answers.mode # "random" => doing = "singlesig_generate" /\ seed = answers.mnemonic
    <3>1. answers.mode # "random" => doing = "singlesig_generate"
      BY DEF IInv, AskedInv, Asked
    <3>2. answers.mode # "random" => answers.mnemonic # << >>
      <4>1. doing = "singlesig_generate" => Past("words_checked", doing, at)
        BY <1>2, <2>1, StepsBefore DEF Now
      <4> QED
        BY <3>1, <4>1, PastLeft DEF IInv, Left
    <3> QED
      BY <1>2, <3>1, <3>2
  <2>12. \A i \in 1..at : i < at =>
          Left(Script[doing][i], doing, a, wallet, args, done', checker.h)
    <3>1. \A i \in 1..at : i < at => Script[doing][i] \notin {"export", "seal"}
      BY <1>2, <2>1, StepOrder DEF Now
    <3> QED
      BY <2>7, <2>11, <3>1 DEF IInv, StepsInv, Left, HiddenOf, SeedOf
  <2>13. Left(Now, doing, a, wallet, args, done', checker.h)
    BY <1>2, <2>7, <2>8, <2>10 DEF Left
  <2>14. Past("seal", doing, at + 1)
    BY <1>2, <2>1 DEF Past, Now
  <2>15. Asked(a, doing, at + 1)
    BY <2>7, <2>11, <2>14, SameAnswers DEF Asked
  <2>16. doing \in Creations =>
            e.seed = a.mnemonic /\ (a.mnemonic = answers.mnemonic \/ done = {})
    BY <1>2, <2>7, <2>8, Unsealed
  <2>17. DOMAIN files' \subseteq Path /\ \A m \in DOMAIN files' : files'[m] \in Contents
    <3>1. Past("output", doing, at)
      BY <1>2, <2>1, StepsBefore DEF Now
    <3>2. answers.output \in Path
      BY <3>1, PastLeft DEF IInv, Left
    <3>3. Content(Kind, seed, NoPw, Password, Keyfiles) \in Contents
      BY <2>5, GivenTypes DEF IInv, Content, Contents, Kind
    <3> QED
      BY <1>2, <3>2, <3>3, WithType DEF IInv, TypeInv
  <2>18. OutputsAsChosen'
    <3>1. wallet # None => e.seed = wallet.seed
      BY <1>2, <2>2, <2>4, <2>8
    <3> QED
      BY <1>2, <2>8, <2>10, <3>1 DEF IInv, OutputsAsChosen
  <2> QED
    BY <1>2, <2>6, <2>8, <2>9, <2>10, <2>12, <2>13, <2>15, <2>16, <2>17, <2>18, EventInv
<1> QED
  BY <1>1, <1>2 DEF Seal

\* Whose seed is exported.
LEMMA SeedType ==
    ASSUME TypeInv
    PROVE  /\ Seed = SeedOf(answers, wallet) /\ Seed \in Seeds
           /\ Hidden(answers) = HiddenOf(answers, wallet)
           /\ Hidden(answers) \in HiddenPw \cup {NoPw}
           /\ doing \in Creations <=> doing \in Creations /\ wallet = None
           /\ doing \in OpenActions => wallet # None /\ wallet \in Wallets
BY DEF TypeInv, TypeOK, Answers, Wallets, Seed, SeedOf, Hidden, HiddenOf, OpenActions, Creations

\* An export that is written.
LEMMA ExportInv ==
    ASSUME IInv, Now \in {"export", "export_hidden"}, NEW name \in Path,
           NEW pw \in HiddenPw \cup {NoPw}, Export(name, Seed, pw),
           pw # NoPw =>
              /\ answers.confirmed
              /\ pw = Hidden(answers)
              /\ \E e \in done : e.what = "export" /\ e.seed = Seed /\ e.seed_password = NoPw,
           Now = "export" => pw = NoPw
    PROVE  IInv'
<1>1. CASE Ends
  BY <1>1, EndsInv
<1> DEFINE e == Event("export", Seed, pw)
           c == Content(IF IsMultisig THEN "multisigExport" ELSE "export", Seed, pw, None, {})
<1>2. CASE /\ files' = With(name, c) /\ done' = done \cup {e} /\ Advance(answers)
           /\ UNCHANGED << args, processes, actions, checker, looked, wallet >>
  <2>1. /\ doing \in DOMAIN Script /\ at \in 1..Len(Script[doing]) /\ answers \in Answers
        /\ Script[doing][at] = Now
    BY AtMenu DEF IInv, TypeInv, TypeOK
  <2>2. doing \in Creations \cup {"ExportPublicInfo"}
    BY <2>1, StepScripts
  <2>3. Seed = SeedOf(answers, wallet) /\ Seed \in Seeds
    BY SeedType DEF IInv
  <2>4. /\ e.what = "export" /\ e.of = doing /\ e.seed = Seed /\ e.seed_password = pw
        /\ e.confirmed = answers.confirmed
    BY DEF Event
  <2>5. e \in Events
    BY <2>1, <2>2, <2>3 DEF Event, Events, Answers, OpenActions
  <2>6. c \in Contents
    BY <2>3 DEF Content, Contents
  <2>7. DOMAIN files' \subseteq Path /\ \A m \in DOMAIN files' : files'[m] \in Contents
    <3> HIDE DEF c
    <3> QED
      BY <1>2, <2>6, WithType DEF IInv, TypeInv
  <2>8. done' = done \cup {e}
    BY <1>2
  <2> HIDE DEF e, c
  <2>9. doing \in Creations => Seed = answers.mnemonic
    BY SeedType DEF IInv, SeedOf
  <2>10. doing \in Creations => \E d \in done : d.what = "sealed" /\ d.seed = Seed
    <3>1. doing \in Creations => Past("seal", doing, at)
      BY <2>1, StepsBefore
    <3> QED
      BY <2>9, <3>1, PastLeft DEF IInv, Left
  <2>11. wallet # None => Seed = wallet.seed /\ Hidden(answers) = wallet.hidden
    BY DEF Seed, Hidden
  <2>12. OutputsAsChosen'
    BY <1>2, <2>4, <2>8, <2>10, <2>11 DEF IInv, OutputsAsChosen
  <2>13. Left(Now, doing, answers, wallet, args, done', checker.h)
    BY <2>3, <2>4, <2>8 DEF Left
  <2>14. /\ \A i \in 1..at : i < at =>
              Left(Script[doing][i], doing, answers, wallet, args, done', checker.h)
         /\ Asked(answers, doing, at + 1)
    BY <2>8, SameAnswers
  <2> QED
    BY <1>2, <2>1, <2>4, <2>5, <2>7, <2>8, <2>9, <2>12, <2>13, <2>14, EventInv
<1> QED
  BY <1>1, <1>2 DEF Export

\* ExportPublic keeps the invariant.
LEMMA ExportPublicInv == ASSUME IInv, ExportPublic PROVE IInv'
<1>1. /\ Now = "export"
      /\ Export(IF doing \in Creations THEN answers.public ELSE answers.output, Seed, NoPw)
  BY DEF ExportPublic
<1>2. doing \in DOMAIN Script /\ at \in 1..Len(Script[doing]) /\ answers \in Answers
  BY AtMenu DEF IInv, TypeInv, TypeOK
<1>3. PICK name : name = IF doing \in Creations THEN answers.public ELSE answers.output
  OBVIOUS
<1>4. name \in Path
  <2>1. CASE doing \in Creations
    <3>1. answers.public # None
      BY <1>1, <2>1 DEF IInv, NowInv, SkippedBy, Now
    <3> QED
      BY <1>2, <1>3, <2>1, <3>1 DEF Answers
  <2>2. CASE doing \notin Creations
    <3>1. Past("output", doing, at)
      BY <1>1, <1>2, <2>2, StepsBefore DEF Now
    <3> QED
      BY <1>3, <2>2, <3>1, PastLeft DEF IInv, Left
  <2> QED
    BY <2>1, <2>2
<1> QED
  BY <1>1, <1>3, <1>4, ExportInv

\* ExportHidden keeps the invariant.
LEMMA ExportHiddenInv == ASSUME IInv, ExportHidden PROVE IInv'
<1>1. Now = "export_hidden" /\ Export(answers.hidden_output, Seed, Hidden(answers))
  BY DEF ExportHidden
<1>2. /\ doing \in DOMAIN Script /\ at \in 1..Len(Script[doing]) /\ answers \in Answers
      /\ Script[doing][at] = "export_hidden"
  BY <1>1, AtMenu DEF IInv, TypeInv, TypeOK
<1>3. doing \in Creations \cup {"ExportPublicInfo"}
  BY <1>2, StepScripts
<1>4. /\ Seed = SeedOf(answers, wallet) /\ Hidden(answers) = HiddenOf(answers, wallet)
      /\ Hidden(answers) \in HiddenPw \cup {NoPw}
      /\ doing \in Creations => wallet = None
  BY SeedType DEF IInv
<1>5. HiddenOf(answers, wallet) # NoPw
  BY <1>2 DEF IInv, NowInv, SkippedBy
<1>6. Past("export", doing, at) /\ Past("confirm", doing, at)
  BY <1>2, StepsBefore
<1>7. answers.confirmed
  <2>1. Left("confirm", doing, answers, wallet, args, done, checker.h)
    BY <1>6, PastLeft DEF IInv
  <2> QED
    BY <1>3, <1>5, <2>1 DEF Left, Creations
<1>8. doing \in Creations => answers.public \in Path /\ answers.hidden_output \in Path
  BY <1>4, <1>5 DEF IInv, AskedInv, Asked, HiddenOf
<1>9. \E e \in done : e.what = "export" /\ e.seed = Seed /\ e.seed_password = NoPw
  <2>1. Left("export", doing, answers, wallet, args, done, checker.h)
    BY <1>6, PastLeft DEF IInv
  <2>2. ~(doing \in Creations \cup Openings /\ answers.public = None)
    BY <1>3, <1>8, SessionAssumption DEF Openings
  <2> QED
    BY <1>4, <2>1, <2>2 DEF Left
<1>10. answers.hidden_output \in Path
  <2>1. CASE doing \in Creations
    BY <1>8, <2>1
  <2>2. CASE doing \notin Creations
    <3>1. Past("hidden_output", doing, at)
      BY <1>2, <2>2, StepsBefore
    <3> QED
      BY <1>5, <3>1, PastLeft DEF IInv, Left
  <2> QED
    BY <2>1, <2>2
<1>11. PICK pw : pw = Hidden(answers)
  OBVIOUS
<1> QED
  BY <1>1, <1>4, <1>7, <1>9, <1>10, <1>11, ExportInv

\* Unlock keeps the invariant.
LEMMA UnlockInv == ASSUME IInv, Unlock PROVE IInv'
<1>1. CASE Ends
  BY <1>1, EndsInv
<1>2. ASSUME Now = "unlock", Quiet, Goto("open_menu"),
             NEW signers \in IF IsMultisig THEN BOOLEAN ELSE {FALSE},
             wallet' = [kind |-> Kind, seed |-> answers.file.seed, seed_password |-> NoPw,
                        hidden |-> answers.hidden, input |-> answers.input,
                        has_signers |-> signers]
      PROVE  IInv'
  <2>1. doing \in DOMAIN Script /\ at \in 1..Len(Script[doing]) /\ answers \in Answers
    BY AtMenu DEF IInv, TypeInv, TypeOK
  <2>2. doing \in Openings
    BY <1>2, <2>1, StepScripts DEF Now
  <2>3. done = {} /\ wallet = None
    BY <2>2 DEF IInv, DoneInv, TypeInv, TypeOK, Openings, OpenActions
  <2>4. answers.input \in Path /\ answers.file \in Contents
    <3>1. Past("input", doing, at)
      BY <1>2, <2>1, StepsBefore DEF Now
    <3> QED
      BY <3>1, PastLeft DEF IInv, Left
  <2>5. checker.h = "taken" /\ looked # "reachable"
    <3>1. Past("check", doing, at)
      BY <1>2, <2>1, <2>2, StepsBefore DEF Now
    <3>2. checker.h = "taken"
      BY <2>2, <3>1, PastLeft DEF IInv, Left, Openings
    <3> QED
      BY <2>2, <3>2 DEF IInv, LookupInv, Openings
  <2>6. Kind = "multisig" => answers.hidden = NoPw
    <3>1. Kind = "multisig" => doing = "multisig_open"
      BY <2>2, <2>3 DEF Kind, IsMultisig, Openings
    <3>2. doing = "multisig_open" => ~Past("hidden_password", doing, at)
      BY <2>1, StepScripts DEF Past
    <3> QED
      BY <3>1, <3>2 DEF IInv, AskedInv, Asked
  <2>7. wallet' \in Wallets /\ wallet'.kind = Kind /\ wallet'.hidden = answers.hidden
        /\ wallet'.seed_password = NoPw
    <3>1. Kind \in {"singlesig", "multisig"}
      BY DEF Kind
    <3>2. signers \in BOOLEAN
      BY <1>2
    <3>3. answers.file.seed \in Seeds /\ answers.hidden \in HiddenPw \cup {NoPw}
      BY <2>1, <2>4 DEF Answers, Contents
    <3> QED
      BY <1>2, <2>4, <3>1, <3>2, <3>3 DEF Wallets
  <2>8. wallet' # None
    BY <2>7, SessionAssumption
  <2>9. doing' = "open_menu" /\ at' = 1 /\ answers' = Blank
    BY <1>2, GotoMenu
  <2>10. /\ at' \in DOMAIN Script[doing'] /\ doing' \in DOMAIN Script
         /\ StepsInv' /\ NowInv' /\ AskedInv'
    BY <2>9, MenuSteps, ScriptDomain
  <2>11. /\ args' = args /\ processes' = processes /\ actions' = actions /\ files' = files
         /\ checker' = checker /\ looked' = looked /\ done' = done
    BY <1>2 DEF Quiet
  <2>12. TypeInv'
    BY <2>6, <2>7, <2>8, <2>9, <2>10, <2>11, BlankFacts DEF IInv, TypeInv, TypeOK, Answers
  <2>13. LookupInv'
    BY <2>3, <2>5, <2>11 DEF IInv, LookupInv, TypeInv, TypeOK
  <2>14. DoneInv' /\ OutputsAsChosen'
    BY <2>3, <2>7, <2>9, <2>11 DEF DoneInv, OutputsAsChosen, Creations, Openings
  <2> QED
    BY <2>10, <2>12, <2>13, <2>14 DEF IInv
<1> QED
  BY <1>1, <1>2 DEF Unlock

\* Which side of an open wallet is shown or signs.
LEMMA ChosenSide ==
    ASSUME IInv, Now \in {"show", "sign"}
    PROVE  /\ doing \in {"ShowReceivingQrCode", "ShowSecrets", "SignPsbt"}
           /\ wallet # None /\ wallet \in Wallets
           /\ ChosenPassword \in {NoPw, wallet.hidden}
           /\ answers.chosen = "decoy" => ChosenPassword = NoPw
           /\ ChosenPassword # NoPw => answers.confirmed /\ answers.chosen = "hidden"
<1>1. /\ doing \in DOMAIN Script /\ at \in 1..Len(Script[doing]) /\ answers \in Answers
      /\ Script[doing][at] = Now
  BY AtMenu DEF IInv, TypeInv, TypeOK
<1>2. doing \in {"ShowReceivingQrCode", "ShowSecrets", "SignPsbt"}
  BY <1>1, StepScripts
<1>3. wallet # None /\ wallet \in Wallets
  BY <1>2, SeedType DEF IInv, OpenActions
<1>4. wallet.seed_password = NoPw /\ answers.chosen \in {"decoy", "hidden"}
  BY <1>1, <1>3 DEF IInv, DoneInv, Answers
<1>5. Hidden(answers) = wallet.hidden /\ HiddenOf(answers, wallet) = wallet.hidden
  BY <1>3 DEF Hidden, HiddenOf
<1>6. Left("confirm", doing, answers, wallet, args, done, checker.h)
  <2>1. Past("confirm", doing, at)
    BY <1>1, StepsBefore
  <2> QED
    BY <2>1, PastLeft DEF IInv
<1> QED
  BY <1>2, <1>3, <1>4, <1>5, <1>6 DEF ChosenPassword, Left

\* It is shown, or signs.
LEMMA ShownInv ==
    ASSUME IInv, Now \in {"show", "sign"}, NEW what \in {"show", "sign"},
           done' = done \cup {Event(what, wallet.seed, ChosenPassword)}, Advance(answers),
           UNCHANGED << args, processes, actions, checker, looked, wallet >>,
           DOMAIN files' \subseteq Path, \A m \in DOMAIN files' : files'[m] \in Contents
    PROVE  IInv'
<1> DEFINE e == Event(what, wallet.seed, ChosenPassword)
<1>1. /\ doing \in {"ShowReceivingQrCode", "ShowSecrets", "SignPsbt"}
      /\ wallet # None /\ wallet \in Wallets
      /\ ChosenPassword \in {NoPw, wallet.hidden}
      /\ answers.chosen = "decoy" => ChosenPassword = NoPw
      /\ ChosenPassword # NoPw => answers.confirmed /\ answers.chosen = "hidden"
  BY ChosenSide
<1>2. answers \in Answers
  BY DEF IInv, TypeInv
<1>3. wallet.seed \in Seeds /\ ChosenPassword \in HiddenPw \cup {NoPw}
  BY <1>1 DEF Wallets
<1>4. /\ e.what = what /\ e.of = doing /\ e.seed = wallet.seed
      /\ e.seed_password = ChosenPassword /\ e.confirmed = answers.confirmed
      /\ e.chosen = answers.chosen
  BY DEF Event
<1>5. e \in Events
  BY <1>1, <1>2, <1>3 DEF Event, Events, Answers, OpenActions
<1>6. done' = done \cup {e}
  OBVIOUS
<1> HIDE DEF e
<1>7. OutputsAsChosen'
  BY <1>1, <1>4, <1>6 DEF IInv, OutputsAsChosen
<1>8. Left(Now, doing, answers, wallet, args, done', checker.h)
  BY DEF Left
<1>9. /\ \A i \in 1..at : i < at =>
            Left(Script[doing][i], doing, answers, wallet, args, done', checker.h)
      /\ Asked(answers, doing, at + 1)
  BY <1>6, SameAnswers
<1>10. doing \notin Creations
  BY <1>1 DEF Creations
<1> QED
  BY <1>2, <1>4, <1>5, <1>6, <1>7, <1>8, <1>9, <1>10, EventInv

\* Show keeps the invariant.
LEMMA ShowInv == ASSUME IInv, Show PROVE IInv'
<1>1. DOMAIN files' \subseteq Path /\ \A m \in DOMAIN files' : files'[m] \in Contents
  BY DEF Show, IInv, TypeInv, TypeOK
<1> QED
  BY <1>1, ShownInv DEF Show, Kept

\* Sign keeps the invariant.
LEMMA SignInv == ASSUME IInv, Sign PROVE IInv'
<1>1. Now = "sign" /\ Now \notin Closing
  BY DEF Sign, Closing
<1>2. CASE Ends
  BY <1>2, EndsInv
<1>3. CASE Asks /\ Advance(answers)
  <2>1. Left(Now, doing, answers, wallet, args, done, checker.h)
    BY <1>1 DEF Left
  <2>2. answers \in Answers /\ Adds(answers)
    BY DEF IInv, TypeInv, Adds
  <2> QED
    BY <1>1, <1>3, <2>1, <2>2, AddsInv
<1>4. CASE /\ files' = With(answers.output, Content("psbt", wallet.seed, ChosenPassword, None, {}))
           /\ done' = done \cup {Event("sign", wallet.seed, ChosenPassword)}
           /\ Advance(answers) /\ Kept
           /\ UNCHANGED << args, processes, actions, checker, looked >>
  <2>1. doing \in DOMAIN Script /\ at \in 1..Len(Script[doing])
    BY AtMenu DEF IInv, TypeInv, TypeOK
  <2>2. Past("output", doing, at)
    BY <1>1, <2>1, StepsBefore DEF Now
  <2>3. answers.output \in Path
    BY <2>2, PastLeft DEF IInv, Left
  <2>4. wallet \in Wallets /\ ChosenPassword \in {NoPw, wallet.hidden}
    BY <1>1, ChosenSide
  <2>5. Content("psbt", wallet.seed, ChosenPassword, None, {}) \in Contents
    BY <2>4 DEF Content, Contents, Wallets
  <2>6. DOMAIN files' \subseteq Path /\ \A m \in DOMAIN files' : files'[m] \in Contents
    BY <1>4, <2>3, <2>5, WithType DEF IInv, TypeInv
  <2> QED
    BY <1>1, <1>4, <2>6, ShownInv DEF Kept
<1> QED
  BY <1>1, <1>2, <1>3, <1>4 DEF Sign

---------------------------------------------------------------------------
\* Every step keeps the invariant.
LEMMA StepInv == IInv /\ [Next]_vars => IInv'
<1> SUFFICES ASSUME IInv, [Next]_vars PROVE IInv'
  OBVIOUS
<1>1. CASE Start
  BY <1>1, StartInv
<1>2. CASE LookupEnds \/ Check
  BY <1>2, LookupEndsInv, CheckInv
<1>3. CASE PickMainAction \/ PickOpenAction \/ Another \/ Finish \/ Interrupt
  BY <1>3, MenuInv
<1>4. CASE ListFiles \/ PickInput \/ CollectCosigners \/ AskForKeyfiles
  BY <1>4, ListFilesInv, PickInputInv, CollectCosignersInv, AskForKeyfilesInv
<1>5. CASE AskOutput \/ AskPublicOutput \/ AskHiddenOutput
  BY <1>5, AskOutputInv, AskPublicOutputInv, AskHiddenOutputInv
<1>6. CASE AskSeed \/ TypeWords \/ CheckWords
  BY <1>6, AskSeedInv, TypeWordsInv, CheckWordsInv
<1>7. CASE AskDuress \/ StartBatch \/ AskPassword \/ AskHiddenPassword
  BY <1>7, AskDuressInv, StartBatchInv, AskPasswordInv, AskHiddenPasswordInv
<1>8. CASE ChooseWallet \/ Confirm \/ Acknowledge
  BY <1>8, ChooseWalletInv, ConfirmInv, AcknowledgeInv
<1>9. CASE Seal \/ ExportPublic \/ ExportHidden \/ Unlock
  BY <1>9, SealInv, ExportPublicInv, ExportHiddenInv, UnlockInv
<1>10. CASE Show \/ Sign \/ Vanish
  BY <1>10, ShowInv, SignInv, VanishInv
<1>11. CASE UNCHANGED vars
  BY <1>11
  DEF vars, IInv, TypeInv, TypeOK, StepsInv, NowInv, AskedInv, LookupInv, DoneInv, OutputsAsChosen
<1> QED
  BY <1>1, <1>2, <1>3, <1>4, <1>5, <1>6, <1>7, <1>8, <1>9, <1>10, <1>11 DEF Next

\* IInv is an invariant.
LEMMA AlwaysIInv == Spec => []IInv
BY InitInv, StepInv, PTL DEF Spec

(* Every variable keeps its type, at whatever place of whatever script: a     *)
(* wallet is kept exactly while its menu or an action on it is on, and one of *)
(* several signers has no hidden side.                                      *)
THEOREM TypeCorrect == Spec => []TypeOK
<1>1. IInv => TypeOK
  BY DEF IInv, TypeInv
<1> QED
  BY AlwaysIInv, <1>1, PTL

(* Where internet was reachable when the process started, no wallet is ever    *)
(* open and nothing is made without a password from the command line          *)
(* (InternetChecker in main.rs and its callers).                              *)
THEOREM NothingWhereOnline == Spec => []OfflineUnlessGiven
<1>1. IInv => OfflineUnlessGiven
  BY DEF IInv, LookupInv, OfflineUnlessGiven, TypeInv, TypeOK, OpenActions
<1> QED
  BY AlwaysIInv, <1>1, PTL

(* Whatever is exported, shown or signed is of the wallet at hand and of its   *)
(* hidden side only where that was chosen and its password typed once more.    *)
THEOREM OutputsOfTheChosen == Spec => []OutputsAsChosen
<1>1. IInv => OutputsAsChosen
  BY DEF IInv
<1> QED
  BY AlwaysIInv, <1>1, PTL

(* The words typed last are the words sealed, whatever was typed before.       *)
THEOREM WordsAreTheSeed == Spec => []SeedAsTyped
<1>1. IInv => SeedAsTyped
  <2> SUFFICES ASSUME IInv PROVE SeedAsTyped
    OBVIOUS
  <2>1. Asked(answers, doing, at) /\ answers \in Answers
    BY DEF IInv, AskedInv, TypeInv
  <2>2. answers.mode # "random" =>
          \A d \in done : d.what = "sealed" => d.seed = answers.mnemonic
    BY <2>1 DEF Asked, IInv, DoneInv, Creations
  <2>3. answers.mode # "random" /\ answers.mnemonic # << >> => answers.words # << >>
    BY <2>1 DEF Asked
  <2> QED
    BY <2>1, <2>2, <2>3 DEF Asked, SeedAsTyped
<1> QED
  BY AlwaysIInv, <1>1, PTL
=============================================================================
