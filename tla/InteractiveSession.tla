------------------------- MODULE InteractiveSession --------------------------
(***************************************************************************)
(* The interactive mode: a process asks, in an order that depends on what it *)
(* is to do and on its command line, and its user answers, goes back, types  *)
(* something wrong or leaves.  Script holds the prompts and steps of every   *)
(* entry of the two menus, doing and at the place in it.  A thread started   *)
(* with the process looks whether internet is reachable; copies of the       *)
(* InternetChecker share its handle.                                        *)
(*                                                                         *)
(* A file holds what its credentials open; how it is sealed, padded, named,  *)
(* verified and written is in the modules of the commands, which the menus   *)
(* share with the command line.  looked and done are history: what the       *)
(* lookup of this process said and what the process gave away.              *)
(***************************************************************************)
EXTENDS FilePaths, Mnemonics, FiniteSets, FiniteSetsExt

CONSTANTS
    None, NoPw,
    Pw, HiddenPw,   \* passwords and seed passwords that are typed
    Drawn,          \* seeds the generator may draw
    Typed,          \* lists of words that are typed
    Random,         \* low bits of what the generator returns
    Keyfile,        \* names of files that serve as keyfiles
    Names,          \* names that are typed where none is suggested, or instead of it
    AtFirst,        \* the files at first
    Removable,      \* files that somebody may take away
    Args,           \* command lines
    MaxProcesses, MaxActions, MaxTries      \* bounds of the exploration

VARIABLES args, processes, actions, files, checker, looked, doing, at, answers, wallet, done

vars == << args, processes, actions, files, checker, looked, doing, at, answers, wallet, done >>

---------------------------------------------------------------------------
(* Files.  "short" is too short for an encrypted wallet; any other file that *)
(* is no public JSON of a multisig wallet is taken for one.                  *)
Seeds == Seq(0..2047)
Contents ==
    [kind : {"short", "other", "psbt", "singlesig", "multisig", "export", "multisigExport"},
     seed : Seeds, seed_password : HiddenPw \cup {NoPw}, password : Pw \cup {None},
     keyfiles : SUBSET Keyfile]
\* What a session keeps of the wallet it opened.
Wallets ==
    [kind : {"singlesig", "multisig"}, seed : Seeds, seed_password : HiddenPw \cup {NoPw},
     hidden : HiddenPw \cup {NoPw}, input : Path, has_signers : BOOLEAN]

(* Inputs are of their types; None and NoPw are no inputs.  The bits that are *)
(* taken of a hash are bits.                                                *)
ASSUME SessionAssumption ==
    /\ None \notin Pw \cup Path \cup Contents \cup Wallets
    /\ NoPw \notin HiddenPw
    /\ Keyfile \cup Names \cup DOMAIN AtFirst \subseteq Path
    /\ \A n \in DOMAIN AtFirst : AtFirst[n] \in Contents
    /\ Drawn \cup Typed \subseteq Seeds
    /\ \A a \in Args : /\ a.password \in Pw \cup {None} /\ a.keyfiles \subseteq Keyfile
                       /\ a.duress \in BOOLEAN
    /\ MaxProcesses \in Nat \ {0} /\ MaxActions \in Nat /\ MaxTries \in Nat
    /\ Random \subseteq Nat
    /\ \A random \in Random, typed \in Typed :
          Len(typed) \in {11, 23} => Sha256(Entropy(random, typed)) \in [1..8 -> {0, 1}]

Content(kind, seed, seed_password, password, keyfiles) ==
    [kind |-> kind, seed |-> seed, seed_password |-> seed_password, password |-> password,
     keyfiles |-> keyfiles]

Exists(name) == name \in DOMAIN files
With(name, content) ==
    [n \in DOMAIN files \cup {name} |-> IF n = name THEN content ELSE files[n]]

(* The prompts.  What MainActions and InteractiveOpenActions lead to.        *)
Creations == {"singlesig_generate", "multisig_generate", "batch_generate"}
Openings == {"singlesig_open", "multisig_open"}
OpenActions == {"ShowReceivingQrCode", "ExportPublicInfo", "ShowSecrets", "SignPsbt", "Reencode"}

singlesig_interactive_generate_one ==
    << "output", "keyfiles", "public", "seed", "words", "words_checked", "duress", "check",
       "new_password", "hidden_password", "seal", "confirm", "export", "export_hidden", "finish" >>
multisig_interactive_generate_single ==
    << "check", "list", "cosigners", "output", "keyfiles", "public", "new_password", "seal",
       "export", "finish" >>
interactive_generate_batch ==
    << "output", "keyfiles", "public", "duress", "start_batch", "check", "new_password",
       "hidden_password", "seal", "confirm", "export", "export_hidden", "finish" >>
singlesig_interactive_open ==
    << "list", "input", "keyfiles", "duress", "check", "password", "hidden_password", "unlock" >>
multisig_interactive_open == << "check", "list", "input", "keyfiles", "password", "unlock" >>
show_receiving_qr_code == << "choose", "confirm", "show", "finish" >>
export_public_info ==
    << "output", "hidden_output", "confirm", "export", "export_hidden", "finish" >>
show_secrets == << "acknowledge", "choose", "confirm", "show", "finish" >>
sign_psbt == << "list", "input", "output", "choose", "confirm", "sign", "finish" >>
reencode == << "keyfiles", "output", "check", "new_password", "seal", "finish" >>

Script ==
    [menu |-> << "menu" >>, open_menu |-> << "open_menu" >>, another |-> << "another" >>,
     ended |-> << "ended" >>,
     singlesig_generate |-> singlesig_interactive_generate_one,
     multisig_generate |-> multisig_interactive_generate_single,
     batch_generate |-> interactive_generate_batch,
     singlesig_open |-> singlesig_interactive_open,
     multisig_open |-> multisig_interactive_open,
     ShowReceivingQrCode |-> show_receiving_qr_code, ExportPublicInfo |-> export_public_info,
     ShowSecrets |-> show_secrets, SignPsbt |-> sign_psbt, Reencode |-> reencode]

Now == Script[doing][at]

Blank ==
    [listed |-> {}, input |-> None, file |-> None, output |-> None, public |-> None,
     hidden_output |-> None, keyfiles |-> {}, mode |-> "random", typed |-> << >>,
     words |-> << >>, tries |-> 0, mnemonic |-> << >>, duress |-> FALSE, password |-> None,
     hidden |-> NoPw, chosen |-> "decoy", confirmed |-> FALSE]

Duress(a) == a.duress \/ args.duress
\* The seed password of the hidden wallet: asked for in this script or kept with the wallet.
Hidden(a) == IF wallet = None THEN a.hidden ELSE wallet.hidden
IsMultisig ==
    \/ doing \in {"multisig_generate", "multisig_open"}
    \/ wallet # None /\ wallet.kind = "multisig"

(* What is not asked, because it was given or makes no sense.               *)
Skipped(script, step, a) ==
    \/ /\ script \in Creations \cup Openings
       /\ \/ step = "keyfiles" /\ args.keyfiles # {}
          \/ step = "duress" /\ args.duress
          \/ step = "new_password" /\ args.password # None
          \/ step = "check" /\ args.password # None
             /\ script \in {"singlesig_generate", "batch_generate"}
          \/ step = "password" /\ args.password # None /\ script = "singlesig_open"
          \/ step = "hidden_password" /\ ~Duress(a)
          \/ step = "export" /\ a.public = None
          \/ step \in {"keyfiles", "password"} /\ a.file # None /\ a.file.kind = "multisigExport"
    \/ step \in {"words", "words_checked"} /\ a.mode = "random"
    \/ step = "acknowledge" /\ wallet.kind = "multisig"
    \/ step \in {"choose", "hidden_output", "export_hidden", "confirm"} /\ Hidden(a) = NoPw
    \/ step = "confirm" /\ script \in {"ShowReceivingQrCode", "ShowSecrets", "SignPsbt"}
       /\ a.chosen = "decoy"

NextStep(script, after, a) ==
    Min({j \in (after + 1)..Len(Script[script]) : ~Skipped(script, Script[script][j], a)})

Advance(a) == answers' = a /\ at' = NextStep(doing, at, a) /\ UNCHANGED doing
AskAgain(a) == answers' = a /\ UNCHANGED << doing, at >>
Goto(script) == doing' = script /\ at' = NextStep(script, 0, Blank) /\ answers' = Blank
EndWithItsWallet == doing' = "ended" /\ at' = 1 /\ answers' = Blank /\ UNCHANGED wallet
End == doing' = "ended" /\ at' = 1 /\ answers' = Blank /\ wallet' = None

\* A step that touches nothing but the questions, and one that ends the process.
Quiet == UNCHANGED << args, processes, actions, files, checker, looked, done >>
Asks == Quiet /\ UNCHANGED wallet
Ends == Quiet /\ End

Init ==
    /\ args \in Args
    /\ processes = 1 /\ actions = 0
    /\ files = AtFirst
    /\ checker = [h |-> IF args.disable_internet_check THEN "taken" ELSE "running",
                  is_connected |-> "unknown"]
    /\ looked = "unknown"
    /\ doing = "menu" /\ at = 1 /\ answers = Blank
    /\ wallet = None /\ done = {}

Start ==
    /\ doing = "ended" /\ processes < MaxProcesses
    /\ args' \in Args
    /\ processes' = processes + 1 /\ actions' = 0
    /\ checker' = [h |-> IF args'.disable_internet_check THEN "taken" ELSE "running",
                   is_connected |-> "unknown"]
    /\ looked' = "unknown" /\ done' = {}
    /\ doing' = "menu" /\ at' = 1 /\ answers' = Blank
    /\ UNCHANGED << files, wallet >>

---------------------------------------------------------------------------
(* The lookup, and check.  The first check of any copy waits for the thread  *)
(* and takes its handle; only the copy that asked remembers the answer.      *)
LookupEnds ==
    /\ checker.h = "running"
    /\ \E result \in {"reachable", "unreachable"} :
          checker' = [checker EXCEPT !.h = result] /\ looked' = result
    /\ UNCHANGED << args, processes, actions, files, doing, at, answers, wallet, done >>

\* These hold the InternetChecker itself; every other caller has a copy.
Owners == {"multisig_generate", "multisig_open"}
ConnectedByMemory == checker.is_connected = "reachable"
IsConnected == IF checker.h = "taken" THEN checker.is_connected = "reachable"
               ELSE checker.h = "reachable"

Check ==
    /\ Now = "check" /\ checker.h # "running"
    /\ checker' = [h |-> "taken",
                   is_connected |-> IF checker.h # "taken" /\ doing \in Owners THEN checker.h
                                    ELSE checker.is_connected]
    /\ IF IsConnected THEN End ELSE Advance(answers) /\ UNCHANGED wallet
    /\ UNCHANGED << args, processes, actions, files, looked, done >>

---------------------------------------------------------------------------
(* The menus.                                                               *)
PickMainAction ==
    /\ Now = "menu"
    /\ \/ Asks /\ \E script \in Creations \cup Openings : Goto(script)
       \/ Ends

PickOpenAction ==
    /\ Now = "open_menu"
    /\ \/ /\ actions < MaxActions /\ actions' = actions + 1
          /\ \E action \in OpenActions :
                IF action = "SignPsbt" /\ wallet.kind = "multisig" /\ ~wallet.has_signers
                THEN Goto("another") ELSE Goto(action)
          /\ UNCHANGED << args, processes, files, checker, looked, done, wallet >>
       \/ Ends

Another ==
    /\ Now = "another"
    /\ \/ Asks /\ Goto("open_menu")
       \/ Ends

Finish ==
    /\ Now = "finish"
    /\ IF doing \in Creations THEN Ends ELSE Asks /\ Goto("another")

(* A prompt that cannot be read, or is left by the user.                    *)
Interrupt == Now \notin {"ended", "check"} /\ Ends

---------------------------------------------------------------------------
(* Files to read: the directory is listed once, before the question.         *)
IsPsbtName(name) == name.ext = "psbt"

ListFiles ==
    /\ Now = "list"
    /\ LET names == {n \in DOMAIN files : doing = "SignPsbt" => IsPsbtName(n)}
       IN  IF names = {} THEN Ends ELSE Asks /\ Advance([answers EXCEPT !.listed = names])

Readable(f) ==
    IF doing = "SignPsbt" THEN f.kind = "psbt" ELSE f.kind # "short"

PickInput ==
    /\ Now = "input"
    /\ \E name \in answers.listed :
          IF ~Exists(name) THEN Ends
          ELSE IF ~Readable(files[name]) THEN (Asks /\ AskAgain(answers)) \/ Ends
          ELSE IF doing = "singlesig_open" /\ files[name].kind = "multisigExport" THEN Ends
          ELSE Asks /\ Advance([answers EXCEPT !.input = name, !.file = files[name]])

(* The whole of collecting the cosigners' files.                            *)
CollectCosigners ==
    /\ Now = "cosigners"
    /\ \/ Asks /\ \E s \in Drawn : Advance([answers EXCEPT !.mnemonic = s])
       \/ Ends

AskForKeyfiles ==
    /\ Now = "keyfiles"
    /\ Asks /\ \E chosen \in SUBSET (Keyfile \cap DOMAIN files) :
                  Advance([answers EXCEPT !.keyfiles = chosen])

(* Names to write: one that exists is refused and asked for again.           *)
Suggested ==
    CASE doing = "ExportPublicInfo" -> {from_wallet_to_public_info_json_path(wallet.input)}
      [] doing = "Reencode" -> {from_input_to_reencoded(wallet.input)}
      [] doing = "SignPsbt" -> {from_input_to_signed_psbt(answers.input)}
      [] OTHER -> {}
Free(names) == {n \in names : ~Exists(n)}

AskOutput ==
    /\ Now = "output"
    /\ Asks /\ \E n \in Free(Suggested \cup Names) : Advance([answers EXCEPT !.output = n])

AskPublicOutput ==
    /\ Now = "public"
    /\ \/ Asks /\ Advance(answers)
       \/ LET suggested == from_wallet_to_public_info_json_path(answers.output)
          IN  Asks /\ \E n \in IF doing = "batch_generate" THEN {suggested}
                            ELSE Free({suggested} \cup Names) :
                        Advance([answers EXCEPT !.public = n])

AskHiddenOutput ==
    /\ Now = "hidden_output"
    /\ Asks /\ \E n \in Free({from_public_info_json_path_to_non_duress(answers.output)} \cup Names) :
                  Advance([answers EXCEPT !.hidden_output = n])

---------------------------------------------------------------------------
(* The seed: drawn later, all words typed, or all but the last.              *)
AskSeed ==
    /\ Now = "seed"
    /\ Asks /\ \E mode \in {"random", "all", "complete"} : Advance([answers EXCEPT !.mode = mode])

WordsToAsk(n) == n \in IF answers.mode = "all" THEN {12, 24} ELSE {11, 23}

TypeWords ==
    /\ Now = "words"
    /\ \E typed \in Typed, random \in Random :
          /\ WordsToAsk(Len(typed)) /\ (answers.typed # << >> => Len(typed) = Len(answers.typed))
          /\ Asks
          /\ Advance([answers EXCEPT !.typed = typed,
                !.words = IF answers.mode = "all" THEN typed
                          ELSE complete_words_with_checksum(random, typed)])

CheckWords ==
    /\ Now = "words_checked"
    /\ CASE from_str(answers.words) = "Ok" ->
               Asks /\ Advance([answers EXCEPT !.mnemonic = answers.words])
         [] from_str(answers.words) = "InvalidChecksum" ->
               \/ /\ answers.tries < MaxTries /\ Asks
                  /\ answers' = [answers EXCEPT !.tries = @ + 1] /\ at' = at - 1 /\ UNCHANGED doing
               \/ Ends
         [] OTHER -> Ends

---------------------------------------------------------------------------
(* Passwords, hidden wallets.                                               *)
AskDuress ==
    /\ Now = "duress"
    /\ Asks /\ \E duress \in BOOLEAN : Advance([answers EXCEPT !.duress = duress])

StartBatch ==
    /\ Now = "start_batch"
    /\ IF Duress(answers) /\ answers.public = None THEN Ends ELSE Asks /\ Advance(answers)

AskPassword ==
    /\ Now \in {"password", "new_password"}
    /\ Asks /\ \E p \in Pw : Advance([answers EXCEPT !.password = p])

HiddenPublic == from_public_info_json_path_to_non_duress(answers.public)
AskHiddenPassword ==
    /\ Now = "hidden_password"
    /\ IF doing = "singlesig_generate" /\ (answers.public = None \/ Exists(HiddenPublic)) THEN Ends
       ELSE Asks /\ \E p \in HiddenPw :
               Advance([answers EXCEPT !.hidden = p,
                           !.hidden_output = IF doing \in Creations THEN HiddenPublic ELSE None])

ChooseWallet ==
    /\ Now = "choose"
    /\ Asks /\ \E chosen \in {"decoy", "hidden"} : Advance([answers EXCEPT !.chosen = chosen])

\* double_check_non_duress_password: only the same password gets any further.
Confirm ==
    /\ Now = "confirm"
    /\ Asks /\ \E p \in HiddenPw :
          IF p = Hidden(answers) THEN Advance([answers EXCEPT !.confirmed = TRUE]) ELSE AskAgain(answers)

Acknowledge == Now = "acknowledge" /\ Asks /\ (Advance(answers) \/ Goto("another"))

Password == IF answers.password # None THEN answers.password ELSE args.password
Keyfiles == IF doing \in Creations \cup Openings /\ args.keyfiles # {} THEN args.keyfiles
            ELSE answers.keyfiles

---------------------------------------------------------------------------
(* What is done with the answers.                                           *)
Kind == IF IsMultisig THEN "multisig" ELSE "singlesig"
Event(what, seed, seed_password) ==
    [what |-> what, of |-> doing, seed |-> seed, seed_password |-> seed_password,
     chosen |-> answers.chosen, confirmed |-> answers.confirmed]

\* A wallet is sealed with no seed password; a hidden one is known to its user only.
Seal ==
    /\ Now = "seal"
    /\ IF Exists(answers.output) THEN Ends
       ELSE \E seed \in IF doing = "Reencode" THEN {wallet.seed}
                        ELSE IF answers.mnemonic = << >> THEN Drawn ELSE {answers.mnemonic} :
            /\ files' = With(answers.output, Content(Kind, seed, NoPw, Password, Keyfiles))
            /\ done' = done \cup {Event("sealed", seed, NoPw)}
            /\ Advance([answers EXCEPT !.mnemonic = seed])
            /\ UNCHANGED << args, processes, actions, checker, looked, wallet >>

Export(name, seed, seed_password) ==
    IF Exists(name) THEN Ends
    ELSE /\ files' = With(name, Content(IF IsMultisig THEN "multisigExport" ELSE "export", seed,
                                        seed_password, None, {}))
         /\ done' = done \cup {Event("export", seed, seed_password)}
         /\ Advance(answers)
         /\ UNCHANGED << args, processes, actions, checker, looked, wallet >>

Seed == IF wallet = None THEN answers.mnemonic ELSE wallet.seed
ExportPublic == Now = "export"
    /\ Export(IF doing \in Creations THEN answers.public ELSE answers.output, Seed, NoPw)
ExportHidden == Now = "export_hidden" /\ Export(answers.hidden_output, Seed, Hidden(answers))

\* The password that opened a wallet is the one it was sealed with, and so are the keyfiles.
Unlocks == answers.file.kind = Kind /\ answers.file.password = Password
           /\ answers.file.keyfiles = Keyfiles

Unlock ==
    /\ Now = "unlock"
    /\ IF ~Unlocks /\ (doing = "singlesig_open" \/ answers.file.kind # "multisigExport") THEN Ends
       ELSE /\ Quiet /\ Goto("open_menu")
            /\ \E signers \in IF IsMultisig THEN BOOLEAN ELSE {FALSE} :
                  wallet' = [kind |-> Kind, seed |-> answers.file.seed, seed_password |-> NoPw,
                             hidden |-> answers.hidden, input |-> answers.input,
                             has_signers |-> signers]

\* change_seed_password makes a wallet of its own of it; the opened one stays as it is.
ChosenPassword == IF answers.chosen = "hidden" THEN Hidden(answers) ELSE wallet.seed_password
KeptAsChosen == wallet' = [wallet EXCEPT !.seed_password = ChosenPassword]
Kept == UNCHANGED wallet

Show ==
    /\ Now = "show"
    /\ done' = done \cup {Event("show", wallet.seed, ChosenPassword)}
    /\ Advance(answers) /\ Kept
    /\ UNCHANGED << args, processes, actions, files, checker, looked >>

\* sign_core may find nothing to sign, and its user may not approve.
Sign ==
    /\ Now = "sign"
    /\ \/ Ends
       \/ Asks /\ Advance(answers)
       \/ /\ ~Exists(answers.output)
          /\ files' = With(answers.output, Content("psbt", wallet.seed, ChosenPassword, None, {}))
          /\ done' = done \cup {Event("sign", wallet.seed, ChosenPassword)}
          /\ Advance(answers) /\ Kept
          /\ UNCHANGED << args, processes, actions, checker, looked >>

Vanish ==
    /\ \E name \in Removable \cap DOMAIN files :
          files' = [n \in DOMAIN files \ {name} |-> files[n]]
    /\ UNCHANGED << args, processes, actions, checker, looked, doing, at, answers, wallet, done >>

Next ==
    \/ Start \/ LookupEnds \/ Check
    \/ PickMainAction \/ PickOpenAction \/ Another \/ Finish \/ Interrupt
    \/ ListFiles \/ PickInput \/ CollectCosigners \/ AskForKeyfiles
    \/ AskOutput \/ AskPublicOutput \/ AskHiddenOutput
    \/ AskSeed \/ TypeWords \/ CheckWords
    \/ AskDuress \/ StartBatch \/ AskPassword \/ AskHiddenPassword
    \/ ChooseWallet \/ Confirm \/ Acknowledge
    \/ Seal \/ ExportPublic \/ ExportHidden \/ Unlock \/ Show \/ Sign
    \/ Vanish

Spec == Init /\ [][Next]_vars

---------------------------------------------------------------------------
TypeOK ==
    /\ args \in Args
    /\ processes \in 1..MaxProcesses /\ actions \in 0..MaxActions
    /\ DOMAIN files \subseteq Path
    /\ \A n \in DOMAIN files : files[n] \in Contents
    /\ checker \in [h : {"running", "reachable", "unreachable", "taken"},
                    is_connected : {"unknown", "reachable", "unreachable"}]
    /\ looked \in {"unknown", "reachable", "unreachable"}
    /\ doing \in DOMAIN Script /\ at \in DOMAIN Script[doing]
    /\ answers.words \in Seeds /\ answers.mnemonic \in Seeds
    /\ wallet # None <=> doing \in OpenActions \cup {"open_menu", "another"}
    /\ wallet \in Wallets \cup {None}
    /\ wallet # None /\ wallet.kind = "multisig" => wallet.hidden = NoPw

(* On a device that reaches internet when the process starts no wallet is     *)
(* opened, and none is made but with a password from the command line: the    *)
(* checks of main.rs and of whoever holds a copy of its InternetChecker       *)
(* together let nothing through, in whichever order they are made.          *)
OfflineUnlessGiven ==
    looked = "reachable" =>
        /\ wallet = None
        /\ \A d \in done : d.of \in Creations /\ args.password # None

(* Whatever is exported, shown or signed is of the wallet that was opened or  *)
(* made, and of its hidden side only if that was chosen this very time, with  *)
(* the seed password given at first and typed once more; another file of a    *)
(* wallet never knows its hidden side, no hidden side is exported but after   *)
(* its decoy, and nothing of a new wallet but after the wallet.              *)
OutputsAsChosen ==
    \A d \in done :
        /\ wallet # None => d.seed = wallet.seed
        /\ d.seed_password # NoPw => d.confirmed /\ (d.what = "export" \/ d.chosen = "hidden")
        /\ d.what \in {"show", "sign"} /\ d.chosen = "decoy" => d.seed_password = NoPw
        /\ wallet # None => d.seed_password \in {NoPw, wallet.hidden}
        /\ d.what = "sealed" => d.seed_password = NoPw
        /\ d.what = "export" /\ d.seed_password # NoPw =>
              \E e \in done : e.what = "export" /\ e.seed = d.seed /\ e.seed_password = NoPw
        /\ d.what = "export" /\ d.of \in Creations =>
              \E e \in done : e.what = "sealed" /\ e.seed = d.seed

(* The words a user typed last, and no others, are the seed that is sealed:   *)
(* completed with one word that every wallet accepts, or all of them if their *)
(* checksum is right (ui_ask_manually_seed_input).                          *)
SeedAsTyped ==
    /\ answers.mode = "complete" /\ answers.words # << >> => from_str(answers.words) = "Ok"
    /\ answers.mode # "random" /\ answers.mnemonic # << >> =>
          /\ from_str(answers.mnemonic) = "Ok" /\ Len(answers.mnemonic) - Len(answers.typed) \in 0..1
          /\ SubSeq(answers.mnemonic, 1, Len(answers.typed)) = answers.typed
          /\ \A d \in done : d.what = "sealed" => d.seed = answers.mnemonic
=============================================================================
