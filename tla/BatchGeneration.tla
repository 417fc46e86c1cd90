-------------------------- MODULE BatchGeneration --------------------------
(***************************************************************************)
(* One batch: many singlesig wallets made at once from one password.  All  *)
(* random values are drawn first, then all wallets are written, then all   *)
(* of them are read back and opened, and only then are the public exports  *)
(* made, all decoys before all hidden ones.  The process may be cut short  *)
(* or fail anywhere and other programs create files in the same directory. *)
(***************************************************************************)
EXTENDS FilePaths, Naturals, FiniteSets

CONSTANTS
    Hash,       (* what generate_name draws for each wallet of the batch *)
    Nonce, Salt, Seed,   (* random values *)
    Password,   (* what the user seals the batch with *)
    SeedPw,     (* non duress seed passwords *)
    None,
    Requests,   (* the command lines *)
    MaxFaults   (* how many faults may strike *)

(* The output prefix: none, when it is left out or names a directory, or a *)
(* name the user may have put a dot into.                                  *)
Prefix == [name : Base, dotted : BOOLEAN] \cup {None}

Request ==
    [prefix : Prefix,
     wallets_quantity : Nat,
     enable_duress_wallet : BOOLEAN,
     disable_public_info_export : BOOLEAN,
     seedPw : SeedPw]            \* the seed password the user means

ASSUME BatchAssumption ==
    /\ Requests \subseteq Request
    /\ Hash \in Seq(Base \cap Ext)
    /\ \A i, j \in DOMAIN Hash : Hash[i] = Hash[j] => i = j
    /\ \A r \in Requests : r.wallets_quantity <= Len(Hash)
    /\ None \notin [name : Base, dotted : BOOLEAN] \cup SeedPw
    /\ MaxFaults \in Nat

(* A derived key: the password's and a salt's, or one that was flipped. *)
Key == [salt : Salt, flipped : BOOLEAN]

(* The wallets encrypted but not saved yet, by their place in the batch. *)
Encrypted ==
    [nonce : Nonce, header_nonce : Nonce, salt : Salt, key : Key, seed : Seed]

(* Files.  A foreign one is another program's. *)
WalletFile == [kind : {"wallet"}, wallet : Encrypted]
PublicFile == [kind : {"public"}, seed : Seed, seedPw : SeedPw \cup {None}]
DamagedFile == [kind : {"damaged"}, was : WalletFile \cup PublicFile]
Content == [kind : {"partial", "foreign"}] \cup WalletFile \cup PublicFile \cup DamagedFile

VARIABLES
    disk,
    req,       (* the command line *)
    pc,
    stage,     (* which files are being saved: "wallet", "public", "nonDuress" *)
    at,        (* the wallet whose file is next *)
    typed,     (* the seed password as first typed *)
    drawn,     (* the sets of random values drawn so far *)
    encrypted, (* the wallets encrypted *)
    opened,    (* the seeds read back *)
    faults

vars == <<disk, req, pc, stage, at, typed, drawn, encrypted, opened, faults>>
memory == <<stage, at, typed, drawn, encrypted, opened>>

Ended == {"done", "failed", "crashed"}
Drawing == {"nonces", "salts", "seeds"}

\* The draws still to make.
Random == [nonces |-> Nonce, salts |-> Salt, seeds |-> Seed]
-----------------------------------------------------------------------------
(* Names. *)

Wallets == 1..req.wallets_quantity

\* generate_name; what follows the last dot of a prefix is cut off with the
\* hash when a name is derived from it.
generate_name(prefix, i) ==
    CASE prefix = None -> [stem |-> <<Hash[i]>>, ext |-> ""]
      [] prefix # None /\ prefix.dotted -> [stem |-> <<prefix.name>>, ext |-> Hash[i]]
      [] OTHER -> [stem |-> <<prefix.name, Hash[i]>>, ext |-> ""]

Stage == {"wallet", "public", "nonDuress"}

\* The file of a kind of wallet i of a batch asked for by r.
Output(r, s, i) ==
    LET wallet == generate_name(r.prefix, i)
        public == from_wallet_to_public_info_json_path(wallet)
    IN CASE s = "wallet" -> wallet
         [] s = "public" -> public
         [] s = "nonDuress" -> from_public_info_json_path_to_non_duress(public)

Outputs(r) == {Output(r, s, i) : s \in Stage, i \in 1..r.wallets_quantity}
Names == UNION {Outputs(r) : r \in Requests}

PathOf(s, i) == Output(req, s, i)
WalletPath(i) == PathOf("wallet", i)

TypeOK ==
    /\ DOMAIN disk \subseteq Names
    /\ disk \in [DOMAIN disk -> Content]
    /\ req \in Requests
    /\ pc \in Ended \cup Drawing \cup
              {"start", "removeTest", "password", "derive", "create", "write",
               "readBack", "confirm"}
    /\ stage \in Stage
    /\ at \in 1..(req.wallets_quantity + 1)
    /\ pc = "write" => at \in Wallets
    /\ typed \in SeedPw \cup {None}
    /\ \A k \in Drawing : drawn[k] \subseteq Random[k]
    /\ encrypted \in [DOMAIN encrypted -> Encrypted]
    /\ opened \in [DOMAIN opened -> Seed]
    /\ faults \in 0..MaxFaults
-----------------------------------------------------------------------------
Exists(f) == f \in DOMAIN disk
Put(f, c) == [g \in DOMAIN disk \cup {f} |-> IF g = f THEN c ELSE disk[g]]
Without(f) == [g \in DOMAIN disk \ {f} |-> disk[g]]

default_derive_key(salt) == [salt |-> salt, flipped |-> FALSE]

\* How many different values fill a HashSet of a kind.
Wanted(k) == IF k = "nonces" THEN 2 * req.wallets_quantity ELSE req.wallets_quantity

\* The orders in which a HashSet may be turned into a list of n.
DrawnWithRepetition(S, n) == [1..n -> S]
Orders(S, n) == {f \in [1..n -> S] : \A i, j \in 1..n : f[i] = f[j] => i = j}

\* What opens: a wallet under the key that its own salt derives.
Opens(c) == c.kind = "wallet" /\ c.wallet.key = default_derive_key(c.wallet.salt)
-----------------------------------------------------------------------------
(* The steps of the batch. *)

\* Up to the test file under the first name, if there is a wallet to make.
Start ==
    /\ pc = "start"
    /\ IF req.enable_duress_wallet /\ req.disable_public_info_export
       THEN pc' = "failed" /\ UNCHANGED disk
       ELSE IF Wallets = {} THEN pc' = "password" /\ UNCHANGED disk
       ELSE IF Exists(WalletPath(1)) THEN pc' = "failed" /\ UNCHANGED disk
       ELSE pc' = "removeTest" /\ disk' = Put(WalletPath(1), [kind |-> "partial"])
    /\ UNCHANGED <<req, memory, faults>>

RemoveTest ==
    /\ pc = "removeTest"
    /\ disk' = Without(WalletPath(1))
    /\ pc' = "password"
    /\ UNCHANGED <<req, memory, faults>>

\* The two prompts; a slip may be typed twice.
AskPasswords ==
    /\ pc = "password"
    /\ typed' \in (IF req.enable_duress_wallet THEN SeedPw ELSE {None})
    /\ pc' = "nonces"
    /\ UNCHANGED <<disk, req, stage, at, drawn, encrypted, opened, faults>>

\* One turn of a loop that fills a HashSet.  A value that was drawn before, or
\* a failure of the generator, changes nothing and the loop goes on.
Draw(k) ==
    /\ pc = k
    /\ Cardinality(drawn[k]) < Wanted(k)
    /\ \E v \in Random[k] : drawn' = [drawn EXCEPT ![k] = @ \cup {v}]
    /\ UNCHANGED <<disk, req, pc, stage, at, typed, encrypted, opened, faults>>

Drawn(k) ==
    /\ pc = k
    /\ Cardinality(drawn[k]) = Wanted(k)
    /\ pc' = CASE k = "nonces" -> "salts" [] k = "salts" -> "seeds" [] k = "seeds" -> "derive"
    /\ UNCHANGED <<disk, req, memory, faults>>

\* The keys are derived, some of them flipped, and the wallets encrypted with
\* whatever the lists made of the sets have in the same place.
DeriveAndEncrypt ==
    /\ pc = "derive"
    /\ \E flipped \in SUBSET Wallets,
          nonces \in Orders(drawn.nonces, 2 * req.wallets_quantity),
          salts \in Orders(drawn.salts, req.wallets_quantity),
          seeds \in Orders(drawn.seeds, req.wallets_quantity) :
         /\ faults + Cardinality(flipped) <= MaxFaults
         /\ faults' = faults + Cardinality(flipped)
         /\ encrypted' = [i \in Wallets |->
              [nonce |-> nonces[2 * i - 1], header_nonce |-> nonces[2 * i],
               salt |-> salts[i], key |-> [salt |-> salts[i], flipped |-> i \in flipped],
               seed |-> seeds[i]]]
    /\ pc' = "create"
    /\ UNCHANGED <<disk, req, stage, at, typed, drawn, opened>>

\* The three loops that save files, of one kind after the other.
AllSavedAndOne(i) == i > req.wallets_quantity + 1
AllSaved(i) == i > req.wallets_quantity

CreateNew(f) ==
    \/ ~Exists(f) /\ disk' = Put(f, [kind |-> "partial"]) /\ pc' = "write"
    \/ Exists(f) /\ pc' = "failed" /\ UNCHANGED disk

Create ==
    /\ pc = "create" /\ ~AllSaved(at)
    /\ CreateNew(PathOf(stage, at))
    /\ UNCHANGED <<req, memory, faults>>

ContentOf(s, i) ==
    CASE s = "wallet" -> [kind |-> "wallet", wallet |-> encrypted[i]]
      [] s = "public" -> [kind |-> "public", seed |-> opened[i], seedPw |-> None]
      [] s = "nonDuress" -> [kind |-> "public", seed |-> opened[i], seedPw |-> typed]

Write ==
    /\ pc = "write"
    /\ disk' = Put(PathOf(stage, at), ContentOf(stage, at))
    /\ at' = at + 1
    /\ pc' = "create"
    /\ UNCHANGED <<req, stage, typed, drawn, encrypted, opened, faults>>

Saved ==
    /\ pc = "create" /\ AllSaved(at)
    /\ \/ stage = "wallet" /\ pc' = "readBack" /\ UNCHANGED <<stage, at>>
       \/ /\ stage = "public" /\ req.enable_duress_wallet
          /\ stage' = "nonDuress" /\ at' = 1 /\ UNCHANGED pc
       \/ /\ stage # "wallet" /\ (stage = "public" => ~req.enable_duress_wallet)
          /\ pc' = "done" /\ UNCHANGED <<stage, at>>
    /\ UNCHANGED <<disk, req, typed, drawn, encrypted, opened, faults>>

\* All wallets are read, their keys derived anew and the contents decrypted and
\* checked, before anything is exported.  One step: a file damaged between two
\* reads was either read whole or not.
VerifiedWithKeyInMemory(i) ==
    /\ disk[WalletPath(i)].kind = "wallet"
    /\ disk[WalletPath(i)].wallet.key = encrypted[i].key
Verified(i) == Opens(disk[WalletPath(i)])

\* What the passes give, in the order of the paths they started from.
read_wallets_as_finished ==
    [i \in Wallets |-> disk[WalletPath(req.wallets_quantity + 1 - i)].wallet.seed]
decrypted_read_wallets == [i \in Wallets |-> disk[WalletPath(i)].wallet.seed]

ReadBack ==
    /\ pc = "readBack"
    /\ IF \A i \in Wallets : Verified(i)
       THEN /\ opened' = decrypted_read_wallets
            /\ IF req.disable_public_info_export THEN pc' = "done" /\ UNCHANGED <<stage, at>>
               ELSE /\ stage' = "public" /\ at' = 1
                    /\ pc' = IF req.enable_duress_wallet THEN "confirm" ELSE "create"
       ELSE pc' = "failed" /\ UNCHANGED <<stage, at, opened>>
    /\ UNCHANGED <<disk, req, typed, drawn, encrypted, faults>>

\* double_check_non_duress_password asks until it is what was typed before; who
\* slips again makes another slip.
ConfirmAnything ==
    /\ pc = "confirm" /\ pc' = "create"
    /\ UNCHANGED <<disk, req, memory, faults>>
ConfirmNonDuressPassword ==
    /\ pc = "confirm"
    /\ \E again \in (SeedPw \ {typed}) \cup {req.seedPw} :
          IF again = typed THEN pc' = "create" ELSE UNCHANGED pc
    /\ UNCHANGED <<disk, req, memory, faults>>
-----------------------------------------------------------------------------
(* Faults. *)

Crash ==
    /\ pc \notin Ended /\ faults < MaxFaults
    /\ pc' = "crashed"
    /\ faults' = faults + 1
    /\ UNCHANGED <<disk, req, memory>>

\* Reading, creating, writing or deriving fails, a prompt cannot be read, or the
\* generator of the name salt and the padding fails.
Failure ==
    /\ pc \in {"start", "removeTest", "password", "seeds", "derive", "create", "write",
               "readBack", "confirm"}
    /\ faults < MaxFaults
    /\ pc' = "failed"
    /\ faults' = faults + 1
    /\ UNCHANGED <<disk, req, memory>>

Damage(f) ==
    /\ faults < MaxFaults
    /\ Exists(f)
    /\ disk[f].kind \in {"wallet", "public"}
    /\ disk' = Put(f, [kind |-> "damaged", was |-> disk[f]])
    /\ faults' = faults + 1
    /\ UNCHANGED <<req, pc, memory>>

\* Another program makes a file of a name the batch will want.
Occupy(f) ==
    /\ faults < MaxFaults
    /\ ~Exists(f)
    /\ disk' = Put(f, [kind |-> "foreign"])
    /\ faults' = faults + 1
    /\ UNCHANGED <<req, pc, memory>>
-----------------------------------------------------------------------------
Init ==
    /\ disk = [f \in {} |-> None]
    /\ req \in Requests
    /\ pc = "start"
    /\ stage = "wallet" /\ at = 1
    /\ typed = None
    /\ drawn = [k \in Drawing |-> {}]
    /\ encrypted = [i \in {} |-> None]
    /\ opened = [i \in {} |-> None]
    /\ faults = 0

Next ==
    \/ Start \/ RemoveTest \/ AskPasswords
    \/ \E k \in Drawing : Draw(k) \/ Drawn(k)
    \/ DeriveAndEncrypt
    \/ Create \/ Write \/ Saved
    \/ ReadBack \/ ConfirmNonDuressPassword
    \/ Crash \/ Failure
    \/ \E f \in Outputs(req) : Damage(f) \/ Occupy(f)

Spec == Init /\ [][Next]_vars
-----------------------------------------------------------------------------
(* What makes a batch correct. *)

Intact(c) == IF c.kind = "damaged" THEN c.was ELSE c
Sealed(i) == Exists(WalletPath(i)) /\ Opens(Intact(disk[WalletPath(i)]))
IsPublic(f) == Intact(disk[f]).kind = "public"

\* When a batch ends well, every one of its wallets is under its name and opens
\* with the password, whether or not anything is exported: a key flipped in
\* memory never goes unnoticed, unlike in generate.
BatchOpens == pc = "done" => \A i \in Wallets : Sealed(i)

\* No export of any wallet of a batch exists unless all wallets of the batch
\* were sealed and open, and each export is of the wallet it takes its name
\* from, although the lists the files are made of went through five parallel
\* passes, wherever the batch was cut short.
AllOrNoExports ==
    \A f \in DOMAIN disk :
        IsPublic(f) =>
            /\ \A i \in Wallets : Sealed(i)
            /\ \E i \in Wallets :
                  LET e == Intact(disk[f]) IN
                  /\ f = PathOf(IF e.seedPw = None THEN "public" ELSE "nonDuress", i)
                  /\ e.seed = Intact(disk[WalletPath(i)]).wallet.seed

\* An export of a hidden wallet is for the seed password its user means, and is
\* only there when the decoys of the whole batch are.
HiddenBehindDecoys ==
    \A f \in DOMAIN disk :
        IsPublic(f) /\ Intact(disk[f]).seedPw # None =>
            /\ Intact(disk[f]).seedPw = req.seedPw
            /\ \A i \in Wallets :
                  LET decoy == PathOf("public", i) IN
                  /\ Exists(decoy) /\ IsPublic(decoy)
                  /\ Intact(disk[decoy]).seedPw = None

\* Nonces, salts and seeds are never used twice in a batch, whatever the
\* generator repeats.
NoRandomnessReused ==
    LET Saves(f) == Intact(disk[f]).kind = "wallet"
        Of(f) == Intact(disk[f]).wallet
        Nonces(f) == {Of(f).nonce, Of(f).header_nonce}
    IN \A f, g \in {h \in DOMAIN disk : Saves(h)} :
         /\ Of(f).nonce # Of(f).header_nonce
         /\ f # g => /\ Nonces(f) \cap Nonces(g) = {}
                     /\ Of(f).salt # Of(g).salt
                     /\ Of(f).seed # Of(g).seed

\* "Files names will be automatically generated based on this prefix"
\* (main.rs:464): the names a batch generates do not get in each other's way,
\* so that without faults it fails only over its arguments.
NamesSuffice ==
    pc = "failed" /\ faults = 0 => req.enable_duress_wallet /\ req.disable_public_info_export

Store == INSTANCE ColdStore WITH
    Name <- Names, Creds <- {Password}, Wallet <- Seed,
    store <- {[name |-> f, creds |-> Password, wallet |-> Intact(disk[f]).wallet.seed] :
                 f \in {g \in DOMAIN disk : Opens(Intact(disk[g]))}},
    public <- {[name |-> f, wallet |-> Intact(disk[f]).seed, seedPw |-> Intact(disk[f]).seedPw] :
                 f \in {g \in DOMAIN disk : IsPublic(g)}}

\* A batch keeps the promise of the single commands.
ImplementsColdStore == Store!Spec

=============================================================================
