---------------------------- MODULE KeyDerivation ----------------------------
(***************************************************************************)
(* From what a user gives, a password, keyfiles and a difficulty, to the    *)
(* key of a file.  Texts and contents are sequences of characters; a hash   *)
(* is injective, and so is argon2id.  An argument that names a file or a    *)
(* directory is the sequence of contents that walking it finds: names play  *)
(* no part, and the order is that of the file system at the moment.         *)
(***************************************************************************)
EXTENDS Naturals, Sequences, SequencesExt

argon2_difficulty_params ==
    [Easy |-> << 42, 256 * 1024 >>, Normal |-> << 210, 512 * 1024 >>,
     Hard |-> << 930, 1024 * 1024 >>, VeryHard |-> << 5500, 2 * 1024 * 1024 >>]

\* What is typed or given on a command line.
Text == Seq(Nat)
Credentials ==
    [password : Text, keyfiles : Seq(Seq(Text)), difficulty : DOMAIN argon2_difficulty_params]

\* WalkDir on each argument in turn.
expand_keyfiles(arguments) == FlattenSeq(arguments)

\* Arguments that contain no file at all are a mistake.
parse_keyfiles_paths(arguments) ==
    IF arguments = << >> \/ expand_keyfiles(arguments) # << >>
    THEN [ok |-> TRUE, keyfiles |-> expand_keyfiles(arguments)]
    ELSE [ok |-> FALSE]

(* The units of what argon2id is given: 32 bytes of a hash, or a character. *)
Hash(input) == << "hash", input >>
Characters(text) == [i \in DOMAIN text |-> << "character", text[i] >>]

(* Hashes are compared as bytes; any total order does.                      *)
Before(h, g) ==
    LET a == h[2]  b == g[2]
        same(n) == SubSeq(a, 1, n) = SubSeq(b, 1, n)
    IN  \/ Len(a) < Len(b)
        \/ Len(a) = Len(b) /\ \E i \in DOMAIN a : same(i - 1) /\ a[i] < b[i]

\* Equal hashes stay as many as they are.
Sorted(hashes) ==
    CHOOSE s \in [DOMAIN hashes -> Range(hashes)] :
        /\ \A i, j \in DOMAIN s : i < j => ~Before(s[j], s[i])
        /\ ToBag(s) = ToBag(hashes)

PasswordInOrderGiven(password, salt, keyfiles) ==
    [i \in DOMAIN keyfiles |-> Hash(keyfiles[i] \o password \o salt)] \o Characters(password)
generate_password_with_keyfiles(password, salt, keyfiles) ==
    LET hashes == [i \in DOMAIN keyfiles |-> Hash(keyfiles[i] \o password \o salt)]
    IN  Sorted(hashes) \o Characters(password)

default_derive_key(password, keyfiles, salt, difficulty) ==
    [password |-> generate_password_with_keyfiles(password, salt, keyfiles), salt |-> salt,
     params |-> argon2_difficulty_params[difficulty]]

(* The key of some credentials, none if they are refused.                   *)
DerivedKeys(c, salt) ==
    LET parsed == parse_keyfiles_paths(c.keyfiles)
    IN  IF parsed.ok
        THEN {default_derive_key(c.password, parsed.keyfiles, salt, c.difficulty)} ELSE {}

(* The reference: which credentials are the same for a user, who knows his   *)
(* password and which files he uses and how often, not how they are found.  *)
(* Names that lead to no file are never the same as no names.               *)
SameCredentials(c, d) ==
    /\ c.password = d.password /\ c.difficulty = d.difficulty
    /\ ToBag(FlattenSeq(c.keyfiles)) = ToBag(FlattenSeq(d.keyfiles))
    /\ (c.keyfiles = << >>) = (d.keyfiles = << >>)
=============================================================================
