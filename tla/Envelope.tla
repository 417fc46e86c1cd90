------------------------------ MODULE Envelope ------------------------------
(***************************************************************************)
(* The encrypted wallet file: a nonce and a salt, a header encrypted under *)
(* the derived key that tells the version and the length of what follows,  *)
(* the wallet encrypted under the key of the header, and random padding.   *)
(* A file is sealed, may be copied to a block device, cut short or damaged *)
(* anywhere, and is opened with some credentials as some kind of wallet.   *)
(***************************************************************************)
EXTENDS KeyDerivation

CONSTANTS
    Salt,              (* what the salt of a file may be *)
    Given,             (* credentials that are given, now or then *)
    Random,            (* 32 bit values the generator may draw *)
    CiphertextLength,  (* file type -> cosigners (0: singlesig) -> bytes *)
    Requests,          (* what is asked to be sealed *)
    Beyond,            (* how much of a block device follows the file *)
    Cut,               (* where a file may be cut short *)
    None

MAX_BASE_PADDING_BYTES == 2000
MINIMUM_CIPHERTEXT_SIZE_BYTES == 1200
DEFAULT_MIN_ADDITIONAL_PADDING == 0
DEFAULT_MAX_ADDITIONAL_PADDING == 1000
MAX_ADDITIONAL_PADDING == 1000000000
MAX_TOTAL_SIGS_MULTISIG == 15
Network == {"bitcoin", "testnet"}
Kind == {"single", "multi"}

STANDARD_ENCRYPTED_WALLET_VERSION == 0
COMPACT_ENCRYPTED_MAINNET_WALLET_VERSION == 1
COMPACT_ENCRYPTED_TESTNET_WALLET_VERSION == 2

Request ==
    [total : 0..MAX_TOTAL_SIGS_MULTISIG,     \* cosigners, 0 for singlesig
     type : {"standard", "compact"},         \* --wallet-file-type
     network : Network,
     disable_all_padding : BOOLEAN,
     min : Nat, max : Nat,                   \* additional padding bytes
     creds : Given]

(* Inputs are of their types, and no wallet is longer than the longest file. *)
ASSUME RequestsAssumption ==
    /\ Given \subseteq Credentials /\ Salt \subseteq Text /\ Salt # {}
    /\ Requests \subseteq Request
    /\ Random \subseteq Nat /\ Beyond \subseteq Nat /\ Cut \subseteq Nat
    /\ \A r \in Requests :
          /\ CiphertextLength[r.type][r.total] \in Nat \ {0}
          /\ CiphertextLength[r.type][r.total]
                <= MINIMUM_CIPHERTEXT_SIZE_BYTES + MAX_ADDITIONAL_PADDING

KindOf(r) == IF r.total = 0 THEN "single" ELSE "multi"

\* PaddingParams::new.
PaddingOrdered(r) == r.min <= r.max
PaddingParams(r) == r.min <= r.max /\ r.max <= MAX_ADDITIONAL_PADDING

\* to_encrypted_wallet_version and to_bytes.
Version(r) ==
    CASE r.type = "standard" -> STANDARD_ENCRYPTED_WALLET_VERSION
      [] r.type = "compact" /\ r.network = "bitcoin" ->
            COMPACT_ENCRYPTED_MAINNET_WALLET_VERSION
      [] OTHER -> COMPACT_ENCRYPTED_TESTNET_WALLET_VERSION

\* The keys of what is given.
KeysOf == [c \in Given |-> [salt \in Salt |-> DerivedKeys(c, salt)]]
Key == UNION {KeysOf[c][salt] : c \in Given, salt \in Salt}

(* A file.  "bytes" counts the ciphertext and its padding as found after   *)
(* the header, "original" how many of them, from the first on, are as they *)
(* were written; only a standard wallet holds its network.  A damaged part *)
(* does not authenticate.                                                  *)
File ==
    [salt : Salt, key : Key, version : 0..2, length : Nat, kind : Kind,
     network : Network \cup {None}, bytes : Nat, original : Nat,
     damaged : SUBSET {"header", "wallet"}]

ASSUME NoneAssumption == None \notin File

VARIABLES
    asked,    (* the request *)
    stage,    (* "asked", "stored", or "failed" when nothing was sealed *)
    file      (* the file, None until it is sealed *)

vars == <<asked, stage, file>>

TypeOK ==
    /\ asked \in Requests
    /\ stage \in {"asked", "stored", "failed"}
    /\ file \in File \cup {None}
    /\ stage = "stored" =>
          /\ file # None
          /\ file.original <= file.bytes
          /\ file.original <= MINIMUM_CIPHERTEXT_SIZE_BYTES + MAX_ADDITIONAL_PADDING
-----------------------------------------------------------------------------
(* Sealing. *)

\* get_additional_random_padding_bytes.
additional(r, random) ==
    LET drawn == random % (r.max + 1) IN IF drawn < r.min THEN r.min ELSE drawn

\* CiphertextPadder::pad, None when it refuses: at most
\* MINIMUM_CIPHERTEXT_SIZE_BYTES are brought to exactly that many.
PadOnly(r, length, random) == length + MAX_BASE_PADDING_BYTES + additional(r, random)
Padded(r, length, random) ==
    CASE r.disable_all_padding -> length
      [] ~r.disable_all_padding /\ length > MINIMUM_CIPHERTEXT_SIZE_BYTES -> None
      [] ~r.disable_all_padding /\ length + MAX_BASE_PADDING_BYTES
                                        < MINIMUM_CIPHERTEXT_SIZE_BYTES -> None
      [] OTHER -> MINIMUM_CIPHERTEXT_SIZE_BYTES + additional(r, random)

\* Only a standard wallet is padded.
FileBytes(r, random) ==
    LET length == CiphertextLength[r.type][r.total] IN
    IF r.type = "standard" THEN Padded(r, length, random) ELSE length

\* generate_encrypted_encoded_*_wallet: the length in the header is taken
\* before the padding is added.
Sealed(r, bytes, salt, key) ==
    [salt |-> salt, key |-> key, version |-> Version(r),
     length |-> CiphertextLength[r.type][r.total], kind |-> KindOf(r),
     network |-> IF r.type = "standard" THEN r.network ELSE None,
     bytes |-> bytes, original |-> bytes, damaged |-> {}]

Seal(random, salt) ==
    /\ stage = "asked"
    /\ LET bytes == FileBytes(asked, random)
           keys == KeysOf[asked.creds][salt]
       IN  IF PaddingParams(asked) /\ bytes # None /\ keys # {}
           THEN /\ \E key \in keys : file' = Sealed(asked, bytes, salt, key)
                /\ stage' = "stored"
           ELSE stage' = "failed" /\ UNCHANGED file
    /\ UNCHANGED asked
-----------------------------------------------------------------------------
(* What becomes of a file. *)

\* Written to a block device it is read back with whatever follows it there;
\* one tail stands for any number of them.
WriteToDevice(n) ==
    /\ stage = "stored"
    /\ file.bytes = file.original
    /\ file' = [file EXCEPT !.bytes = @ + n]
    /\ UNCHANGED <<asked, stage>>

\* Cut short; the cut may reach the wallet and, with the ciphertext all gone,
\* the header.
Truncate(n) ==
    /\ stage = "stored"
    /\ n < file.bytes
    /\ file' = [file EXCEPT !.bytes = n,
                            !.original = IF n < @ THEN n ELSE @,
                            !.damaged = @ \cup (IF n = 0 THEN {"header"} ELSE {})]
    /\ UNCHANGED <<asked, stage>>

\* The nonce and the salt count as header: without them it cannot be read.
Damage(part) ==
    /\ stage = "stored"
    /\ file' = [file EXCEPT !.damaged = @ \cup {part}]
    /\ UNCHANGED <<asked, stage>>
-----------------------------------------------------------------------------
(* Opening. *)

\* decrypt_header: it authenticates and enough ciphertext follows it.
HeaderReadable(f, creds) ==
    /\ "header" \notin f.damaged
    /\ f.key \in KeysOf[creds][f.salt]
    /\ f.length > 0
    /\ f.length <= f.bytes

\* How many bytes of the ciphertext are decrypted.
CiphertextUsed(f) == f.length

\* They authenticate when they are the ones that were encrypted, no more and
\* no less.
Authentic(f, n) == "wallet" \notin f.damaged /\ n = f.length /\ n <= f.original

\* decrypt_wallet_singlesig and decrypt_wallet_multisig: the wallet says its
\* network in a standard file, and the version of the header in a compact one.
\* A wallet of one kind never parses as the other.
decrypt_wallet(f, creds, kind) ==
    IF HeaderReadable(f, creds) /\ Authentic(f, CiphertextUsed(f)) /\ f.kind = kind
    THEN [kind |-> kind,
          network |-> CASE f.version = STANDARD_ENCRYPTED_WALLET_VERSION -> f.network
                        [] f.version = COMPACT_ENCRYPTED_MAINNET_WALLET_VERSION -> "bitcoin"
                        [] OTHER -> "testnet"]
    ELSE None
-----------------------------------------------------------------------------
Init ==
    /\ asked \in Requests
    /\ stage = "asked"
    /\ file = None

Next ==
    \/ \E random \in Random, salt \in Salt : Seal(random, salt)
    \/ \E n \in Beyond : WriteToDevice(n)
    \/ \E n \in Cut : Truncate(n)
    \/ \E part \in {"header", "wallet"} : Damage(part)

Spec == Init /\ [][Next]_vars
-----------------------------------------------------------------------------
(* What makes the envelope correct. *)

\* As long as no byte of the header or the wallet is lost the file opens, as
\* what it is and to the network it was sealed for: padded, short of its
\* padding, or with the rest of a block device behind it (docs/technical.md);
\* with the same password, difficulty and keyfiles, in whatever order these are
\* named or found (key_derivation.rs 190), also all in one directory.  In every
\* other case it does not open at all.
OpensAsSealed ==
    stage = "stored" =>
        \A creds \in Given, kind \in Kind :
            decrypt_wallet(file, creds, kind) =
                IF /\ file.damaged = {}
                   /\ CiphertextLength[asked.type][asked.total] <= file.original
                   /\ SameCredentials(creds, asked.creds) /\ kind = KindOf(asked)
                THEN [kind |-> kind, network |-> asked.network]
                ELSE None

\* The size of a padded wallet tells nothing of it: whatever else of any kind
\* had been sealed with the same parameters and the same draw would have made a
\* file of the same size (docs/technical.md, "About padding").
Hidden(r) == r.type = "standard" /\ ~r.disable_all_padding
SizeHidesWallet ==
    \A r \in Requests, random \in Random :
        /\ Hidden(r) /\ Hidden(asked)
        /\ r.min = asked.min /\ r.max = asked.max
        /\ None \notin {FileBytes(r, random), FileBytes(asked, random)}
        => FileBytes(r, random) = FileBytes(asked, random)

\* "At least one signature is required and a maximum of
\* {MAX_TOTAL_SIGS_MULTISIG} is allowed" (generate_one.rs:142): a multisig with
\* no more cosigners than that can be sealed with the default parameters.
AllowedMultisigSeals ==
    /\ asked.total \in 1..MAX_TOTAL_SIGS_MULTISIG
    /\ asked.min = DEFAULT_MIN_ADDITIONAL_PADDING
    /\ asked.max = DEFAULT_MAX_ADDITIONAL_PADDING
    /\ \A salt \in Salt : KeysOf[asked.creds][salt] # {}
    => stage # "failed"

=============================================================================
