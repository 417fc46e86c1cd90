# A TLA+ model of frozenkrill

frozenkrill is a bitcoin wallet for offline machines. It keeps a mnemonic (or a
set of cosigners) in an encrypted file, exports public information for watching
wallets and signs PSBTs. Nothing runs for long and nothing is shared except
files: every command is a process that reads some files, talks to its user,
derives keys for seconds or minutes and creates other files. What can go wrong
is therefore in what several commands do to one directory, in what a command
leaves behind when it is cut short, in loops with a human inside, in conversions
between forms of the same wallet and in boundaries of the file format. These are
modelled here, model-checked with TLC, and in part proved with TLAPS.

## The system

Paths are below `src/src/` unless they begin with `core`, which stands for
`src/frozenkrill-core/src`.

| component | code | state | operations |
|---|---|---|---|
| file names | `commands/common/mod.rs` | none | derive `_pub.json`, `_non_duress.json`, `_signed.psbt`, `_reencoded` names |
| wallet commands | `commands/{generate,reencode.rs,export_public_info.rs}`, `main.rs` | the directory; per process: arguments, typed passwords, key, opened wallet | generate, export public info, reencode; singlesig and multisig |
| batch generation | `commands/batch_generate_export.rs` | the directory; the sets of random values, the encrypted and the opened wallets | name, draw, write all, read back all, export all |
| multisig session | core `lib.rs` (`MultisigInputs`), core `wallet_description.rs`, `commands/common/multisig.rs`, `commands/interactive/generate_one.rs` | receiving set, change set, list of signers | collect files with retries, merge, validate, generate, open with signers |
| PSBT signing | `commands/psbt.rs`, core `psbt.rs` | PSBT files; per process: the PSBT in memory | read, choose wallet, sign partially, approve, save |
| encrypted file | core `lib.rs` (padding), core `wallet_description.rs` (header) | bytes of a file | seal, pad, open |
| keyfiles, key derivation | core `key_derivation.rs`, core `lib.rs` | none | expand directories, hash, sort, argon2id |
| wallet forms | core `wallet_description.rs`, core `wallet_export.rs`, core `encoding/` | the wallet in memory, a file of some form | to and from JSON, compact bytes and public exports; join a multisig wallet |
| SLIP-132 prefixes | core `slip132.rs` | none | version bytes to kinds of keys and back |
| interactive mode | `commands/interactive/`, `commands/show_*.rs` | the answers so far, the opened wallet and its hidden password | two menus and all they lead to |
| internet check | `main.rs` | a thread handle shared by copies, a flag in each | look up once, check |
| mnemonics | core `mnemonic_utils.rs`, `main.rs` | words typed so far | complete a checksum, ask again |
| random values | core `random_generation_utils.rs` | none | draw, again after a failure |
| logging, progress bars, compression, cryptography | the rest, libsodium, blake3 | none | output and library calls |

The commands interact through the directory only: the wallet generate writes is
what export and reencode open, the exports and wallets of cosigners are what a
multisig session collects, a signed PSBT is the next cosigner's input. Within a
process everything is sequential, apart from the thread of the internet check.
The interactive mode asks for what a command line would say and then calls the
same functions; it keeps one opened wallet for a whole session.

What is hard, component by component:

* **wallet commands** — a name is looked at when arguments are parsed and used
  minutes later; one command creates up to three files and may be cut short
  between them; the derived names of different wallets collide because the
  extension is dropped; a key may flip in memory. *Correct when*: no file is ever
  overwritten, exports are only ever made of a wallet that can be opened, a
  hidden wallet's export is for the intended password and stands behind a decoy,
  and success means the wallet is there and opens.
* **batch generation** — many files, of which one may fail; lists made of sets and
  zipped many times over; names that must differ. *Correct when*: there are no
  exports unless every wallet opens, each is of the wallet it is named after, no
  random value serves twice, and the names it makes up suffice.
* **multisig session** — three collections that only counting keeps consistent,
  mutated before they are checked, by a user who may retry. *Correct when*: the
  change keys of a wallet are those of its receiving keys, accepted signers can
  sign for it, no assertion is reached, and collecting without an error leads to
  a wallet.
* **PSBT signing** — signatures are made before the user is asked, files go from
  hand to hand, names collide. *Correct when*: no signature reaches the disk
  without consent, none is lost, and everybody's end up in the file.
* **encrypted file, key derivation** — boundaries: minimum size, declared length,
  trailing bytes; keyfiles in whatever order a directory is walked. *Correct
  when*: a file opens as what was sealed with the same credentials or not at all,
  and its size does not depend on the wallet.
* **wallet forms** — one wallet is JSON, bytes, descriptors and prefixed keys in
  turn, written by several releases and encoded again for another network;
  lengths change their width, sets have no order, tables must be each other's
  inverse. *Correct when*: what comes back is what went in, no assertion or
  `unreachable!` is reached, and a cosigner recognises the wallet his export
  went into.
* **interactive mode, internet check, mnemonics** — prompts in an order that
  depends on what was given; a wallet, a hidden password and the copies of the
  checker outlive a single action; words typed twice. *Correct when*: no wallet
  is touched online unless a password was given, whatever is shown, signed or
  exported is of the side chosen for it, and the seed is the one typed.

## The modules

| module | models | notes |
|---|---|---|
| `FilePaths` | the derived names | pure operators, extended by the modules that touch the disk |
| `ColdStore` | abstract specification of generate, reencode, export and batch | a store and its exports only grow |
| `WalletCommands` | generate, export, reencode | one action per stretch of code between two effects |
| `BatchGeneration` | a batch from naming to the last export | one action per loop turn or effect |
| `MultisigSession` | collecting, generating, opening with signers | one action per prompt or file |
| `PsbtSigning` | the sign command | one action per prompt or effect |
| `KeyDerivation` | keyfiles, the password they make, difficulties | pure operators, extended by `Envelope` |
| `Envelope` | seal, pad, open with any credentials | sizes are numbers, contents are values |
| `VarInt` | integers of variable length | to bytes and back, over all 64 bits |
| `Slip132` | version bytes, applications, paths, keys as strings | tables as functions |
| `CompactEncoding` | descriptor keys and multisig wallets as bytes | extends `VarInt`, uses an instance of `Slip132` |
| `WalletFormats` | the forms of a wallet and the ways between them | extends `CompactEncoding` |
| `Mnemonics` | bits, words, checksums | pure operators |
| `InteractiveSession` | menus, prompts, internet check, seed input | extends `FilePaths`, `Mnemonics` |
| `WalletCommandsProofs`, `BatchGenerationProofs`, `MultisigSessionProofs`, `PsbtSigningProofs`, `EnvelopeProofs`, `InteractiveSessionProofs`, `WalletFormatsProofs` | theorems about the module of that name | TLAPS; those about the modules it extends (`KeyDerivation`, `Mnemonics`, `VarInt`, `CompactEncoding`, `Slip132`) are with it |
| `SequenceFacts` | lemmas on numbers, flattened sequences and bags | extended by the proofs that need them |
| `MC*` | small instances for TLC | |

How they compose: `WalletCommands` runs three commands over one directory, and
both it and `BatchGeneration` implement `ColdStore`; `Envelope` joins key
derivation and file format; `WalletFormats` takes singlesig wallets through
exports into multisig wallets, with both encodings; `InteractiveSession` joins all
menus with the internet check and the seed input.

### WalletCommands

`disk` is the directory, a function from names to contents. A content is a
`partial` file (what `create_new` made and was not completely written), a
`wallet`, a `public` export, or a `damaged` one; `by` and `was` are history. For
each invocation `pc` says where it is, `req` what it was asked, `typed` the hidden
wallet's password as typed at the first prompt, `key` and `opened` what it holds
in memory. The phases follow the code:

| phase | code |
|---|---|
| `Parse` | `handle_input_path`, `handle_output_path` on the names the command checks. Generate does not check the public name it derives itself (`generate/mod.rs` 203-207) |
| `Unlock` | `open_*_wallet_non_interactive`; multisig opens from a public export too, without credentials |
| `ResolveNonDuress` | `calculate_non_duress_output` and the first prompt for the password, which may be a slip |
| `DeriveKey` | salt and argon2id; the key may be flipped |
| `CreateWallet`, `WriteWallet` | `create_file`, in the two steps of `utils.rs` |
| `VerifyWallet` | read back and decrypt, with a key derived again if an export follows |
| `ConfirmNonDuressPassword` | one turn of the loop of `double_check_non_duress_password`; an answer that does not match changes nothing and is asked for again |
| `CreatePublic` … `WriteNonDuress` | `export_*_public_infos` |
| `Crash`, `IoError`, `Damage` | the environment, `MaxFaults` times in all |

Salts are drawn at random and the process stands for its salt: two invocations
never have the same. The second prompt has no way out but the password typed at the
first: who slipped there and means another is asked for ever (`AsksInVain`). A prompt
that cannot be read is an `IoError`, as any failing read or write, and Ctrl-C a
`Crash`. `ImplementsColdStore` maps a whole wallet under an unflipped
key to an element of the store, and every export, also one damaged since, to an
element of `public`.

### BatchGeneration

`Start` and `RemoveTest` are the test file, `Draw` one turn of a loop that fills a
`HashSet`, `DeriveAndEncrypt` what is made of the sets, in any order and with keys
that may flip, `Create`, `Write` and `Saved` the three loops that save files (the
kind being saved is `stage`), `ReadBack` everything from `read_decode_wallet` to the
sanity check, `ConfirmNonDuressPassword` a turn of the second prompt's loop.
`decrypted_read_wallets` is what the parallel passes over the files give: what is
read at one place is exported under the name at that place. The hash of a wallet's
name is a value of its own; a prefix with a dot moves it behind the dot, where
`file_stem` cuts it off. `Crash`, `Failure`, `Damage` and `Occupy` are the
environment. Unlike generate, a batch always derives the keys again before it
succeeds.

### MultisigSession

A descriptor key is a cosigner and a chain (`/0/*`, `/1/*`, something else);
cosigners with the same mnemonic and different seed passwords are different. A
file is what `parse_multisig_input` can make of it. `Take` is the merge with the
verdict of the loop that called it; a command line collects any number of files
and is judged only by `validate`, a prompt demands one new key per file. Wrong
passwords tried again change nothing and are not steps. Compact wallets know
nothing of signers and assert the lengths of the sets (`wallet_description.rs`
1069-1073).

### PsbtSigning

What a user answers (which wallet, whether he ever retypes its password as before,
which transactions he agrees to) is fixed by his request; while he does not retype it, `ChooseWallet` waits. An input names the keys
that may sign it and how; `sign_partial` is the loop over inputs that skips what
it cannot sign. Signatures are sets of owners per input. The keys of a wallet and
those of its hidden wallet have nothing in common.

### Envelope and KeyDerivation

A file is the length of what was declared, the length of what is there and what
of it is intact. `CiphertextLength` is a constant; the instance uses lengths
measured with the crate's own JSON layout, zlib at its best level and the 16
bytes of the MAC. One tail stands for whatever follows the file on a block device.

Passwords and the contents of keyfiles are sequences of characters. An argument
that names a file or a directory is what walking it finds, in the order of the
moment; the hash of a keyfile is of its content, the password and the salt one
after the other, as in `generate_password_with_keyfiles`. A hash and argon2id keep
different inputs apart. `SameCredentials` is the reference: the same password, the
same difficulty, the same bag of contents. `OpensAsSealed` opens every file with
all credentials of the instance and expects the wallet for the same ones and
nothing for the others.

### WalletFormats, CompactEncoding, VarInt, Slip132

`memory` is an opened wallet and `file` the last file made of one, in `standard`,
`compact` or `public` form; every action is one conversion the program makes, with
its validation. Keys are numbers for what was derived from a mnemonic and a seed
password along a path (`BodyOf`), fingerprints likewise. A stream is a sequence of
bytes in which an extended key, a public key and a fingerprint are one element
each, because a library writes them in one piece of known length. `VarInt` keeps a
u64 as its eight bytes, since TLC's integers end at 31 bits. The keys of a compact
multisig wallet are written in the order of a hash table: `SealMultisigCompact`
tries every order. `m` says whether a path was written as `m/84'/...`, as some
releases did. Strings of keys carry the version bytes of `Slip132`; Base58 is
external.

### InteractiveSession and Mnemonics

`Script` holds, for every entry of both menus, its prompts and effects in the
order of the code; `doing` and `at` are the place in one. `Skipped` says what is
not asked because of the command line or an earlier answer. A prompt is an action
with every answer a user can give; it goes round again where the code loops and
ends the process where the code returns an error. `wallet` is what the open menu
keeps. `checker` is the handle of the lookup thread, which all copies of
`InternetChecker` share, and what the one that is not a copy remembers (`Owners`
are handed that one, everybody else a copy). `files` survives a process and
`Start` begins the next. A file holds what its credentials open; how it is sealed
and verified is in the other modules. `Mnemonics` takes words of eleven bits and
completes 11 or 23 of them as `complete_words_with_checksum` does; SHA-256 is a
constant.

## Runs

Every cfg has `CHECK_DEADLOCK FALSE`, because commands and sessions end and the
finished system may stop.

| run | instance | shows |
|---|---|---|
| `GenerateRace` | two generates, 2 x 5 command lines, 2 faults, fair | `TypeOK`, `PublicInfoBacked`, `SuccessMeansOpenable`, `NonDuressBehindDecoy`, `WriteOnce`, `ImplementsColdStore`, `EveryCommandEnds` |
| `ReencodeExport` | generate, reencode and export, 2 x 2 x 6 command lines, 1 fault | `SuccessMeansOpenable`, `WriteOnce`, `ImplementsColdStore` along the chain |
| `BatchGenerate` | batches of 0, 1 and 2 wallets, 8 command lines, as many random values as needed, 1 fault | `BatchOpens`, `AllOrNoExports`, `HiddenBehindDecoys`, `NoRandomnessReused`, `ImplementsColdStore` |
| `BatchPrefix` | the same | **violated**: `NamesSuffice` |
| `MultisigCollect` | 8 files of 2 cosigners, 1-of-2 and 2-of-2, up to 3 files on a command line, 2 refusals | `ReceiveAndChangeMatch`, `SignersFit`, `NeverPanics`, `CleanSessionGenerates` |
| `MultisigRetry` | the same | **violated**: `TryingAgainHelps` |
| `PsbtRace` | six invocations, one of which never retypes its hidden password right, three transactions of two inputs, a crash | `SignaturesAreApproved`, `SigningExtends` |
| `PsbtHandOver` | five invocations, fair | `AllSign` |
| `EnvelopeOpens` | 2, 10, 11, 15 cosigners and singlesig, both types, both networks, 4 paddings, 6 draws, 3 credentials to seal with and all of `MCGiven` to open with | `OpensAsSealed`, `SizeHidesWallet` |
| `MultisigSize` | the same | **violated**: `AllowedMultisigSeals` |
| `WalletForms` | two mnemonics with and without seed password, six multisig wallets of one to three keys of every kind, both networks | `ComesBackWhole`, `NothingBreaks`, `JoinedWalletSigns`, `DecodesAsEncoded`, `PrefixesTell` |
| `InteractiveSession` | two processes, three command lines, two actions on an opened wallet, three typed lists of words, one retry, a directory with every kind of file | `OfflineUnlessGiven`, `OutputsAsChosen`, `SeedAsTyped` |

Why the bounds are enough. Names collide pairwise, so two generates meet in every
way three could, and the command lines of `MCGenerateRace` are one per way two
names can collide. Two faults allow a crash of each process, or a flipped key
and a crash. In a batch the second wallet stands for all later ones: every loop
treats them alike, and two suffice for a list in the wrong order, a value used
twice and a failure between two files. Two cosigners and three files allow every
mix of a duplicate, an overlap and a good file; `MaxRefused` only bounds how often
a user retries. The envelope's draws and cuts lie at and around every constant
the code compares with; its credentials differ in one thing at a time and include
those that concatenate to the same characters, the same files in another order,
twice, missing, or found under other names. The children and lengths of
`MCWalletFormats` lie on both sides of 253, 2^16 and the hardened bit (the rest is
proved), and its keys are of every kind the encoding tells apart. In
PSBT signing a chain of three with a competitor for a name and a reader of the
same file covers sequences and races. In the interactive mode a wallet that one
process makes is opened by the second; two actions on it suffice for one to
disturb the next, and the three command lines are the ones that change what is
asked: nothing given, a keyfile and a password given, the check disabled with
duress enabled.

Fairness. `FairSpec` of `WalletCommands` has two assumptions for each process.
`WF_vars(Running(p))`: outside the second confirmation it is scheduled, argon2id
terminates and prompts are answered; the code waits for nothing else there.
`WF_vars(ConfirmNonDuressPassword(p))`: a wrong answer to the confirmation changes
nothing and is no progress, so this says that a user who *can* type the password
right does so in the end, however often he slips before; of one who cannot, because
his first answer was a slip he does not know of, it says nothing. `EveryCommandEnds`
is therefore not "all commands end", which the code does not promise: a command ends
or asks in vain for ever, with none of its exports on disk. It fails when the loop
compares with anything but what was typed, as the mutant does.
`FairSpec` of `PsbtSigning` has a cosigner start only once his input file is
there, which is what handing over means, and assumes no fault.

### What the violated runs show

* `NamesSuffice`. The help (`main.rs` 464) promises names generated from the prefix.
  With a prefix that contains a dot, say `my.wallets`, the wallets are
  `my.wallets_<hash>`, their stem is `my` and every public name is `my_pub.json`, so
  the batch fails at the second export, after all wallets have been written.
* `TryingAgainHelps`. `MultisigInputs::merge` inserts first and checks
  afterwards, and the loop of `ask_create_multisig_inputs` carries on with what it
  has. After "Got an error, try to open another file?" (`common/mod.rs` 39) on
  the same encrypted wallet picked twice, the list of signers has one too many,
  and generate refuses the wallet in the end whatever is picked next. A
  descriptor that shares one of its keys with a file already taken has the same
  effect on the two sets.
* `AllowedMultisigSeals`. The prompt allows 15 cosigners
  (`interactive/generate_one.rs` 142); the compressed JSON of 11 does not fit the
  1200 bytes `pad` insists on (`lib.rs` 91), so generating fails with default
  padding. With `--disable-all-padding`, or as a compact wallet, it works.

### Seen in the models, and contradicted by no text

* With a password on the command line, creating a singlesig wallet or a batch
  makes no internet check at all; that is what `OfflineUnlessGiven` excepts, and
  the repository's tests expect it. Words of a seed are typed before the check.
* Generating a multisig wallet and re-encoding one do not look at the network of
  the cosigners' keys: it is the command line's.
* A compact multisig wallet of keys no address can be derived from (several paths
  in one key, a hardened wildcard) is written and refused when it is read back,
  before generate reports success. `DecodesAsEncoded` holds for it all the same.
* A directory given as keyfile counts all files in it, those added later too.
* The same signer twice is accepted when a multisig wallet is opened.

## What is proved

For all values of the constants that satisfy the named assumptions, which TLC
evaluates on every instance. A theorem of an invariant rests on an inductive one,
which was checked with TLC before it was proved.

`WalletCommandsProofs`, from `ConstantAssumption` and `RequestAssumption` (command
lines are well-formed):

* `TypeCorrect`: `Spec => []TypeOK`.
* `FilesWrittenOnce`: `Spec => WriteOnce`.
* `ExportsAreBacked`: `Spec => []PublicInfoBacked`.

`WriterInv` says that the file an invocation is writing is the partial file it
created itself: `create_new` fails on a name in use, so the file was nobody's
before, and no step of another invocation touches a name that is taken. It is
inductive with `TypeOK` and gives `WriteOnce` at once, because the only steps that
change the content of a name are the three writes and the damage.
`PublicInfoBacked` is not inductive: an export is backed because of what its maker
had established *before* it created it. `MemoryInv` says what each phase holds in
memory, and `BackedInv` that every generate past `verify` has its own wallet on
disk, whole once, sealed under the unflipped key of its own credentials and equal
to what it holds decrypted. The wallet stays there since files are written once,
and only then may the export appear.

In the same module, on top of these:

* `SuccessIsOpenable`: `Spec => []SuccessMeansOpenable`.
* `HiddenBehindDecoy`: `Spec => []NonDuressBehindDecoy`.
* `CommandsAreColdStore`: `Spec => ImplementsColdStore`, the refinement.

`OutcomeInv` adds, per invocation, `SealInv` (the key is of the sealing credentials;
what reencode holds is what the file it read still says; a wallet that is being
verified is its own; from there on it opens, unless a flipped key went unnoticed
because nothing is exported), `HiddenInv` (once an export of the hidden wallet can
be created the password typed is the one meant, and the decoy's export stands) and
`ExportInv` (what is being exported was read from a wallet that is kept). Together
with `PublicKept`, that every export is of a kept wallet, each step is a step of
`ColdStore` or a stutter: a wallet written is kept under a name that was free, an
export written is published, a crash or a damage changes nothing of either.

`MultisigSessionProofs`, from `FilesAssumption`:

* `TypeCorrect`, `SidesMatch` (`ReceiveAndChangeMatch`), `AcceptedSignersFit`
  (`SignersFit`), `AssertionsHold` (`NeverPanics`), `CleanSessionsSucceed`
  (`CleanSessionGenerates`).

`PairsInv` is the heart: whatever is merged, accepted or refused, the change keys
are those of the receiving keys, since every file brings one key and its change
key. Counting does the rest. A change key never has the receiving chain, so a
signer's receiving key found in the union of both sets is in the receiving one and
its change key in the other. `CleanInv` counts: while a user was refused nothing,
both sets have as many keys as files were taken and the signers are among them.

`PsbtSigningProofs`, from `SigningAssumption` (the hidden wallet has other keys):

* `TypeCorrect`, `NoSignatureWithoutConsent` (`SignaturesAreApproved`),
  `NoSignatureIsLost` (`SigningExtends`).

`PhaseInv` follows the PSBT in memory: the transaction of the file it was read
from, its signatures and only those of the wallet chosen, agreed to before a file
is created. `SavedInv` keeps that for every saved file against the file it was
made from, which nobody replaces.

`BatchGenerationProofs`, from `BatchAssumption`: `TypeCorrect`,
`EveryWalletOpens`, `ExportsAllOrNone`, `HiddenComeAfterDecoys`,
`RandomnessIsFresh` and the refinement `BatchIsColdStore`, for batches of any
size. The invariant has, beside the types, five parts: what each phase may rely
on in memory (`MemoryInv`: once a file is being exported, every key was found to
be the one its salt derives, and the seeds read back are those that were
encrypted, place by place), the values of different wallets differ
(`RandomInv`), the file being written is partial (`PartialInv`), and the two
directions between memory and disk: what was saved is there (`SavedInv`) and
what is there was saved (`FilesInv`). Both directions are needed: the first
gives the wallets and decoys that an export presupposes, the second says that an
export is nothing else. Damage is undone by `Intact` and a foreign file is
neither a wallet nor an export, so a step that loses nothing complete and adds
no such file (`QuietStep`, `QuietIsStutter`) keeps the invariant and is a
stutter of `ColdStore`; only `Write` is neither.

`WalletFormatsProofs`, from `BlocksAreNotBytes` (what a library writes in one piece
is not a byte, and says what it is), `SeedAssumption` (what is derived from a
mnemonic is a key, and no seed password is one of the choices),
`MultisigsAssumption` (a session collects as many keys for each side as there are
cosigners, which `MultisigInputs::validate` ensures and `ReceiveAndChangeMatch` shows)
and `PartnerAssumption` (the other cosigner brings keys of his own):

* `VarIntRoundTrip`: every 64-bit number is read back as it was written, whatever
  follows it.
* `VarIntCanonical`: what is read is what writing it gives; no number has a second
  form.
* `WalletComesBackWhole` (`ComesBackWhole`), `FilesOpen` (`NothingBreaks`),
  `JoinedCanSign` (`JoinedWalletSigns`), `CompactFileTellsAll` (`DecodesAsEncoded`),
  `VersionBytesTell` (`PrefixesTell`), `TypesHold` (`TypeOK`).

That a wallet comes back is not inductive: it depends on what the file holds. The
invariant (`IInv`) says so for each form a file can have (`HoldsJson`, `HoldsEntropy`,
`HoldsExport`, `HoldsDescriptors`, `HoldsStream`), and that a multisig wallet has
its keys in the one order its set is given (`IsCollected`), so that it does not
matter in which order a compact file has them. There is one lemma per action. Opening
a compact file then needs the encoding, which is proved part by part, each read as
it was written whatever follows (`ReadsLength`, `ReadsPath`, `ReadsOrigin`,
`ReadsXpub`, `ReadsDescriptor`, `ReadsMultisig`); that many things one after the
other are so when each is, is `ReadsMany`, by induction over their number. Joining by
an export needs the version bytes: the third byte alone tells all twenty
apart (`MagicTells`), so each table is a matter of which names are listed in it.
That paths and lists have fewer than 65536 members is a bound of the model
(`Length`); a key of BIP-32 is at most 255 children deep.

`EnvelopeProofs`, from `RequestsAssumption` (credentials, salts and parameters are
of their types, no ciphertext is longer than the longest file) and
`NoneAssumption`:

* `KeysTellCredentials`: from one salt, two credentials derive the same key exactly
  when they are the same in the sense of `SameCredentials`, for passwords,
  keyfiles and directories of any number and length.
* `FilesOpenAsSealed` (`OpensAsSealed`), `SizeTellsNothing` (`SizeHidesWallet`),
  `TypeCorrect`.

The first is about sequences of any length. `Before` is a strict total order
(`BeforeIsTotal`, `BeforeIsTransitive`), so numbering the places of a sequence of
hashes by how many go before them is a bijection (`PlacesAreNumbered`), and its
inverse sorts the sequence without losing or doubling a hash (`CanBeSorted`). What
`Sorted` chooses depends on the bag alone (`SortedTheSame`). A hash is never a
character, so the text given to argon2id splits in one way (`UnitsTell`), and equal
bags of hashes are equal bags of contents (`HashedTheSame`): with keyfiles swapped,
repeated, left out or moved into the password another key comes out. The
inductive invariant of `Envelope` (`AsAsked`) keeps what a stored file has of its
request, through copies, cuts and damage; opening it then is a matter of the
declared length against what is left.

`InteractiveSessionProofs`, from `SessionAssumption` (files, words and arguments are
of their types, and the bits taken of SHA-256 are bits):

* `TypeCorrect`, `NothingWhereOnline` (`OfflineUnlessGiven`), `OutputsOfTheChosen`
  (`OutputsAsChosen`), `WordsAreTheSeed` (`SeedAsTyped`).

None of these is inductive: whether an export is of the right side depends on
prompts that were answered, or skipped, many steps before. The invariant is written
over the scripts: `StepsInv` says of every step before the present one what it
left behind (`Left`), `NowInv` that the present one was not to be skipped,
`AskedInv` that an answer which is there was asked for, `LookupInv` what the
handle of the lookup and the stage of a process say of each other, `DoneInv` whose
outputs there are. A script is walked by `Advance`, and `AdvanceInv` shows once that
skipping keeps `StepsInv`, so that each action has only its own step to justify.
`WordsAreTheSeed` rests on `CompletedWords`: eleven bits of a number are read back as
that number (`ValueOfItsBits`), flushing drops nothing of 11 or 23 words, and so the
completed words begin with the ones typed and end in the checksum `from_str`
expects, for any random bits and any hash function.

Every safety and action property of the passing runs is proved in one of these. Only
model-checked is liveness (`EveryCommandEnds`, `AllSign`), which is out of the
prover's reach, and the three runs that find a violation. The library's induction theorems take an operator as
parameter, which the provers cannot instantiate; where a proof needs induction
over the numbers, it uses that a set of numbers has a least member (`LeastNat`,
`InductionOnNat` in `SequenceFacts`), with a set in the place of the operator.

## What is not modelled, and why

* Deleting or replacing files by hand between commands: the program never deletes
  a wallet or an export. (`InteractiveSession` lets a listed file vanish.)
* Power loss. Files are flushed but not synced, and the code promises nothing.
* Cryptography: authenticated encryption opens only under its own key, hashes and
  the key derivation are injective, derived keys are values. Base58, SHA-256 and the
  BIP-39 parser are external.
* Deriving addresses, beyond whether a key allows it; with an index near 2^32
  `start + quantity` overflows, and nothing is kept or written on the way.
* The statistics of random generation. Repeated and failing draws are in
  `BatchGeneration`, the arithmetic of additional padding in `Envelope`.
* Combining and finalising PSBTs, which other software does.
* Of a batch: header keys, which are drawn as salts are and tell nothing apart, and
  the progress bars. The parallel passes have no shared state but those.
* Answers that change no control in the interactive mode: numbers of words and
  addresses, network, difficulty.
* `serialize_descriptor_descriptor_pk`, which only tests use; log lines, texts, QR
  codes, compression.

## Plan

1. *(done)* `FilePaths`, `WalletCommands` with `ColdStore`; type correctness,
   `WriteOnce` and `PublicInfoBacked` proved.
2. *(done)* `MultisigSession`, `Envelope`, `PsbtSigning`, `BatchGeneration`.
3. *(done)* `KeyDerivation` in `Envelope`; `VarInt`, `Slip132`, `CompactEncoding`,
   `WalletFormats`; `Mnemonics` and `InteractiveSession`, the internet check with it.
4. *(done)* Proofs about the outcomes of the wallet commands and their refinement
   of `ColdStore`, about multisig sessions, PSBT signing, batches (with their
   refinement) and `VarInt`.
5. *(done)* Proofs about `Envelope` with `KeyDerivation`, and about
   `InteractiveSession` with `Mnemonics`.
6. *(done)* Proofs about `WalletFormats` with `CompactEncoding` and `Slip132`.
7. Left: that no other bytes than those written are accepted by the whole compact
   format, as `VarIntCanonical` says of its integers, and that the names a batch
   or a command derives are apart under the conditions `FilePaths` gives.
