------------------------------ MODULE Mnemonics ------------------------------
(***************************************************************************)
(* The words of a seed, as their places 0..2047 in the list of BIP-39, and   *)
(* the last word computed for a user who brings all the others.  Data is a  *)
(* sequence of bits; a byte that is begun is filled with zeros.             *)
(***************************************************************************)
EXTENDS Naturals, Sequences, SequencesExt, Folds

CONSTANT Sha256(_)      \* bits -> the first eight bits of their hash

Bits(value, n) == [i \in 1..n |-> (value \div 2^(n - i)) % 2]
Value(bits) == FoldLeft(LAMBDA n, b : 2 * n + b, 0, bits)
Flushed(bits) == bits \o [i \in 1..((8 - (Len(bits) % 8)) % 8) |-> 0]
BytesOf(data) == Len(data) \div 8
Concatenated(words) == FlattenSeq([i \in DOMAIN words |-> Bits(words[i], 11)])
\* A reader of eleven bits at a time.
WordsOf(bits, n) == [i \in 1..n |-> Value(SubSeq(bits, 11 * i - 10, 11 * i))]

LastBitsOfTheHash(data) == Flushed(SubSeq(Sha256(data), 9 - BytesOf(data) \div 4, 8))
calculate_checksum(data) == Flushed(SubSeq(Sha256(data), 1, BytesOf(data) \div 4))

Completed(data) ==
    LET all == data \o calculate_checksum(data)
    IN  WordsOf(all, (BytesOf(all) * 3) \div 4)

(* random: the low bits of what the generator returns.                      *)
Entropy(random, words) ==
    Flushed(Concatenated(words) \o Bits(random, IF Len(words) = 11 THEN 7 ELSE 3))
complete_words_with_checksum(random, words) == Completed(Entropy(random, words))

(* Mnemonic::from_str of the bip39 crate: a checksum bit for each 32 bits of *)
(* entropy follows the entropy.                                             *)
from_str(words) ==
    LET bits == Concatenated(words)
        entropy == (Len(words) * 32) \div 3
    IN  IF Len(words) \notin {12, 15, 18, 21, 24} THEN "BadWordCount"
        ELSE IF SubSeq(bits, entropy + 1, Len(bits))
                  # SubSeq(Sha256(SubSeq(bits, 1, entropy)), 1, Len(words) \div 3)
             THEN "InvalidChecksum" ELSE "Ok"
=============================================================================
