-------------------------- MODULE WalletFormatsProofs --------------------------
(***************************************************************************)
(* Proofs about a wallet on its way through the forms it is kept in, for any *)
(* mnemonics, seed passwords, keys and cosigners: what comes back is what    *)
(* was put away.                                                            *)
(*                                                                         *)
(* From the bottom up: the integers of the compact format; what is built of *)
(* them, each part read as it was written whatever follows it; the tables   *)
(* of the version bytes; the orders a set of keys can be written in; and    *)
(* the inductive invariant, which says for each form a file can have what   *)
(* is in it and how that relates to the wallet it was made of.              *)
(***************************************************************************)
EXTENDS WalletFormats, SequenceFacts

---------------------------------------------------------------------------
(* The integers of the compact format, at every value, whatever follows.    *)

(* A reader that has read what was written is left with what follows.       *)
LEMMA RestAfter ==
    ASSUME NEW a \in Seq(Nat), NEW rest \in Seq(Nat)
    PROVE  SubSeq(a \o rest, Len(a) + 1, Len(a \o rest)) = rest
<1>1. Len(a \o rest) = Len(a) + Len(rest) /\ Len(a) \in Nat /\ Len(rest) \in Nat
    BY ConcatProperties, LenProperties
<1>2. CASE Len(rest) = 0
    <2>1. rest = << >>
        BY <1>2, EmptySeq
    <2> QED BY <1>1, <1>2, <2>1, SubSeqEmpty
<1>3. CASE Len(rest) # 0
    <2>1. /\ Len(a) + 1 \in Len(a) + 1 .. Len(a) + Len(rest)
          /\ Len(a) + Len(rest) \in Len(a) + 1 .. Len(a) + Len(rest)
        BY <1>1, <1>3
    <2>2. SubSeq(a \o rest, Len(a) + 1, Len(a) + Len(rest))
            = SubSeq(rest, Len(a) + 1 - Len(a), Len(a) + Len(rest) - Len(a))
        BY <2>1, SubSeqOfConcat2
    <2>3. Len(a) + 1 - Len(a) = 1 /\ Len(a) + Len(rest) - Len(a) = Len(rest)
        BY <1>1
    <2> QED BY <1>1, <2>2, <2>3, SubSeqFull
<1> QED BY <1>2, <1>3

(* A string of bytes is one of numbers.                                      *)
LEMMA BytesAreNumbers == ASSUME NEW a \in Seq(Byte) PROVE a \in Seq(Nat)
<1>1. Byte \subseteq Nat
    BY DEF Byte
<1> QED BY <1>1, SeqMonotonic

(* A reader of as many bytes as were written gets them and leaves the rest.  *)
LEMMA ReadsWhatWasWritten ==
    ASSUME NEW a \in Seq(Byte), NEW rest \in Seq(Nat)
    PROVE  ReadExact(a \o rest, Len(a)) = Done(a, rest)
<1> DEFINE s == a \o rest
<1>1. a \in Seq(Nat)
    BY BytesAreNumbers
<1>2. /\ Len(a) \in Nat /\ Len(rest) \in Nat
      /\ Len(a \o rest) = Len(a) + Len(rest)
      /\ \A i \in 1..Len(a) : (a \o rest)[i] = a[i]
    BY <1>1, ConcatProperties, LenProperties
<1>3. \A i \in 1..Len(a) : a[i] \in Byte
    BY ElementOfSeq
<1>4. [i \in 1..Len(a) |-> (a \o rest)[i]] = a
    BY <1>2, LenProperties
<1>5. Len(s) >= Len(a) /\ \A i \in 1..Len(a) : s[i] \in Byte
    BY <1>2, <1>3
<1>6. SubSeq(s, Len(a) + 1, Len(s)) = rest
    BY <1>1, RestAfter
<1>7. [i \in 1..Len(a) |-> s[i]] = a
    BY <1>4
<1> HIDE DEF s
<1>8. ReadExact(s, Len(a)) = Done(a, rest)
    BY <1>5, <1>6, <1>7 DEF ReadExact
<1> QED BY <1>8 DEF s

(* A number is read back from its first byte and those that follow it.      *)
LEMMA ReadsNumber ==
    ASSUME NEW first \in Byte, NEW following \in Seq(Byte), NEW rest \in Seq(Nat), NEW x,
           Len(following) = Announced(first),
           x = Wide(IF Announced(first) = 0 THEN << first >> ELSE following),
           ~NonMinimal(x, Announced(first))
    PROVE  deserialize(<< first >> \o (following \o rest)) = Done(x, rest)
<1> DEFINE s == << first >> \o (following \o rest)
<1>1. following \o rest \in Seq(Nat) /\ << first >> \in Seq(Byte) /\ << first >> \in Seq(Nat)
    <2>1. following \in Seq(Nat)
        BY BytesAreNumbers
    <2>2. << first >> \in Seq(Byte)
        OBVIOUS
    <2> QED BY <2>1, <2>2, BytesAreNumbers, ConcatProperties
<1>2. s[1] = first /\ s \in Seq(Nat) /\ s # << >>
    BY <1>1, ConcatProperties
<1>3. ReadExact(s, 1) = Done(<< first >>, following \o rest)
    <2>1. ReadExact(s, Len(<< first >>)) = Done(<< first >>, following \o rest)
        BY <1>1, ReadsWhatWasWritten
    <2> QED BY <2>1
<1>4. Tail(s) = following \o rest
    <2>1. Tail(s) = SubSeq(s, 2, Len(s))
        BY <1>2, TailIsSubSeq
    <2>2. SubSeq(s, Len(<< first >>) + 1, Len(s)) = following \o rest
        BY <1>1, RestAfter
    <2>3. Len(<< first >>) + 1 = 2
        OBVIOUS
    <2> QED BY <2>1, <2>2, <2>3
<1>5. ReadExact(Tail(s), Announced(first)) = Done(following, rest)
    BY <1>4, ReadsWhatWasWritten
<1> HIDE DEF s
<1>6. deserialize(s) = Done(x, rest)
    <2>1. ReadExact(s, 1).ok /\ ReadExact(s, 1).value = << first >>
        BY <1>3 DEF Done
    <2>2. LET read == ReadExact(Tail(s), Announced(s[1]))
          IN  read.ok /\ read.value = following /\ read.rest = rest
        BY <1>2, <1>5 DEF Done
    <2>3. x = Wide(IF Announced(s[1]) = 0 THEN ReadExact(s, 1).value
                   ELSE ReadExact(Tail(s), Announced(s[1])).value)
        BY <1>2, <2>1, <2>2
    <2>4. ~NonMinimal(x, Announced(s[1]))
        BY <1>2
    <2> QED BY <2>1, <2>2, <2>3, <2>4 DEF deserialize
<1> QED BY <1>6 DEF s

(* A wide number is read back when its first byte announces its width and   *)
(* it is too large for a narrower form.                                      *)
LEMMA ReadsAnnounced ==
    ASSUME NEW first \in Byte, NEW following \in Seq(Byte), NEW rest \in Seq(Nat), NEW x,
           Announced(first) # 0, Len(following) = Announced(first), x = Wide(following),
           ~NonMinimal(x, Announced(first))
    PROVE  deserialize((<< first >> \o following) \o rest) = Done(x, rest)
<1>1. << first >> \in Seq(Byte)
    OBVIOUS
<1>2. << first >> \in Seq(Nat) /\ following \in Seq(Nat)
    BY <1>1, BytesAreNumbers
<1>3. (<< first >> \o following) \o rest = << first >> \o (following \o rest)
    BY <1>2, ConcatAssociative
<1>4. x = Wide(IF Announced(first) = 0 THEN << first >> ELSE following)
    OBVIOUS
<1>5. deserialize(<< first >> \o (following \o rest)) = Done(x, rest)
    BY <1>4, ReadsNumber
<1> QED BY <1>3, <1>5

(* Every number that is written is read back, whatever is written after it:  *)
(* VarInt::serialize and VarInt::deserialize agree on all 2^64 numbers.      *)
THEOREM VarIntRoundTrip ==
    \A x \in U64, rest \in Seq(Nat) : deserialize(serialize(x) \o rest) = Done(x, rest)
<1> SUFFICES ASSUME NEW x \in U64, NEW rest \in Seq(Nat)
             PROVE  deserialize(serialize(x) \o rest) = Done(x, rest)
    OBVIOUS
<1>1. \A i \in 1..8 : x[i] \in Byte
    BY DEF U64
<1>7. x = [i \in 1..8 |-> x[i]]
    BY DEF U64
<1>8. x[1] \in 0..255
    BY <1>1 DEF Byte
<1>2. CASE Width(x) = 0
    <2>1. FitsIn(x, 1) /\ x[1] <= 252
        BY <1>2 DEF Width
    <2>2. x = Wide(<< x[1] >>)
        BY <1>7, <2>1 DEF Wide, FitsIn
    <2>3. Announced(x[1]) = 0 /\ ~NonMinimal(x, 0) /\ x[1] \in Byte
        BY <1>8, <2>1 DEF Announced, NonMinimal, Byte
    <2>4. << >> \in Seq(Byte) /\ Len(<< >>) = 0 /\ << >> \o rest = rest
        BY ConcatEmptySeq
    <2>5. deserialize(<< x[1] >> \o (<< >> \o rest)) = Done(x, rest)
        BY <2>2, <2>3, <2>4, ReadsNumber
    <2>6. serialize(x) = << x[1] >>
        BY <1>2 DEF serialize
    <2> QED BY <2>4, <2>5, <2>6
<1>3. CASE Width(x) = 2
    <2> DEFINE following == << x[1], x[2] >>
    <2>1. FitsIn(x, 2) /\ ~(FitsIn(x, 1) /\ x[1] <= 252)
        BY <1>3 DEF Width
    <2>2. following \in Seq(Byte) /\ Len(following) = 2
        BY <1>1
    <2>3. x = Wide(following)
        BY <1>7, <2>1 DEF Wide, FitsIn
    <2>4. Announced(253) = 2 /\ 253 \in Byte
        BY DEF Announced, Byte
    <2>7. ~NonMinimal(x, 2)
        <3>1. SUFFICES ASSUME NonMinimal(x, 2) PROVE FALSE
            OBVIOUS
        <3>2. FitsIn(x, 1) /\ x[1] < 253
            BY <3>1 DEF NonMinimal
        <3>3. \A n \in 0..255 : n < 253 => n <= 252
            OBVIOUS
        <3>4. x[1] <= 252
            BY <1>8, <3>2, <3>3, Zenon
        <3> QED BY <2>1, <3>2, <3>4
    <2>8. /\ Announced(253) # 0 /\ Len(following) = Announced(253)
          /\ ~NonMinimal(x, Announced(253))
        BY <2>2, <2>4, <2>7
    <2>5. serialize(x) = << 253 >> \o following
        BY <1>3 DEF serialize
    <2> HIDE DEF following
    <2>6. deserialize((<< 253 >> \o following) \o rest) = Done(x, rest)
        BY <2>2, <2>3, <2>4, <2>8, ReadsAnnounced
    <2> QED BY <2>5, <2>6
<1>4. CASE Width(x) = 4
    <2> DEFINE following == << x[1], x[2], x[3], x[4] >>
    <2>1. FitsIn(x, 4) /\ ~FitsIn(x, 2)
        BY <1>4 DEF Width
    <2>2. following \in Seq(Byte) /\ Len(following) = 4
        BY <1>1
    <2>3. x = Wide(following)
        BY <1>7, <2>1 DEF Wide, FitsIn
    <2>4. Announced(254) = 4 /\ 254 \in Byte
        BY DEF Announced, Byte
    <2>7. ~NonMinimal(x, 4)
        BY <2>1 DEF NonMinimal
    <2>8. /\ Announced(254) # 0 /\ Len(following) = Announced(254)
          /\ ~NonMinimal(x, Announced(254))
        BY <2>2, <2>4, <2>7
    <2>5. serialize(x) = << 254 >> \o following
        BY <1>4 DEF serialize
    <2> HIDE DEF following
    <2>6. deserialize((<< 254 >> \o following) \o rest) = Done(x, rest)
        BY <2>2, <2>3, <2>4, <2>8, ReadsAnnounced
    <2> QED BY <2>5, <2>6
<1>5. CASE Width(x) = 8
    <2> DEFINE following == << x[1], x[2], x[3], x[4], x[5], x[6], x[7], x[8] >>
    <2>1. ~FitsIn(x, 4)
        BY <1>5 DEF Width
    <2>2. following \in Seq(Byte) /\ Len(following) = 8
        BY <1>1
    <2>3. x = Wide(following)
        BY <1>7, <2>1 DEF Wide, FitsIn
    <2>4. Announced(255) = 8 /\ 255 \in Byte
        BY DEF Announced, Byte
    <2>7. ~NonMinimal(x, 8)
        BY <2>1 DEF NonMinimal
    <2>8. /\ Announced(255) # 0 /\ Len(following) = Announced(255)
          /\ ~NonMinimal(x, Announced(255))
        BY <2>2, <2>4, <2>7
    <2>9. serialize(x) = << 255, x[1], x[2], x[3], x[4], x[5], x[6], x[7], x[8] >>
        BY <1>5 DEF serialize
    <2>5. serialize(x) = << 255 >> \o following
        BY <2>9, SMTT(60)
    <2> HIDE DEF following
    <2>6. deserialize((<< 255 >> \o following) \o rest) = Done(x, rest)
        BY <2>2, <2>3, <2>4, <2>8, ReadsAnnounced
    <2> QED BY <2>5, <2>6
<1>6. Width(x) \in {0, 2, 4, 8}
    BY DEF Width
<1> QED BY <1>2, <1>3, <1>4, <1>5, <1>6

(* What a successful read has taken from what was given to it.              *)
LEMMA Taken ==
    ASSUME NEW s \in Seq(Nat), NEW n \in Nat, ReadExact(s, n).ok
    PROVE  LET r == ReadExact(s, n)
           IN  /\ r.value \in Seq(Byte) /\ Len(r.value) = n /\ r.rest \in Seq(Nat)
               /\ s = r.value \o r.rest
<1> DEFINE v == [i \in 1..n |-> s[i]]
           rest == SubSeq(s, n + 1, Len(s))
<1>1. Len(s) \in Nat /\ Len(s) >= n /\ \A i \in 1..n : s[i] \in Byte
    BY LenProperties DEF ReadExact, Failed
<1>2. ReadExact(s, n) = Done(v, rest)
    BY <1>1 DEF ReadExact
<1>3. v \in Seq(Byte) /\ Len(v) = n
    BY <1>1
<1>4. SubSeq(s, 1, n) = v
    BY <1>1
<1>5. \A i \in n + 1 .. Len(s) : s[i] \in Nat
    BY <1>1, ElementOfSeq
<1>6. rest \in Seq(Nat)
    BY <1>1, <1>5, SubSeqProperties
<1>7. s = SubSeq(s, 1, n) \o SubSeq(s, n + 1, Len(s))
    <2>1. SubSeq(s, 1, n) \o SubSeq(s, n + 1, Len(s)) = SubSeq(s, 1, Len(s))
        <3>1. 1 \in 1 .. Len(s) + 1 /\ n \in 1 - 1 .. Len(s) /\ Len(s) \in n .. Len(s)
            BY <1>1
        <3> QED BY <3>1, ConcatAdjacentSubSeq
    <2> QED BY <2>1, SubSeqFull
<1>8. s = v \o rest
    BY <1>4, <1>7
<1> HIDE DEF v, rest
<1>9. ReadExact(s, n).value = v /\ ReadExact(s, n).rest = rest
    BY <1>2 DEF Done
<1> QED BY <1>3, <1>6, <1>8, <1>9

(* A first byte that announces nothing is the number itself.                 *)
LEMMA SmallAnnounceNothing == \A b \in Byte : Announced(b) = 0 => b <= 252 /\ b \in 0..255
BY DEF Byte, Announced

(* What bytes stand for is a number of 64 bits.                             *)
LEMMA WideIsNumber == ASSUME NEW a \in Seq(Byte) PROVE Wide(a) \in U64
<1>1. Len(a) \in Nat /\ \A i \in 1..Len(a) : a[i] \in Byte
    BY LenProperties, ElementOfSeq
<1>2. 0 \in Byte
    BY DEF Byte
<1>3. \A i \in 1..8 : (IF i <= Len(a) THEN a[i] ELSE 0) \in Byte
    BY <1>1, <1>2
<1> QED BY <1>3 DEF Wide, U64

(* No number has a second form: what is accepted is what serialize writes,   *)
(* so that a wallet read and written again has the bytes it had            *)
(* (VarInt::deserialize refuses every form but the shortest).               *)
THEOREM VarIntCanonical ==
    \A s \in Seq(Nat) : deserialize(s).ok =>
        /\ deserialize(s).value \in U64
        /\ s = serialize(deserialize(s).value) \o deserialize(s).rest
<1> SUFFICES ASSUME NEW s \in Seq(Nat), deserialize(s).ok
             PROVE  /\ deserialize(s).value \in U64
                    /\ s = serialize(deserialize(s).value) \o deserialize(s).rest
    OBVIOUS
<1> DEFINE w == Announced(s[1])
           r1 == ReadExact(s, 1)
           r2 == ReadExact(Tail(s), w)
           x == Wide(IF w = 0 THEN r1.value ELSE r2.value)
<1>1. /\ r1.ok /\ r2.ok /\ ~NonMinimal(x, w)
      /\ deserialize(s) = Done(x, r2.rest)
    BY DEF deserialize, Failed
<1>2. r1.value \in Seq(Byte) /\ Len(r1.value) = 1 /\ r1.rest \in Seq(Nat) /\ s = r1.value \o r1.rest
    BY <1>1, Taken
<1>3. s[1] \in Byte /\ r1.value = << s[1] >>
    BY <1>1, <1>2 DEF ReadExact, Done, Failed
<1>4. Tail(s) = r1.rest
    BY <1>1, <1>2 DEF ReadExact, Done, Failed
<1>5. w \in {0, 2, 4, 8}
    BY DEF Announced
<1>6. r2.value \in Seq(Byte) /\ Len(r2.value) = w /\ r2.rest \in Seq(Nat)
      /\ Tail(s) = r2.value \o r2.rest
    <2>1. Tail(s) \in Seq(Nat)
        BY <1>2, <1>4
    <2> HIDE DEF w
    <2>2. w \in Nat
        BY <1>5
    <2> QED BY <1>1, <2>1, <2>2, Taken
<1>7. s = << s[1] >> \o (r2.value \o r2.rest)
    BY <1>2, <1>3, <1>4, <1>6
<1> DEFINE v == r2.value
           rest == r2.rest
<1>8. s[1] \in Byte /\ v \in Seq(Byte) /\ Len(v) = w /\ rest \in Seq(Nat)
    BY <1>3, <1>6
<1>9. x = Wide(IF w = 0 THEN << s[1] >> ELSE v)
    BY <1>3
<1> HIDE DEF r1, r2, v, rest, x
<1>10. x \in U64
    <2> HIDE DEF w
    <2>1. CASE w = 0
        <3>1. x = Wide(<< s[1] >>)
            BY <1>9, <2>1
        <3>2. << s[1] >> \in Seq(Byte)
            BY <1>8
        <3> QED BY <3>1, <3>2, WideIsNumber
    <2>2. CASE w # 0
        <3>1. x = Wide(v)
            BY <1>9, <2>2
        <3> QED BY <1>8, <3>1, WideIsNumber
    <2> QED BY <2>1, <2>2
<1>12. x[1] \in 0..255
    BY <1>10 DEF U64, Byte
<1>11. s = serialize(x) \o rest
    <2>1. CASE w = 0
        <3>1. s[1] <= 252 /\ s[1] \in 0..255
            BY <1>8, <2>1, SmallAnnounceNothing, Zenon
        <3>2. x = Wide(<< s[1] >>)
            BY <1>9, <2>1
        <3>3. FitsIn(x, 1) /\ x[1] = s[1]
            BY <3>2 DEF Wide, FitsIn
        <3>4. serialize(x) = << s[1] >>
            BY <3>1, <3>3 DEF Width, serialize
        <3>5. v = << >> /\ v \o rest = rest
            BY <1>8, <2>1, EmptySeq, ConcatEmptySeq
        <3> QED BY <1>7, <3>4, <3>5 DEF v, rest
    <2>2. CASE w = 2
        <3>1. s[1] = 253
            BY <2>2 DEF Announced
        <3>2. x = Wide(v)
            BY <1>9, <2>2
        <3>3. FitsIn(x, 2) /\ ~NonMinimal(x, 2)
            BY <1>1, <1>8, <2>2, <3>2 DEF Wide, FitsIn
        <3>4. Width(x) = 2
            <4>1. \A n \in 0..255 : n <= 252 => n < 253
                OBVIOUS
            <4>2. x[1] <= 252 => x[1] < 253
                BY <1>12, <4>1, Zenon
            <4>3. ~(FitsIn(x, 1) /\ x[1] <= 252)
                BY <3>3, <4>2 DEF NonMinimal
            <4> QED BY <3>3, <4>3 DEF Width
        <3>5. v = << x[1], x[2] >>
            BY <1>8, <2>2, <3>2 DEF Wide
        <3>6. serialize(x) = << 253 >> \o v
            BY <3>4, <3>5 DEF serialize
        <3>7. << 253 >> \in Seq(Nat) /\ v \in Seq(Nat)
            BY <1>8, BytesAreNumbers
        <3>8. (<< 253 >> \o v) \o rest = << 253 >> \o (v \o rest)
            BY <1>8, <3>7, ConcatAssociative
        <3> QED BY <1>7, <3>1, <3>6, <3>8 DEF v, rest
    <2>3. CASE w = 4
        <3>1. s[1] = 254
            BY <2>3 DEF Announced
        <3>2. x = Wide(v)
            BY <1>9, <2>3
        <3>3. FitsIn(x, 4) /\ ~NonMinimal(x, 4)
            BY <1>1, <1>8, <2>3, <3>2 DEF Wide, FitsIn
        <3>4. Width(x) = 4
            BY <3>3, <1>12 DEF Width, NonMinimal, FitsIn
        <3>5. v = << x[1], x[2], x[3], x[4] >>
            BY <1>8, <2>3, <3>2 DEF Wide
        <3>6. serialize(x) = << 254 >> \o v
            BY <3>4, <3>5 DEF serialize
        <3>7. << 254 >> \in Seq(Nat) /\ v \in Seq(Nat)
            BY <1>8, BytesAreNumbers
        <3>8. (<< 254 >> \o v) \o rest = << 254 >> \o (v \o rest)
            BY <1>8, <3>7, ConcatAssociative
        <3> QED BY <1>7, <3>1, <3>6, <3>8 DEF v, rest
    <2>4. CASE w = 8
        <3>1. s[1] = 255
            BY <2>4 DEF Announced
        <3>2. x = Wide(v)
            BY <1>9, <2>4
        <3>3. ~NonMinimal(x, 8)
            BY <1>1, <1>8, <2>4, <3>2 DEF Wide, FitsIn
        <3>4. Width(x) = 8
            BY <3>3, <1>12 DEF Width, NonMinimal, FitsIn
        <3>5. v = << x[1], x[2], x[3], x[4], x[5], x[6], x[7], x[8] >>
            BY <1>8, <2>4, <3>2 DEF Wide
        <3>6. serialize(x) = << 255 >> \o v
            BY <3>4, <3>5 DEF serialize
        <3>7. << 255 >> \in Seq(Nat) /\ v \in Seq(Nat)
            BY <1>8, BytesAreNumbers
        <3>8. (<< 255 >> \o v) \o rest = << 255 >> \o (v \o rest)
            BY <1>8, <3>7, ConcatAssociative
        <3> QED BY <1>7, <3>1, <3>6, <3>8 DEF v, rest
    <2> QED BY <1>5, <2>1, <2>2, <2>3, <2>4
<1> QED BY <1>1, <1>10, <1>11 DEF Done, rest

---------------------------------------------------------------------------
(* Every part of the compact format, read as it was written.                *)

---------------------------------------------------------------------------
(* Numbers, tags and blocks.                                                *)

\* A byte is a number below 256.
LEMMA BytesAre == \A b : b \in Byte <=> b \in Nat /\ b < 256
BY DEF Byte

\* What a number is written as is a stream.
LEMMA NumbersAreStreams == ASSUME NEW x \in U64 PROVE serialize(x) \in Stream
<1>1. \A i \in 1..8 : x[i] \in Nat
  BY BytesAre DEF U64
<1>2. /\ x[1] \in Nat /\ x[2] \in Nat /\ x[3] \in Nat /\ x[4] \in Nat
      /\ x[5] \in Nat /\ x[6] \in Nat /\ x[7] \in Nat /\ x[8] \in Nat
  BY <1>1
<1>3. CASE Width(x) = 0
  BY <1>2, <1>3 DEF serialize, Stream
<1>4. CASE Width(x) = 2
  BY <1>2, <1>4 DEF serialize, Stream
<1>5. CASE Width(x) = 4
  BY <1>2, <1>5 DEF serialize, Stream
<1>6. CASE Width(x) = 8
  BY <1>2, <1>6 DEF serialize, Stream
<1> QED
  BY <1>3, <1>4, <1>5, <1>6 DEF Width

\* Streams after each other are a stream, and it does not matter which two are joined first.
LEMMA StreamsJoin ==
    /\ \A s, t \in Stream : s \o t \in Stream
    /\ \A s, t, u \in Stream : (s \o t) \o u = s \o (t \o u)
BY ConcatProperties, ConcatAssociative DEF Stream

\* Joining under a name of its own, so that long streams are taken apart by these facts only.
Cat(s, t) == s \o t

LEMMA CatJoins ==
    /\ \A s, t \in Stream : Cat(s, t) \in Stream
    /\ \A s, t, u \in Stream : Cat(Cat(s, t), u) = Cat(s, Cat(t, u))
BY StreamsJoin DEF Cat

\* Three streams, and what follows them.
LEMMA ThreeParts ==
    ASSUME NEW a \in Stream, NEW b \in Stream, NEW c \in Stream, NEW rest \in Stream
    PROVE  /\ Cat(Cat(a, b), c) \in Stream
           /\ Cat(c, rest) \in Stream /\ Cat(b, Cat(c, rest)) \in Stream
           /\ Cat(Cat(Cat(a, b), c), rest) = Cat(a, Cat(b, Cat(c, rest)))
BY CatJoins

\* A number of at most two bytes is made of them.
LEMMA NumberOfTwoBytes ==
    ASSUME NEW n \in Length
    PROVE  /\ Number(n) \in U64 /\ FitsIn(Number(n), 2)
           /\ Number(n)[1] + 256 * Number(n)[2] = n
           /\ n \in Byte => FitsIn(Number(n), 1) /\ Number(n)[1] = n
<1> DEFINE b == << n % 256, n \div 256 >>
<1>0. n \in Nat /\ n < 65536
  BY DEF Length
<1>1. /\ n % 256 \in Nat /\ n % 256 < 256 /\ n \div 256 \in Nat /\ n \div 256 < 256
      /\ (n % 256) + 256 * (n \div 256) = n
  BY <1>0
<1>2. n < 256 => n % 256 = n /\ n \div 256 = 0
  BY <1>0
<1>3. Number(n) = [i \in 1..8 |-> IF i <= 2 THEN b[i] ELSE 0]
  BY DEF Number, Wide
<1>b. b[1] = n % 256 /\ b[2] = n \div 256
  OBVIOUS
<1> HIDE DEF b
<1>4. /\ Number(n)[1] = n % 256 /\ Number(n)[2] = n \div 256
      /\ \A i \in 3..8 : Number(n)[i] = 0
  <2>1. \A i \in 1..8 : Number(n)[i] = IF i <= 2 THEN b[i] ELSE 0
    BY <1>3
  <2>2. ASSUME NEW i \in 3..8 PROVE Number(n)[i] = 0
    <3>1. i \in 1..8 /\ ~(i <= 2)
      OBVIOUS
    <3> QED
      BY <2>1, <3>1
  <2> QED
    BY <1>b, <2>1, <2>2
<1>5. Number(n) \in U64
  <2>1. \A i \in 1..8 : i <= 2 => i = 1 \/ i = 2
    OBVIOUS
  <2>2. \A i \in 1..8 : (IF i <= 2 THEN b[i] ELSE 0) \in Byte
    BY <1>1, <1>b, <2>1, BytesAre
  <2> QED
    BY <1>3, <2>2 DEF U64
<1>6. FitsIn(Number(n), 2)
  BY <1>4 DEF FitsIn
<1>7. n < 256 => FitsIn(Number(n), 1)
  BY <1>2, <1>4 DEF FitsIn
<1> QED
  BY <1>1, <1>2, <1>4, <1>5, <1>6, <1>7, BytesAre

\* What was written is read.
LEMMA ReadsWritten ==
    ASSUME NEW x \in U64, NEW rest \in Stream
    PROVE  deserialize(serialize(x) \o rest) = Done(x, rest)
BY VarIntRoundTrip, Zenon DEF Stream

\* A length is read as it was written.
LEMMA ReadsLength ==
    ASSUME NEW n \in Length, NEW rest \in Stream
    PROVE  ReadLength(serialize(Number(n)) \o rest) = Done(n, rest)
<1>1. deserialize(serialize(Number(n)) \o rest) = Done(Number(n), rest)
  BY ReadsWritten, NumberOfTwoBytes
<1> DEFINE v == Number(n)
           d == deserialize(serialize(Number(n)) \o rest)
<1>2. FitsIn(v, 2) /\ v[1] + 256 * v[2] = n
  BY NumberOfTwoBytes
<1>3. d.ok /\ d.value = v /\ d.rest = rest
  BY <1>1 DEF Done
<1>4. ReadLength(serialize(Number(n)) \o rest)
        = IF ~d.ok \/ ~FitsIn(d.value, 2) THEN Failed
          ELSE Done(d.value[1] + 256 * d.value[2], d.rest)
  BY SMT DEF ReadLength, LengthOf
<1> HIDE DEF v, d
<1> QED
  BY <1>2, <1>3, <1>4, SMT

\* So is a tag.
LEMMA ReadsTag ==
    ASSUME NEW n \in Nat, NEW tag \in Byte, tag < n, NEW rest \in Stream
    PROVE  ReadTag(serialize(Number(tag)) \o rest, n) = Done(tag, rest)
<1>0. tag \in Length /\ ~(tag >= n)
  BY BytesAre DEF Length
<1>1. deserialize(serialize(Number(tag)) \o rest) = Done(Number(tag), rest)
  BY <1>0, ReadsWritten, NumberOfTwoBytes
<1>2. FitsIn(Number(tag), 1) /\ Number(tag)[1] = tag
  BY <1>0, NumberOfTwoBytes
<1> DEFINE v == Number(tag)
           d == deserialize(serialize(Number(tag)) \o rest)
<1>3. d.ok /\ d.value = v /\ d.rest = rest
  BY <1>1 DEF Done
<1>4. ReadTag(serialize(Number(tag)) \o rest, n)
        = IF ~d.ok \/ ~FitsIn(d.value, 1) \/ d.value[1] >= n THEN Failed
          ELSE Done(d.value[1], d.rest)
  BY SMT DEF ReadTag, TagOf
<1>5. FitsIn(v, 1) /\ v[1] = tag
  BY <1>2
<1> HIDE DEF v, d
<1> QED
  BY <1>0, <1>3, <1>4, <1>5, SMT

\* So is what the libraries write in one piece.
LEMMA ReadsBlock ==
    ASSUME NEW S, NEW b \in S, b \in Nat, NEW rest \in Stream
    PROVE  ReadBlock(S, << b >> \o rest) = Done(b, rest)
<1>1. Len(<< b >> \o rest) = 1 + Len(rest) /\ Len(rest) \in Nat
  BY ConcatProperties DEF Stream
<1>2. (<< b >> \o rest)[1] = b
  BY ConcatProperties DEF Stream
<1>3. Tail(<< b >> \o rest) = rest
  BY DEF Stream
<1>4. << b >> \o rest # << >>
  BY <1>1
<1> QED
  BY <1>2, <1>3, <1>4 DEF ReadBlock

---------------------------------------------------------------------------
(* Many things, one after the other.                                        *)

\* One more thing read after some.
NextRead(Read, before) == OneMore(before, Read[before.rest])

\* f[i] is what has been read after i things.
Reads(Read, f, n, s) ==
    f = [i \in 0..n |-> IF i = 0 THEN Done(<< >>, s) ELSE NextRead(Read, f[i - 1])]

\* The readings of the first n things, one after the other, exist as a function.
LEMMA ReadsExist ==
    ASSUME NEW Read, NEW s, NEW n \in Nat
    PROVE  \E f : Reads(Read, f, n, s)
<1> DEFINE G(f, i) == IF i = 0 THEN Done(<< >>, s) ELSE NextRead(Read, f[i - 1])
           N == {k \in Nat : \E f : f = [i \in 0..k |-> G(f, i)]}
<1>1. 0 \in N
  <2> DEFINE f == [i \in 0..0 |-> Done(<< >>, s)]
  <2>1. f = [i \in 0..0 |-> G(f, i)]
    OBVIOUS
  <2> HIDE DEF f, G
  <2> QED
    BY <2>1
<1>2. ASSUME NEW k \in Nat, k \in N PROVE k + 1 \in N
  <2>1. PICK f : f = [i \in 0..k |-> G(f, i)]
    BY <1>2
  <2>0. \A i \in 0..k : f[i] = G(f, i)
    <3> HIDE DEF G
    <3> QED
      BY <2>1
  <2> DEFINE g == [i \in 0..(k + 1) |-> IF i = k + 1 THEN G(f, i) ELSE f[i]]
  <2>2. ASSUME NEW i \in 0..(k + 1) PROVE g[i] = G(g, i)
    <3>1. i # 0 => i - 1 \in 0..k /\ g[i - 1] = f[i - 1]
      OBVIOUS
    <3>2. G(g, i) = G(f, i)
      BY <3>1
    <3>3. i # k + 1 => i \in 0..k /\ f[i] = G(f, i)
      <4>1. i # k + 1 => i \in 0..k
        OBVIOUS
      <4> HIDE DEF G
      <4> QED
        BY <2>0, <4>1
    <3> QED
      BY <3>2, <3>3
  <2>3. g = [i \in 0..(k + 1) |-> G(g, i)]
    <3> HIDE DEF G
    <3> QED
      BY <2>2
  <2> HIDE DEF g, G
  <2> QED
    BY <2>3
<1>3. n \in N
  <2> HIDE DEF N
  <2> QED
    BY <1>1, <1>2, InductionOnNat
<1> QED
  BY <1>3 DEF Reads

\* Two such functions agree as far as both go.
LEMMA ReadsAgree ==
    ASSUME NEW Read, NEW s, NEW n \in Nat, NEW m \in Nat, NEW f, NEW g,
           Reads(Read, f, n, s), Reads(Read, g, m, s)
    PROVE  \A i \in Nat : i <= n /\ i <= m => f[i] = g[i]
<1>1. \A i \in 0..n : f[i] = IF i = 0 THEN Done(<< >>, s) ELSE NextRead(Read, f[i - 1])
  BY DEF Reads
<1>2. \A i \in 0..m : g[i] = IF i = 0 THEN Done(<< >>, s) ELSE NextRead(Read, g[i - 1])
  BY DEF Reads
<1> DEFINE N == {i \in Nat : i <= n /\ i <= m => f[i] = g[i]}
<1>3. 0 \in N
  BY <1>1, <1>2
<1>4. ASSUME NEW i \in Nat, i \in N PROVE i + 1 \in N
  <2> SUFFICES ASSUME i + 1 <= n, i + 1 <= m PROVE f[i + 1] = g[i + 1]
    OBVIOUS
  <2>1. f[i] = g[i]
    BY <1>4
  <2>2. i + 1 \in 0..n /\ i + 1 \in 0..m /\ i + 1 # 0 /\ (i + 1) - 1 = i
    OBVIOUS
  <2>3. f[i + 1] = NextRead(Read, f[i])
    BY <1>1, <2>2
  <2>4. g[i + 1] = NextRead(Read, g[i])
    BY <1>2, <2>2
  <2> QED
    BY <2>1, <2>3, <2>4
<1>5. Nat \subseteq N
  <2> HIDE DEF N
  <2> QED
    BY <1>3, <1>4, InductionOnNat
<1> QED
  BY <1>5

\* Reading one thing more is reading one thing after all the others.
LEMMA ReadManySteps ==
    ASSUME NEW Read, NEW s
    PROVE  /\ ReadMany(Read, 0, s) = Done(<< >>, s)
           /\ \A n \in Nat : ReadMany(Read, n + 1, s) = NextRead(Read, ReadMany(Read, n, s))
<1> DEFINE Way(n) == CHOOSE f : Reads(Read, f, n, s)
<1>1. ASSUME NEW n \in Nat PROVE Reads(Read, Way(n), n, s)
  BY ReadsExist
<1>2. ASSUME NEW n \in Nat PROVE ReadMany(Read, n, s) = Way(n)[n]
  BY DEF ReadMany, Reads, NextRead
<1>3. ReadMany(Read, 0, s) = Done(<< >>, s)
  <2>1. Reads(Read, Way(0), 0, s) /\ ReadMany(Read, 0, s) = Way(0)[0]
    BY <1>1, <1>2
  <2> HIDE DEF Way
  <2> QED
    BY <2>1 DEF Reads
<1>4. ASSUME NEW n \in Nat
      PROVE  ReadMany(Read, n + 1, s) = NextRead(Read, ReadMany(Read, n, s))
  <2>1. Reads(Read, Way(n), n, s) /\ Reads(Read, Way(n + 1), n + 1, s)
    BY <1>1
  <2> HIDE DEF Way
  <2>2. n <= n /\ n <= n + 1 /\ n + 1 \in Nat
    OBVIOUS
  <2>3. Way(n + 1)[n] = Way(n)[n]
    BY <2>1, <2>2, ReadsAgree
  <2>4. Way(n + 1)[n + 1] = NextRead(Read, Way(n + 1)[n])
    BY <2>1 DEF Reads
  <2> QED
    BY <1>2, <2>2, <2>3, <2>4
<1> QED
  BY <1>3, <1>4

\* Things that are each read as they were written are so one after the other.
LEMMA ReadsMany ==
    ASSUME NEW Read, NEW S, NEW values \in Seq(S), NEW parts \in [DOMAIN values -> Stream],
           \A i \in DOMAIN values, rest \in Stream :
                Read[parts[i] \o rest] = Done(values[i], rest)
    PROVE  /\ FlattenSeq(parts) \in Stream
           /\ \A rest \in Stream :
                ReadMany(Read, Len(values), FlattenSeq(parts) \o rest) = Done(values, rest)
<1>0. PICK n \in Nat : n = Len(values)
  OBVIOUS
<1>3. DOMAIN values = 1..n
  BY <1>0
<1>4. values \in [1..n -> S]
  BY <1>0
<1>5. parts \in [1..n -> Stream]
  BY <1>3
<1>6. \A i \in 1..n, rest \in Stream : Read[parts[i] \o rest] = Done(values[i], rest)
  BY <1>3
<1>1. CASE n = 0
  <2>1. parts = << >> /\ values = << >> /\ Len(parts) = 0
    BY <1>1, <1>4, <1>5
  <2>2. FlattenSeq(parts) = << >>
    BY <2>1 DEF FlattenSeq
  <2>3. << >> \in Stream /\ \A rest \in Stream : << >> \o rest = rest
    BY ConcatEmptySeq DEF Stream
  <2> QED
    <3>1. ASSUME NEW rest \in Stream
          PROVE  ReadMany(Read, n, FlattenSeq(parts) \o rest) = Done(values, rest)
      <4>1. FlattenSeq(parts) \o rest = rest
        BY <2>2, <2>3
      <4>2. ReadMany(Read, 0, rest) = Done(<< >>, rest)
        BY ReadManySteps
      <4> QED
        BY <1>1, <2>1, <4>1, <4>2
    <3> QED
      BY <1>0, <2>2, <2>3, <3>1
<1>2. CASE n # 0
  <2>1. PICK f \in [1..n -> Stream] : FlattenSeq(parts) = f[n] /\ Flattens(f, parts, n)
    BY <1>2, <1>5, FlattenSteps DEF Stream
  <2>2. f[1] = parts[1] /\ \A i \in 2..n : f[i] = f[i - 1] \o parts[i]
    BY <2>1 DEF Flattens
  <2> DEFINE first(k) == [i \in 1..k |-> values[i]]
             N == {k \in Nat : k \in 1..n =>
                    \A rest \in Stream : ReadMany(Read, k, f[k] \o rest) = Done(first(k), rest)}
  <2>3. 0 \in N
    OBVIOUS
  <2>4. ASSUME NEW k \in Nat, k \in N PROVE k + 1 \in N
    <3> SUFFICES ASSUME k + 1 \in 1..n, NEW rest \in Stream
                 PROVE  ReadMany(Read, k + 1, f[k + 1] \o rest) = Done(first(k + 1), rest)
      OBVIOUS
    <3> DEFINE later == parts[k + 1] \o rest
    <3>1. later \in Stream
      BY <1>5, StreamsJoin
    <3>2. Read[later] = Done(values[k + 1], rest)
      BY <1>6
    <3>3. ReadMany(Read, k, f[k + 1] \o rest) = Done(first(k), later)
      <4>1. CASE k = 0
        <5>0. k + 1 = 1
          BY <4>1
        <5>1. f[k + 1] \o rest = later
          BY <2>2, <5>0
        <5>2. first(k) = << >>
          BY <4>1
        <5> QED
          BY <4>1, <5>1, <5>2, ReadManySteps
      <4>2. CASE k # 0
        <5>1. k \in 1..n /\ k + 1 \in 2..n /\ (k + 1) - 1 = k
          BY <4>2
        <5>2. f[k + 1] = f[k] \o parts[k + 1]
          BY <2>2, <5>1
        <5>3. f[k + 1] \o rest = f[k] \o later
          <6>1. f[k] \in Stream /\ parts[k + 1] \in Stream
            BY <1>5, <5>1
          <6>2. (f[k] \o parts[k + 1]) \o rest = f[k] \o (parts[k + 1] \o rest)
            BY <6>1, StreamsJoin, Zenon
          <6> QED
            BY <5>2, <6>2
        <5>4. ReadMany(Read, k, f[k] \o later) = Done(first(k), later)
          BY <2>4, <3>1, <5>1
        <5> QED
          BY <5>3, <5>4
      <4> QED
        BY <4>1, <4>2
    <3>4. Append(first(k), values[k + 1]) = first(k + 1)
      <4>1. first(k) \in Seq(S) /\ Len(first(k)) = k
        BY <1>4
      <4>2. first(k + 1) \in Seq(S) /\ Len(first(k + 1)) = k + 1
        BY <1>4
      <4> QED
        BY <4>1, <4>2
    <3>5. ReadMany(Read, k + 1, f[k + 1] \o rest)
            = NextRead(Read, ReadMany(Read, k, f[k + 1] \o rest))
      BY ReadManySteps
    <3> DEFINE before == Done(first(k), later)
               next == Done(values[k + 1], rest)
    <3>6. NextRead(Read, before) = Done(Append(first(k), values[k + 1]), rest)
      <4>1. before.ok /\ before.value = first(k) /\ before.rest = later
        BY DEF Done
      <4>2. Read[before.rest] = next
        BY <3>2, <4>1
      <4>3. next.ok /\ next.value = values[k + 1] /\ next.rest = rest
        BY DEF Done
      <4> HIDE DEF before, next, later, first
      <4> QED
        BY <4>1, <4>2, <4>3 DEF NextRead, OneMore
    <3> QED
      BY <3>3, <3>4, <3>5, <3>6
  <2>5. n \in N
    <3> HIDE DEF N
    <3> QED
      BY <2>3, <2>4, InductionOnNat
  <2>6. first(n) = values
    BY <1>4
  <2> QED
    BY <1>0, <1>2, <2>1, <2>5, <2>6
<1> QED
  BY <1>1, <1>2

\* So is a vector of them, which begins with their number.
LEMMA ReadsVector ==
    ASSUME NEW Read, NEW S, NEW values \in Seq(S), Len(values) \in Length,
           NEW parts \in [DOMAIN values -> Stream],
           \A i \in DOMAIN values, rest \in Stream :
                Read[parts[i] \o rest] = Done(values[i], rest)
    PROVE  /\ WriteVector(parts) \in Stream
           /\ \A rest \in Stream : ReadVector(Read, WriteVector(parts) \o rest) = Done(values, rest)
<1> DEFINE n == Len(values)
<1>1. /\ FlattenSeq(parts) \in Stream
      /\ \A rest \in Stream : ReadMany(Read, n, FlattenSeq(parts) \o rest) = Done(values, rest)
  BY ReadsMany, Zenon
<1>2. DOMAIN values = 1..n /\ n \in Nat
  OBVIOUS
<1>3. Len(parts) = n
  BY <1>2
<1>0. n \in Length
  OBVIOUS
<1> HIDE DEF n
<1>4. serialize(Number(n)) \in Stream
  BY <1>0, NumberOfTwoBytes, NumbersAreStreams
<1>5. WriteVector(parts) \in Stream
  BY <1>1, <1>3, <1>4, StreamsJoin DEF WriteVector
<1>6. ASSUME NEW rest \in Stream
      PROVE  ReadVector(Read, WriteVector(parts) \o rest) = Done(values, rest)
  <2>1. WriteVector(parts) \o rest = serialize(Number(n)) \o (FlattenSeq(parts) \o rest)
    BY <1>1, <1>3, <1>4, StreamsJoin DEF WriteVector
  <2>2. FlattenSeq(parts) \o rest \in Stream
    BY <1>1, StreamsJoin
  <2>3. ReadLength(WriteVector(parts) \o rest) = Done(n, FlattenSeq(parts) \o rest)
    BY <1>0, <2>1, <2>2, ReadsLength
  <2> QED
    BY <1>1, <2>3 DEF ReadVector, VectorOf, Done
<1> QED
  BY <1>5, <1>6

---------------------------------------------------------------------------
(* Paths, origins and keys.                                                 *)

\* A child is a u32, and comes back from it.
LEMMA ChildOfNumber ==
    ASSUME NEW c \in Child
    PROVE  /\ FromChild(c) \in U64 /\ FitsIn(FromChild(c), 4)
           /\ ToChild(FromChild(c)) = c
<1> DEFINE i == c.index
           h == IF c.hardened THEN 128 ELSE 0
           b == << i % 256, (i \div 256) % 256, (i \div 65536) % 256, i \div 16777216 + h >>
<1>1. i \in Nat /\ i <= 2147483647 /\ c.hardened \in BOOLEAN
  BY DEF Child
<1>2. c = [hardened |-> c.hardened, index |-> i]
  BY DEF Child
<1>3. /\ i % 256 \in Nat /\ i % 256 < 256
      /\ (i \div 256) % 256 \in Nat /\ (i \div 256) % 256 < 256
      /\ (i \div 65536) % 256 \in Nat /\ (i \div 65536) % 256 < 256
      /\ i \div 16777216 \in Nat /\ i \div 16777216 < 128
  <2> HIDE DEF i
  <2> QED
    BY <1>1, SMT
<1>4. i = (i % 256) + 256 * ((i \div 256) % 256) + 65536 * ((i \div 65536) % 256)
            + 16777216 * (i \div 16777216)
  <2> HIDE DEF i
  <2> QED
    BY <1>1, SMT
<1>5. /\ h \in {0, 128} /\ (h = 128 <=> c.hardened)
      /\ i \div 16777216 + h \in Nat /\ i \div 16777216 + h < 256
      /\ (i \div 16777216 + h >= 128 <=> c.hardened)
      /\ (i \div 16777216 + h) % 128 = i \div 16777216
  <2>1. h \in {0, 128} /\ (h = 128 <=> c.hardened)
    BY <1>1
  <2> HIDE DEF i, h
  <2> QED
    BY <1>3, <2>1, SMT
<1>6. FromChild(c) = [k \in 1..8 |-> IF k <= 4 THEN b[k] ELSE 0]
  BY SMT DEF FromChild, Wide
<1>7. /\ b[1] = i % 256 /\ b[2] = (i \div 256) % 256 /\ b[3] = (i \div 65536) % 256
      /\ b[4] = i \div 16777216 + h
  BY SMT
<1> HIDE DEF i, h, b
<1>8. /\ FromChild(c)[1] = b[1] /\ FromChild(c)[2] = b[2] /\ FromChild(c)[3] = b[3]
      /\ FromChild(c)[4] = b[4] /\ \A k \in 1..8 : k > 4 => FromChild(c)[k] = 0
  BY <1>6, SMT
<1>9. FitsIn(FromChild(c), 4)
  BY <1>8 DEF FitsIn
<1>10. FromChild(c) \in U64
  <2>1. b[1] \in Byte /\ b[2] \in Byte /\ b[3] \in Byte /\ b[4] \in Byte /\ 0 \in Byte
    BY <1>3, <1>5, <1>7, BytesAre, SMT
  <2>2. \A k \in 1..8 : (IF k <= 4 THEN b[k] ELSE 0) \in Byte
    BY <2>1
  <2> QED
    BY <1>6, <2>2 DEF U64
<1>11. ToChild(FromChild(c)) = [hardened |-> b[4] >= 128,
                                index |-> b[1] + 256 * b[2] + 65536 * b[3] + 16777216 * (b[4] % 128)]
  BY <1>8, SMT DEF ToChild
<1>12. b[4] >= 128 <=> c.hardened
  BY <1>5, <1>7, SMT
<1>13. b[1] + 256 * b[2] + 65536 * b[3] + 16777216 * (b[4] % 128) = i
  BY <1>4, <1>5, <1>7, SMT
<1>14. (b[4] >= 128) = c.hardened
  BY <1>1, <1>12, SMT
<1> QED
  BY <1>2, <1>9, <1>10, <1>11, <1>13, <1>14, SMT

\* It is read as it was written.
LEMMA ReadsChild ==
    ASSUME NEW c \in Child
    PROVE  /\ serialize(FromChild(c)) \in Stream
           /\ \A rest \in Stream : ReadChild(serialize(FromChild(c)) \o rest) = Done(c, rest)
<1> DEFINE x == FromChild(c)
<1>1. x \in U64 /\ FitsIn(x, 4) /\ ToChild(x) = c
  BY ChildOfNumber
<1> HIDE DEF x
<1>2. ASSUME NEW rest \in Stream PROVE ReadChild(serialize(x) \o rest) = Done(c, rest)
  <2> DEFINE d == deserialize(serialize(x) \o rest)
  <2>1. d = Done(x, rest)
    BY <1>1, ReadsWritten
  <2>2. d.ok /\ d.value = x /\ d.rest = rest
    BY <2>1 DEF Done
  <2>3. ReadChild(serialize(x) \o rest)
          = IF ~d.ok \/ ~FitsIn(d.value, 4) THEN Failed ELSE Done(ToChild(d.value), d.rest)
    BY DEF ReadChild, ChildOf
  <2> HIDE DEF d
  <2> QED
    BY <1>1, <2>2, <2>3
<1> QED
  BY <1>1, <1>2, NumbersAreStreams DEF x

\* So is a path, the empty one too.
LEMMA ReadsPath ==
    ASSUME NEW p \in Path
    PROVE  /\ serialize_derivation_path(p) \in Stream
           /\ \A rest \in Stream :
                deserialize_derivation_path(serialize_derivation_path(p) \o rest) = Done(p, rest)
<1> DEFINE Read == [t \in Stream |-> ReadChild(t)]
           parts == [i \in DOMAIN p |-> serialize(FromChild(p[i]))]
<1>1. p \in Seq(Child) /\ Len(p) \in Length
  BY DEF Path
<1>2. \A i \in DOMAIN p : p[i] \in Child
  BY <1>1
<1>3. parts \in [DOMAIN p -> Stream]
  BY <1>2, ReadsChild
<1>4. ASSUME NEW i \in DOMAIN p, NEW rest \in Stream
      PROVE  Read[parts[i] \o rest] = Done(p[i], rest)
  <2>1. parts[i] = serialize(FromChild(p[i])) /\ parts[i] \in Stream
    BY <1>3
  <2>2. parts[i] \o rest \in Stream
    BY <2>1, StreamsJoin
  <2>3. ReadChild(parts[i] \o rest) = Done(p[i], rest)
    BY <1>2, <2>1, ReadsChild
  <2> QED
    BY <2>2, <2>3
<1> HIDE DEF Read, parts
<1>5. /\ WriteVector(parts) \in Stream
      /\ \A rest \in Stream : ReadVector(Read, WriteVector(parts) \o rest) = Done(p, rest)
  BY <1>1, <1>3, <1>4, ReadsVector, Zenon
<1> QED
  BY <1>5, Zenon DEF Read, parts, serialize_derivation_path, deserialize_derivation_path

\* So are the paths of a key with several, if there are any.
LEMMA ReadsPaths ==
    ASSUME NEW ps \in Paths
    PROVE  /\ serialize_derivation_paths(ps) \in Stream
           /\ \A rest \in Stream :
                deserialize_derivation_paths(serialize_derivation_paths(ps) \o rest)
                    = Done(ps, rest)
<1> DEFINE Read == [t \in Stream |-> deserialize_derivation_path(t)]
           parts == [i \in DOMAIN ps |-> serialize_derivation_path(ps[i])]
<1>0. ps # << >>
  BY DEF Paths
<1>1. ps \in Seq(Path) /\ Len(ps) \in Length
  BY DEF Paths
<1>2. \A i \in DOMAIN ps : ps[i] \in Path
  BY <1>1
<1>3. parts \in [DOMAIN ps -> Stream]
  BY <1>2, ReadsPath
<1>4. ASSUME NEW i \in DOMAIN ps, NEW rest \in Stream
      PROVE  Read[parts[i] \o rest] = Done(ps[i], rest)
  <2>1. parts[i] = serialize_derivation_path(ps[i]) /\ parts[i] \in Stream
    BY <1>3
  <2>2. parts[i] \o rest \in Stream
    BY <2>1, StreamsJoin
  <2>3. deserialize_derivation_path(parts[i] \o rest) = Done(ps[i], rest)
    BY <1>2, <2>1, ReadsPath
  <2> QED
    BY <2>2, <2>3
<1> HIDE DEF Read, parts
<1>5. /\ WriteVector(parts) \in Stream
      /\ \A rest \in Stream : ReadVector(Read, WriteVector(parts) \o rest) = Done(ps, rest)
  BY <1>1, <1>3, <1>4, ReadsVector, Zenon
<1>6. serialize_derivation_paths(ps) = WriteVector(parts)
  BY DEF parts, serialize_derivation_paths
<1>7. ASSUME NEW rest \in Stream
      PROVE  deserialize_derivation_paths(WriteVector(parts) \o rest) = Done(ps, rest)
  <2> DEFINE d == ReadVector(Read, WriteVector(parts) \o rest)
  <2>1. d = Done(ps, rest)
    BY <1>5
  <2>2. deserialize_derivation_paths(WriteVector(parts) \o rest)
          = IF d.ok /\ d.value = << >> THEN Failed ELSE d
    BY DEF Read, deserialize_derivation_paths
  <2> HIDE DEF d
  <2> QED
    BY <1>0, <2>1, <2>2 DEF Done
<1> QED
  BY <1>5, <1>6, <1>7

\* So is an origin, where there is one and where there is none.
LEMMA ReadsOrigin ==
    ASSUME NEW o \in Origin
    PROVE  /\ serialize_opt_origin(o) \in Stream
           /\ \A rest \in Stream :
                deserialize_opt_origin(serialize_opt_origin(o) \o rest) = Done(o, rest)
<1>0. 0 \in Byte /\ 1 \in Byte /\ 0 \in Length /\ 1 \in Length
  BY BytesAre DEF Length
<1>1. serialize(Number(0)) \in Stream /\ serialize(Number(1)) \in Stream
  BY <1>0, NumberOfTwoBytes, NumbersAreStreams
<1>2. CASE o = << >>
  <2>1. serialize_opt_origin(o) = serialize(Number(0))
    BY <1>2 DEF serialize_opt_origin
  <2>2. ASSUME NEW rest \in Stream
        PROVE  deserialize_opt_origin(serialize(Number(0)) \o rest) = Done(o, rest)
    <3> DEFINE tag == ReadTag(serialize(Number(0)) \o rest, 2)
    <3>1. tag = Done(0, rest)
      BY <1>0, ReadsTag
    <3>2. tag.ok /\ tag.value = 0 /\ tag.rest = rest
      BY <3>1 DEF Done
    <3> QED
      BY <1>2, <3>2 DEF deserialize_opt_origin, OriginOf
  <2> QED
    BY <1>1, <2>1, <2>2
<1>3. CASE o # << >>
  <2> DEFINE f == o[1].fingerprint
             p == o[1].path
             path == serialize_derivation_path(p)
  <2>1. f \in Fingerprint /\ p \in Path /\ o = << [fingerprint |-> f, path |-> p] >>
    <3>1. o \in Seq([fingerprint : Fingerprint, path : Path]) /\ Len(o) <= 1
      BY DEF Origin
    <3> DEFINE D == [fingerprint : Fingerprint, path : Path]
    <3> HIDE DEF D
    <3>2. \A u \in Seq(D) : Len(u) <= 1 /\ u # << >> => u[1] \in D /\ u = << u[1] >>
      <4> SUFFICES ASSUME NEW u \in Seq(D), Len(u) <= 1, u # << >>
                   PROVE  u[1] \in D /\ u = << u[1] >>
        OBVIOUS
      <4>0. Len(u) \in Nat \ {0}
        BY EmptySeq, Zenon
      <4>1. Len(u) = 1
        <5>1. \A n \in Nat \ {0} : n <= 1 => n = 1
          OBVIOUS
        <5> QED
          BY <4>0, <5>1
      <4>2. u[1] \in D
        BY <4>1
      <4>3. << u[1] >> \in Seq(D) /\ Len(<< u[1] >>) = 1 /\ << u[1] >>[1] = u[1]
        BY <4>2
      <4> QED
        BY <4>1, <4>2, <4>3, SeqEqual
    <3>3. o[1] \in D /\ o = << o[1] >>
      BY <1>3, <3>1, <3>2 DEF D
    <3> QED
      BY <3>3 DEF D
  <2>2. f \in Nat /\ << f >> \in Stream
    BY <2>1, BlocksAreNotBytes DEF Stream
  <2> DEFINE one == serialize(Number(1))
             block == << f >>
  <2>3. serialize_opt_origin(o) = Cat(Cat(one, block), path)
    BY <1>3 DEF serialize_opt_origin, Cat
  <2> HIDE DEF f, p
  <2>4. path \in Stream
    BY <2>1, ReadsPath
  <2>6. one \in Stream /\ block \in Stream
    BY <1>1, <2>2
  <2> HIDE DEF one, block, path
  <2>5. ASSUME NEW rest \in Stream
        PROVE  deserialize_opt_origin(Cat(Cat(one, block), path) \o rest)
                 = Done(o, rest)
    <3> DEFINE s == Cat(Cat(one, block), path) \o rest
               r2 == Cat(path, rest)
               r1 == Cat(block, r2)
    <3>1. r2 \in Stream /\ r1 \in Stream /\ s = one \o r1
      <4>1. r2 \in Stream /\ r1 \in Stream /\ Cat(Cat(Cat(one, block), path), rest) = Cat(one, r1)
        BY <2>4, <2>6, ThreeParts
      <4> QED
        BY <4>1 DEF Cat
    <3> DEFINE tag == ReadTag(s, 2)
               fingerprint == ReadBlock(Fingerprint, tag.rest)
               read == deserialize_derivation_path(fingerprint.rest)
    <3>2. tag = Done(1, r1)
      <4> HIDE DEF s, r1
      <4> QED
        BY <1>0, <3>1, ReadsTag DEF one
    <3>3. fingerprint = Done(f, r2)
      <4>1. tag.rest = r1
        BY <3>2 DEF Done
      <4> HIDE DEF tag, r2
      <4> QED
        BY <2>1, <2>2, <3>1, <4>1, ReadsBlock DEF block, Cat
    <3>4. read = Done(p, rest)
      <4>1. fingerprint.rest = r2
        BY <3>3 DEF Done
      <4> HIDE DEF fingerprint
      <4> QED
        BY <2>1, <4>1, ReadsPath DEF path, Cat
    <3>5. deserialize_opt_origin(s)
            = IF ~tag.ok THEN Failed
              ELSE IF tag.value = 0 THEN Done(<< >>, tag.rest)
              ELSE IF ~fingerprint.ok \/ ~read.ok THEN Failed
              ELSE Done(<< [fingerprint |-> fingerprint.value, path |-> read.value] >>, read.rest)
      <4> HIDE DEF s
      <4> QED
        BY DEF deserialize_opt_origin, OriginOf
    <3>6. tag.ok /\ tag.value # 0
      BY <3>2 DEF Done
    <3>7. fingerprint.ok /\ fingerprint.value = f
      BY <3>3 DEF Done
    <3>8. read.ok /\ read.value = p /\ read.rest = rest
      BY <3>4 DEF Done
    <3> HIDE DEF tag, fingerprint, read, s
    <3>9. deserialize_opt_origin(s) = Done(o, rest)
      BY <2>1, <3>5, <3>6, <3>7, <3>8
    <3> QED
      BY <3>9 DEF s
  <2> QED
    <3>1. serialize_opt_origin(o) \in Stream
      BY <2>3, <2>4, <2>6, CatJoins
    <3> QED
      BY <2>3, <2>5, <3>1
<1> QED
  BY <1>2, <1>3

\* The version bytes of xpub and tpub are four, and tell the two apart.
LEMMA VersionBytes ==
    /\ \A n \in S132!NetworkKind : /\ S132!resolve(n, "Hashed", FALSE) \in Seq(Byte)
                                   /\ Len(S132!resolve(n, "Hashed", FALSE)) = 4
    /\ \A n, m \in S132!NetworkKind :
            S132!resolve(n, "Hashed", FALSE) = S132!resolve(m, "Hashed", FALSE) => n = m
<1> DEFINE xpub == << 4, 136, 178, 30 >>
           tpub == << 4, 53, 135, 207 >>
<1>1. /\ S132!resolve("Main", "Hashed", FALSE) = xpub
      /\ S132!resolve("Test", "Hashed", FALSE) = tpub
  BY SMT DEF S132!resolve, S132!VERSION_MAGIC
<1>2. 4 \in Byte /\ 136 \in Byte /\ 178 \in Byte /\ 30 \in Byte /\ 53 \in Byte /\ 135 \in Byte
      /\ 207 \in Byte
  BY BytesAre, SMT
<1>3. xpub \in Seq(Byte) /\ Len(xpub) = 4 /\ tpub \in Seq(Byte) /\ Len(tpub) = 4
  BY <1>2, SMT
<1>4. xpub[2] = 136 /\ tpub[2] = 53
  BY SMT
<1> HIDE DEF xpub, tpub
<1>5. xpub # tpub
  BY <1>4, SMT
<1>6. \A n \in S132!NetworkKind : n = "Main" \/ n = "Test"
  BY DEF S132!NetworkKind
<1>7. "Main" # "Test"
  OBVIOUS
<1> QED
  BY <1>1, <1>3, <1>5, <1>6

\* An extended key is read as it was written.
LEMMA ReadsXpub ==
    ASSUME NEW k \in ExtendedKey
    PROVE  /\ serialize_xpub(k) \in Stream
           /\ \A rest \in Stream : deserialize_xpub(serialize_xpub(k) \o rest) = Done(k, rest)
<1> DEFINE Version(n) == S132!resolve(n, "Hashed", FALSE)
           net == k.network
           version == Version(net)
           block == << k.body >>
<1>1. net \in S132!NetworkKind /\ k.body \in Body /\ k = [network |-> net, body |-> k.body]
  BY DEF ExtendedKey
<1>2. k.body \in Nat /\ block \in Stream
  BY <1>1, BlocksAreNotBytes DEF Stream
<1>3. version \in Seq(Byte) /\ Len(version) = 4
  BY <1>1, VersionBytes
<1>4. \A n \in S132!NetworkKind : version = Version(n) => n = net
  BY <1>1, VersionBytes
<1>5. serialize_xpub(k) = version \o block
  BY DEF serialize_xpub
<1> HIDE DEF net, Version, block
<1>6. version \in Stream
  BY <1>3, BytesAreNumbers DEF Stream
<1>7. ASSUME NEW rest \in Stream
      PROVE  deserialize_xpub((version \o block) \o rest) = Done(k, rest)
  <2> DEFINE r == block \o rest
             s == version \o r
             read == ReadExact(s, 4)
             body == ReadBlock(Body, read.rest)
             networks == {n \in S132!NetworkKind : read.value = Version(n)}
  <2>1. r \in Stream /\ (version \o block) \o rest = s
    BY <1>2, <1>6, StreamsJoin
  <2>2. read = Done(version, r)
    <3> HIDE DEF r, version
    <3> QED
      BY <1>3, <2>1, ReadsWhatWasWritten DEF Stream
  <2>3. read.ok /\ read.value = version /\ read.rest = r
    BY <2>2 DEF Done
  <2>4. body = Done(k.body, rest)
    <3> HIDE DEF read
    <3> QED
      BY <1>1, <1>2, <2>3, ReadsBlock DEF block
  <2>5. body.ok /\ body.value = k.body /\ body.rest = rest
    BY <2>4 DEF Done
  <2>6. networks = {net}
    <3> HIDE DEF read, version
    <3> QED
      BY <1>1, <1>4, <2>3 DEF version
  <2>7. deserialize_xpub(s)
          = IF ~read.ok \/ ~body.ok \/ networks = {} THEN Failed
            ELSE Done([network |-> CHOOSE n \in networks : TRUE, body |-> body.value], body.rest)
    <3> HIDE DEF s
    <3> QED
      BY DEF deserialize_xpub, Version
  <2> HIDE DEF read, body, networks
  <2>8. (CHOOSE n \in networks : TRUE) = net /\ networks # {}
    BY <2>6
  <2> QED
    BY <1>1, <2>1, <2>3, <2>5, <2>7, <2>8
<1> QED
  BY <1>2, <1>5, <1>6, <1>7, StreamsJoin

\* What is written of a key that is no extended one.
WriteSingleKey(key) ==
    Cat(IF key \in XOnlyKey THEN Cat(serialize(Number(1)), serialize(Number(32)))
                            ELSE serialize(Number(0)), << key >>)

\* It is read as it was written.
LEMMA ReadsSingleKey ==
    ASSUME NEW key \in PublicKey \cup XOnlyKey
    PROVE  /\ WriteSingleKey(key) \in Stream
           /\ \A rest \in Stream : ReadSingleKey(Cat(WriteSingleKey(key), rest)) = Done(key, rest)
<1> DEFINE one == serialize(Number(1))
           zero == serialize(Number(0))
           length == serialize(Number(32))
           block == << key >>
<1>0. /\ 0 \in Byte /\ 1 \in Byte /\ 0 < 2 /\ 1 < 2 /\ 0 \in Length /\ 1 \in Length /\ 32 \in Length
  BY BytesAre, SMT DEF Length
<1>1. one \in Stream /\ zero \in Stream /\ length \in Stream
  BY <1>0, NumberOfTwoBytes, NumbersAreStreams
<1>2. key \in Nat /\ block \in Stream
  BY BlocksAreNotBytes DEF Stream
<1>3. CASE key \in XOnlyKey
  <2>1. WriteSingleKey(key) = Cat(Cat(one, length), block)
    BY <1>3 DEF WriteSingleKey
  <2>2. ASSUME NEW rest \in Stream
        PROVE  ReadSingleKey(Cat(Cat(Cat(one, length), block), rest)) = Done(key, rest)
    <3> DEFINE r2 == Cat(block, rest)
               r1 == Cat(length, r2)
               s == Cat(one, r1)
               tag == ReadTag(s, 2)
               n == ReadLength(tag.rest)
    <3>1. r1 \in Stream /\ r2 \in Stream /\ Cat(Cat(Cat(one, length), block), rest) = s
      <4> HIDE DEF one, length, block
      <4> QED
        BY <1>1, <1>2, ThreeParts
    <3>2. tag = Done(1, r1)
      <4> HIDE DEF r1
      <4> QED
        BY <1>0, <3>1, ReadsTag DEF Cat
    <3>3. tag.ok /\ tag.value = 1 /\ tag.rest = r1
      BY <3>2 DEF Done
    <3>4. n = Done(32, r2)
      <4> HIDE DEF tag, r2
      <4> QED
        BY <1>0, <3>1, <3>3, ReadsLength, SMT DEF Cat
    <3>5. n.ok /\ n.value = 32 /\ n.rest = r2
      BY <3>4, SMT DEF Done
    <3>6. ReadBlock(XOnlyKey, r2) = Done(key, rest)
      BY <1>2, <1>3, ReadsBlock DEF Cat
    <3>7. ReadSingleKey(s)
            = IF ~tag.ok THEN Failed
              ELSE IF tag.value = 0 THEN ReadBlock(PublicKey, tag.rest)
              ELSE IF ~n.ok \/ n.value # 32 THEN Failed
              ELSE ReadBlock(XOnlyKey, n.rest)
      <4> HIDE DEF s
      <4> QED
        BY SMT DEF ReadSingleKey
    <3> HIDE DEF tag, n, s
    <3> QED
      BY <3>1, <3>3, <3>5, <3>6, <3>7, SMT
  <2>3. WriteSingleKey(key) \in Stream
    <3> HIDE DEF one, zero, length, block
    <3> QED
      BY <1>1, <1>2, <2>1, CatJoins
  <2> QED
    BY <2>1, <2>2, <2>3
<1>4. CASE key \notin XOnlyKey
  <2>1. WriteSingleKey(key) = Cat(zero, block)
    BY <1>4 DEF WriteSingleKey
  <2>2. ASSUME NEW rest \in Stream
        PROVE  ReadSingleKey(Cat(Cat(zero, block), rest)) = Done(key, rest)
    <3> DEFINE r == Cat(block, rest)
               s == Cat(zero, r)
               tag == ReadTag(s, 2)
    <3>1. r \in Stream /\ Cat(Cat(zero, block), rest) = s
      <4> HIDE DEF zero, block
      <4> QED
        BY <1>1, <1>2, CatJoins
    <3>2. tag = Done(0, r)
      <4> HIDE DEF r
      <4> QED
        BY <1>0, <3>1, ReadsTag DEF Cat
    <3>3. tag.ok /\ tag.value = 0 /\ tag.rest = r
      BY <3>2 DEF Done
    <3>4. ReadBlock(PublicKey, r) = Done(key, rest)
      BY <1>2, <1>4, ReadsBlock DEF Cat
    <3>5. tag.ok /\ tag.value = 0 => ReadSingleKey(s) = ReadBlock(PublicKey, tag.rest)
      <4> HIDE DEF s
      <4> QED
        BY SMT DEF ReadSingleKey
    <3> HIDE DEF tag, s
    <3> QED
      BY <3>1, <3>3, <3>4, <3>5
  <2>3. WriteSingleKey(key) \in Stream
    <3> HIDE DEF one, zero, length, block
    <3> QED
      BY <1>1, <1>2, <2>1, CatJoins
  <2> QED
    BY <2>1, <2>2, <2>3
<1> QED
  BY <1>3, <1>4

\* A descriptor key is read as it was written, of whichever kind it is.
LEMMA ReadsDescriptor ==
    ASSUME NEW k \in DescriptorKey
    PROVE  /\ serialize_descriptor_pk(k) \in Stream
           /\ \A rest \in Stream :
                deserialize_descriptor_pk(serialize_descriptor_pk(k) \o rest) = Done(k, rest)
<1>0. /\ 0 \in Byte /\ 1 \in Byte /\ 2 \in Byte /\ 0 \in Length /\ 1 \in Length /\ 2 \in Length
      /\ 0 < 3 /\ 1 < 3 /\ 2 < 3
  BY BytesAre, SMT DEF Length
<1>1. \A n \in 0..2 : serialize(Number(n)) \in Stream
  BY <1>0, NumberOfTwoBytes, NumbersAreStreams
<1> DEFINE origin == serialize_opt_origin(k.origin)
<1>2. CASE k \in [type : {"Single"}, origin : Origin, key : PublicKey \cup XOnlyKey]
  <2> DEFINE tag == serialize(Number(0))
             key == WriteSingleKey(k.key)
  <2>1. /\ k.type = "Single" /\ k.origin \in Origin /\ k.key \in PublicKey \cup XOnlyKey
        /\ k = [type |-> "Single", origin |-> k.origin, key |-> k.key]
    BY <1>2
  <2>2. tag \in Stream /\ origin \in Stream /\ key \in Stream
    BY <1>1, <2>1, ReadsOrigin, ReadsSingleKey
  <2>3. serialize_descriptor_pk(k) = Cat(Cat(tag, origin), key)
    <3> DEFINE kind == IF k.key \in XOnlyKey THEN serialize(Number(1)) \o serialize(Number(32))
                                             ELSE serialize(Number(0))
               block == << k.key >>
    <3>1. serialize_descriptor_pk(k) = ((tag \o origin) \o kind) \o block
      <4>1. k.type = "Single"
        BY <2>1
      <4> QED
        BY <4>1, Zenon DEF serialize_descriptor_pk
    <3>2. key = kind \o block
      BY SMT DEF WriteSingleKey, Cat
    <3>3. kind \in Stream /\ block \in Stream
      <4>1. 1 \in Length /\ 32 \in Length /\ 0 \in Length
        BY SMT DEF Length
      <4>2. /\ serialize(Number(1)) \in Stream /\ serialize(Number(32)) \in Stream
            /\ serialize(Number(0)) \in Stream
        BY <4>1, NumberOfTwoBytes, NumbersAreStreams
      <4> QED
        BY <2>1, <4>2, StreamsJoin, BlocksAreNotBytes DEF Stream
    <3> HIDE DEF tag, origin, key, kind, block
    <3>4. tag \o origin \in Stream
      BY <2>2, StreamsJoin
    <3>5. ((tag \o origin) \o kind) \o block = (tag \o origin) \o (kind \o block)
      BY <3>3, <3>4, StreamsJoin
    <3> QED
      BY <3>1, <3>2, <3>5 DEF Cat
  <2>4. ASSUME NEW rest \in Stream
        PROVE  deserialize_descriptor_pk(serialize_descriptor_pk(k) \o rest) = Done(k, rest)
    <3> DEFINE r2 == Cat(key, rest)
               r1 == Cat(origin, r2)
               s == Cat(tag, r1)
               t == ReadTag(s, 3)
               o == deserialize_opt_origin(t.rest)
               u == ReadSingleKey(o.rest)
    <3>1. r1 \in Stream /\ r2 \in Stream /\ serialize_descriptor_pk(k) \o rest = s
      <4> HIDE DEF tag, origin, key
      <4>1. Cat(Cat(Cat(tag, origin), key), rest) = s /\ r1 \in Stream /\ r2 \in Stream
        BY <2>2, ThreeParts
      <4> QED
        BY <2>3, <4>1 DEF Cat
    <3>2. t = Done(0, r1)
      <4> HIDE DEF r1
      <4> QED
        BY <1>0, <3>1, ReadsTag DEF Cat
    <3>3. t.ok /\ t.value = 0 /\ t.rest = r1
      BY <3>2 DEF Done
    <3>4. o = Done(k.origin, r2)
      <4> HIDE DEF t, r2
      <4> QED
        BY <2>1, <3>1, <3>3, ReadsOrigin DEF Cat
    <3>5. o.ok /\ o.value = k.origin /\ o.rest = r2
      BY <3>4 DEF Done
    <3>6. u = Done(k.key, rest)
      <4> HIDE DEF o
      <4> QED
        BY <2>1, <3>5, ReadsSingleKey
    <3>7. u.ok /\ u.value = k.key /\ u.rest = rest
      BY <3>6 DEF Done
    <3>8. t.ok /\ o.ok /\ t.value = 0 /\ u.ok
            => deserialize_descriptor_pk(s)
                 = Done([type |-> "Single", origin |-> o.value, key |-> u.value], u.rest)
      <4> HIDE DEF s
      <4> QED
        BY SMT DEF deserialize_descriptor_pk, KeyOf
    <3> HIDE DEF t, o, u, s
    <3> QED
      BY <2>1, <3>1, <3>3, <3>5, <3>7, <3>8
  <2>5. serialize_descriptor_pk(k) \in Stream
    <3> HIDE DEF tag, origin, key
    <3> QED
      BY <2>2, <2>3, CatJoins
  <2> QED
    BY <2>4, <2>5

<1>3. CASE k \in [type : {"XPub"}, origin : Origin, xkey : ExtendedKey,
                  derivation_path : Path, wildcard : Wildcard]
  <2> DEFINE tag == serialize(Number(1))
             xkey == serialize_xpub(k.xkey)
             path == serialize_derivation_path(k.derivation_path)
             wildcard == serialize(Number(k.wildcard))
  <2>1. /\ k.type = "XPub" /\ k.origin \in Origin /\ k.xkey \in ExtendedKey
        /\ k.derivation_path \in Path /\ k.wildcard \in 0..2
        /\ k = [type |-> "XPub", origin |-> k.origin, xkey |-> k.xkey,
                derivation_path |-> k.derivation_path, wildcard |-> k.wildcard]
    BY <1>3 DEF Wildcard
  <2>2. /\ tag \in Stream /\ origin \in Stream /\ xkey \in Stream /\ path \in Stream
        /\ wildcard \in Stream
    BY <1>1, <2>1, ReadsOrigin, ReadsXpub, ReadsPath
  <2> DEFINE a2 == Cat(tag, origin)
             a3 == Cat(a2, xkey)
             a4 == Cat(a3, path)
  <2>3. serialize_descriptor_pk(k) = Cat(a4, wildcard)
    BY <2>1, SMT DEF serialize_descriptor_pk, Cat
  <2>6. a2 \in Stream /\ a3 \in Stream /\ a4 \in Stream
    <3> HIDE DEF tag, origin, xkey, path
    <3>1. a2 \in Stream
      BY <2>2, CatJoins
    <3>2. a3 \in Stream
      BY <2>2, <3>1, CatJoins
    <3> QED
      BY <2>2, <3>1, <3>2, CatJoins
  <2>4. ASSUME NEW rest \in Stream
        PROVE  deserialize_descriptor_pk(serialize_descriptor_pk(k) \o rest) = Done(k, rest)
    <3> DEFINE r4 == Cat(wildcard, rest)
               r3 == Cat(path, r4)
               r2 == Cat(xkey, r3)
               r1 == Cat(origin, r2)
               s == Cat(tag, r1)
               t == ReadTag(s, 3)
               o == deserialize_opt_origin(t.rest)
               x == deserialize_xpub(o.rest)
               p == deserialize_derivation_path(x.rest)
               w == ReadTag(p.rest, 3)
    <3>1. /\ r1 \in Stream /\ r2 \in Stream /\ r3 \in Stream /\ r4 \in Stream
          /\ serialize_descriptor_pk(k) \o rest = s
      <4> HIDE DEF tag, origin, xkey, path, wildcard, a2, a3, a4
      <4>1. r4 \in Stream /\ Cat(Cat(a4, wildcard), rest) = Cat(a4, r4)
        BY <2>2, <2>6, CatJoins
      <4> HIDE DEF r4
      <4>2. r3 \in Stream /\ Cat(a4, r4) = Cat(a3, r3)
        BY <2>2, <2>6, <4>1, CatJoins DEF a4
      <4> HIDE DEF r3
      <4>3. r2 \in Stream /\ Cat(a3, r3) = Cat(a2, r2)
        BY <2>2, <2>6, <4>2, CatJoins DEF a3
      <4> HIDE DEF r2
      <4>4. r1 \in Stream /\ Cat(a2, r2) = s
        BY <2>2, <4>3, CatJoins DEF a2
      <4>5. serialize_descriptor_pk(k) \o rest = Cat(Cat(a4, wildcard), rest)
        BY <2>3 DEF Cat
      <4> QED
        BY <4>1, <4>2, <4>3, <4>4, <4>5
    <3>2. t = Done(1, r1)
      <4> HIDE DEF r1
      <4> QED
        BY <1>0, <3>1, ReadsTag DEF Cat
    <3>3. t.ok /\ t.value = 1 /\ t.rest = r1
      BY <3>2 DEF Done
    <3>4. o = Done(k.origin, r2)
      <4> HIDE DEF t, r2
      <4> QED
        BY <2>1, <3>1, <3>3, ReadsOrigin DEF Cat
    <3>5. o.ok /\ o.value = k.origin /\ o.rest = r2
      BY <3>4 DEF Done
    <3>6. x = Done(k.xkey, r3)
      <4> HIDE DEF o, r3
      <4> QED
        BY <2>1, <3>1, <3>5, ReadsXpub DEF Cat
    <3>7. x.ok /\ x.value = k.xkey /\ x.rest = r3
      BY <3>6 DEF Done
    <3>8. p = Done(k.derivation_path, r4)
      <4> HIDE DEF x, r4
      <4> QED
        BY <2>1, <3>1, <3>7, ReadsPath DEF Cat
    <3>9. p.ok /\ p.value = k.derivation_path /\ p.rest = r4
      BY <3>8 DEF Done
    <3>10. w = Done(k.wildcard, rest)
      <4>1. k.wildcard \in Byte /\ k.wildcard < 3
        BY <1>0, <2>1
      <4>2. p.rest = serialize(Number(k.wildcard)) \o rest
        BY <3>9 DEF Cat
      <4> HIDE DEF p
      <4> QED
        BY <4>1, <4>2, ReadsTag
    <3>11. w.ok /\ w.value = k.wildcard /\ w.rest = rest
      <4> HIDE DEF w
      <4> QED
        BY <3>10 DEF Done
    <3>12. t.ok /\ o.ok /\ t.value = 1 /\ x.ok /\ p.ok /\ w.ok
            => deserialize_descriptor_pk(s)
                 = Done([type |-> "XPub", origin |-> o.value, xkey |-> x.value,
                         derivation_path |-> p.value, wildcard |-> w.value], w.rest)
      <4> HIDE DEF s
      <4> QED
        BY SMT DEF deserialize_descriptor_pk, KeyOf
    <3> HIDE DEF t, o, x, p, w, s
    <3> QED
      BY <2>1, <3>1, <3>3, <3>5, <3>7, <3>9, <3>11, <3>12
  <2>5. serialize_descriptor_pk(k) \in Stream
    <3> HIDE DEF a4, wildcard
    <3> QED
      BY <2>2, <2>3, <2>6, CatJoins
  <2> QED
    BY <2>4, <2>5
<1>4. CASE k \in [type : {"MultiXPub"}, origin : Origin, xkey : ExtendedKey,
                  derivation_paths : Paths, wildcard : Wildcard]
  <2> DEFINE tag == serialize(Number(2))
             xkey == serialize_xpub(k.xkey)
             path == serialize_derivation_paths(k.derivation_paths)
             wildcard == serialize(Number(k.wildcard))
  <2>1. /\ k.type = "MultiXPub" /\ k.origin \in Origin /\ k.xkey \in ExtendedKey
        /\ k.derivation_paths \in Paths /\ k.wildcard \in 0..2
        /\ k = [type |-> "MultiXPub", origin |-> k.origin, xkey |-> k.xkey,
                derivation_paths |-> k.derivation_paths, wildcard |-> k.wildcard]
    BY <1>4 DEF Wildcard
  <2>2. /\ tag \in Stream /\ origin \in Stream /\ xkey \in Stream /\ path \in Stream
        /\ wildcard \in Stream
    BY <1>1, <2>1, ReadsOrigin, ReadsXpub, ReadsPaths
  <2> DEFINE a2 == Cat(tag, origin)
             a3 == Cat(a2, xkey)
             a4 == Cat(a3, path)
  <2>3. serialize_descriptor_pk(k) = Cat(a4, wildcard)
    BY <2>1, SMT DEF serialize_descriptor_pk, Cat
  <2>6. a2 \in Stream /\ a3 \in Stream /\ a4 \in Stream
    <3> HIDE DEF tag, origin, xkey, path
    <3>1. a2 \in Stream
      BY <2>2, CatJoins
    <3>2. a3 \in Stream
      BY <2>2, <3>1, CatJoins
    <3> QED
      BY <2>2, <3>1, <3>2, CatJoins
  <2>4. ASSUME NEW rest \in Stream
        PROVE  deserialize_descriptor_pk(serialize_descriptor_pk(k) \o rest) = Done(k, rest)
    <3> DEFINE r4 == Cat(wildcard, rest)
               r3 == Cat(path, r4)
               r2 == Cat(xkey, r3)
               r1 == Cat(origin, r2)
               s == Cat(tag, r1)
               t == ReadTag(s, 3)
               o == deserialize_opt_origin(t.rest)
               x == deserialize_xpub(o.rest)
               p == deserialize_derivation_paths(x.rest)
               w == ReadTag(p.rest, 3)
    <3>1. /\ r1 \in Stream /\ r2 \in Stream /\ r3 \in Stream /\ r4 \in Stream
          /\ serialize_descriptor_pk(k) \o rest = s
      <4> HIDE DEF tag, origin, xkey, path, wildcard, a2, a3, a4
      <4>1. r4 \in Stream /\ Cat(Cat(a4, wildcard), rest) = Cat(a4, r4)
        BY <2>2, <2>6, CatJoins
      <4> HIDE DEF r4
      <4>2. r3 \in Stream /\ Cat(a4, r4) = Cat(a3, r3)
        BY <2>2, <2>6, <4>1, CatJoins DEF a4
      <4> HIDE DEF r3
      <4>3. r2 \in Stream /\ Cat(a3, r3) = Cat(a2, r2)
        BY <2>2, <2>6, <4>2, CatJoins DEF a3
      <4> HIDE DEF r2
      <4>4. r1 \in Stream /\ Cat(a2, r2) = s
        BY <2>2, <4>3, CatJoins DEF a2
      <4>5. serialize_descriptor_pk(k) \o rest = Cat(Cat(a4, wildcard), rest)
        BY <2>3 DEF Cat
      <4> QED
        BY <4>1, <4>2, <4>3, <4>4, <4>5
    <3>2. t = Done(2, r1)
      <4> HIDE DEF r1
      <4> QED
        BY <1>0, <3>1, ReadsTag DEF Cat
    <3>3. t.ok /\ t.value = 2 /\ t.rest = r1
      BY <3>2 DEF Done
    <3>4. o = Done(k.origin, r2)
      <4> HIDE DEF t, r2
      <4> QED
        BY <2>1, <3>1, <3>3, ReadsOrigin DEF Cat
    <3>5. o.ok /\ o.value = k.origin /\ o.rest = r2
      BY <3>4 DEF Done
    <3>6. x = Done(k.xkey, r3)
      <4> HIDE DEF o, r3
      <4> QED
        BY <2>1, <3>1, <3>5, ReadsXpub DEF Cat
    <3>7. x.ok /\ x.value = k.xkey /\ x.rest = r3
      BY <3>6 DEF Done
    <3>8. p = Done(k.derivation_paths, r4)
      <4> HIDE DEF x, r4
      <4> QED
        BY <2>1, <3>1, <3>7, ReadsPaths DEF Cat
    <3>9. p.ok /\ p.value = k.derivation_paths /\ p.rest = r4
      BY <3>8 DEF Done
    <3>10. w = Done(k.wildcard, rest)
      <4>1. k.wildcard \in Byte /\ k.wildcard < 3
        BY <1>0, <2>1
      <4>2. p.rest = serialize(Number(k.wildcard)) \o rest
        BY <3>9 DEF Cat
      <4> HIDE DEF p
      <4> QED
        BY <4>1, <4>2, ReadsTag
    <3>11. w.ok /\ w.value = k.wildcard /\ w.rest = rest
      <4> HIDE DEF w
      <4> QED
        BY <3>10 DEF Done
    <3>12. t.ok /\ o.ok /\ t.value # 0 /\ t.value # 1 /\ x.ok /\ p.ok /\ w.ok
            => deserialize_descriptor_pk(s)
                 = Done([type |-> "MultiXPub", origin |-> o.value, xkey |-> x.value,
                         derivation_paths |-> p.value, wildcard |-> w.value], w.rest)
      <4> HIDE DEF s
      <4> QED
        BY SMT DEF deserialize_descriptor_pk, KeyOf
    <3> HIDE DEF t, o, x, p, w, s
    <3> QED
      BY <2>1, <3>1, <3>3, <3>5, <3>7, <3>9, <3>11, <3>12
  <2>5. serialize_descriptor_pk(k) \in Stream
    <3> HIDE DEF a4, wildcard
    <3> QED
      BY <2>2, <2>3, <2>6, CatJoins
  <2> QED
    BY <2>4, <2>5
<1> QED
  BY <1>2, <1>3, <1>4 DEF DescriptorKey

---------------------------------------------------------------------------
(* Multisig wallets.                                                        *)

\* Keys one after the other are read as they were written.
LEMMA ReadsKeys ==
    ASSUME NEW ks \in Seq(DescriptorKey)
    PROVE  /\ WriteKeys(ks) \in Stream
           /\ \A rest \in Stream :
                ReadMany([u \in Stream |-> deserialize_descriptor_pk(u)], Len(ks),
                         WriteKeys(ks) \o rest) = Done(ks, rest)
<1> DEFINE Read == [u \in Stream |-> deserialize_descriptor_pk(u)]
           parts == [i \in DOMAIN ks |-> serialize_descriptor_pk(ks[i])]
<1>1. \A i \in DOMAIN ks : ks[i] \in DescriptorKey
  OBVIOUS
<1>2. parts \in [DOMAIN ks -> Stream]
  BY <1>1, ReadsDescriptor
<1>3. ASSUME NEW i \in DOMAIN ks, NEW rest \in Stream
      PROVE  Read[parts[i] \o rest] = Done(ks[i], rest)
  <2>1. parts[i] = serialize_descriptor_pk(ks[i]) /\ parts[i] \in Stream
    BY <1>2
  <2>2. parts[i] \o rest \in Stream
    BY <2>1, StreamsJoin
  <2>3. deserialize_descriptor_pk(parts[i] \o rest) = Done(ks[i], rest)
    BY <1>1, <2>1, ReadsDescriptor
  <2> QED
    BY <2>2, <2>3
<1> HIDE DEF Read, parts
<1>4. /\ FlattenSeq(parts) \in Stream
      /\ \A rest \in Stream :
            ReadMany(Read, Len(ks), FlattenSeq(parts) \o rest) = Done(ks, rest)
  BY <1>2, <1>3, ReadsMany, Zenon
<1>5. WriteKeys(ks) = FlattenSeq(parts)
  BY DEF WriteKeys, parts
<1> QED
  BY <1>4, <1>5 DEF Read

\* A multisig wallet is read as it was written, and to the end.
LEMMA ReadsMultisig ==
    ASSUME NEW c \in [required : Length, total : Length],
           NEW rs \in Seq(DescriptorKey), NEW cs \in Seq(DescriptorKey),
           Len(rs) = c.total, Len(cs) = c.total
    PROVE  DeserializeMultisig(SerializeMultisig(c, rs, cs))
             = Done([configuration |-> c, receiving |-> ToSet(rs), change |-> ToSet(cs)], << >>)
<1> DEFINE required == serialize(Number(c.required))
           total == serialize(Number(c.total))
           two == serialize(Number(2))
           receiving == WriteKeys(rs)
           change == WriteKeys(cs)
           Read == [u \in Stream |-> deserialize_descriptor_pk(u)]
           a2 == Cat(required, total)
           a3 == Cat(a2, two)
           a4 == Cat(a3, receiving)
           r3 == Cat(receiving, change)
           r2 == Cat(two, r3)
           r1 == Cat(total, r2)
           s == Cat(required, r1)
<1>1. /\ c.required \in Length /\ c.total \in Length /\ 2 \in Length
      /\ c = [required |-> c.required, total |-> c.total]
  BY SMT DEF Length
<1>2. Number(c.required) \in U64 /\ Number(c.total) \in U64 /\ Number(2) \in U64
  BY <1>1, NumberOfTwoBytes
<1>3. /\ required \in Stream /\ total \in Stream /\ two \in Stream
      /\ receiving \in Stream /\ change \in Stream
  BY <1>2, NumbersAreStreams, ReadsKeys
<1>4. SerializeMultisig(c, rs, cs) = Cat(a4, change)
  BY DEF SerializeMultisig, Cat
<1> HIDE DEF required, total, two, receiving, change
<1>5. a2 \in Stream /\ a3 \in Stream
  <2>1. a2 \in Stream
    BY <1>3, CatJoins
  <2> QED
    BY <1>3, <2>1, CatJoins
<1> HIDE DEF a2, a3
<1>6. r3 \in Stream /\ Cat(a4, change) = Cat(a3, r3)
  BY <1>3, <1>5, CatJoins
<1> HIDE DEF r3, a4
<1>7. r2 \in Stream /\ Cat(a3, r3) = Cat(a2, r2)
  BY <1>3, <1>5, <1>6, CatJoins DEF a3
<1> HIDE DEF r2
<1>8. r1 \in Stream /\ Cat(a2, r2) = s
  BY <1>3, <1>7, CatJoins DEF a2
<1>9. SerializeMultisig(c, rs, cs) = s
  BY <1>4, <1>6, <1>7, <1>8
<1> HIDE DEF r1
<1> DEFINE q == ReadLength(s)
           t == ReadLength(q.rest)
           n == deserialize(t.rest)
           ks == ReadMany(Read, t.value, n.rest)
           ls == ReadMany(Read, t.value, ks.rest)
<1>10. q = Done(c.required, r1)
  BY <1>1, <1>8, ReadsLength DEF required, Cat
<1>11. q.ok /\ q.value = c.required /\ q.rest = r1
  <2> HIDE DEF q
  <2> QED
    BY <1>10 DEF Done
<1>12. t = Done(c.total, r2)
  <2>1. ReadLength(r1) = Done(c.total, r2)
    BY <1>1, <1>7, ReadsLength DEF total, r1, Cat
  <2> HIDE DEF q
  <2> QED
    BY <1>11, <2>1
<1>13. t.ok /\ t.value = c.total /\ t.rest = r2
  <2> HIDE DEF t
  <2> QED
    BY <1>12 DEF Done
<1>14. n = Done(Number(2), r3)
  <2>1. deserialize(r2) = Done(Number(2), r3)
    BY <1>2, <1>6, ReadsWritten DEF two, r2, Cat
  <2> HIDE DEF t
  <2> QED
    BY <1>13, <2>1
<1>15. n.ok /\ n.value = Number(2) /\ n.rest = r3
  <2> HIDE DEF n
  <2> QED
    BY <1>14 DEF Done
<1>16. ks = Done(rs, change)
  <2>1. ReadMany(Read, c.total, r3) = Done(rs, change)
    BY <1>3, ReadsKeys DEF receiving, r3, Cat
  <2> HIDE DEF t, n, Read
  <2> QED
    BY <1>13, <1>15, <2>1
<1>17. ks.ok /\ ks.value = rs /\ ks.rest = change
  <2> HIDE DEF ks
  <2> QED
    BY <1>16 DEF Done
<1>18. ls = Done(cs, << >>)
  <2>1. << >> \in Stream /\ change \o << >> = change
    BY <1>3, ConcatEmptySeq, EmptySeq DEF Stream
  <2>2. ReadMany(Read, c.total, change) = Done(cs, << >>)
    BY <2>1, ReadsKeys DEF change
  <2> HIDE DEF t, ks, Read
  <2> QED
    BY <1>13, <1>17, <2>2
<1>19. ls.ok /\ ls.value = cs /\ ls.rest = << >>
  <2> HIDE DEF ls
  <2> QED
    BY <1>18 DEF Done
<1>20. DeserializeMultisig(s)
         = IF ~q.ok \/ ~t.ok \/ ~n.ok \/ n.value # Number(2) THEN Failed
           ELSE IF ~ks.ok \/ ~ls.ok THEN Failed
           ELSE Done([configuration |-> [required |-> q.value, total |-> t.value],
                      receiving |-> ToSet(ks.value), change |-> ToSet(ls.value)], ls.rest)
  <2> HIDE DEF s
  <2> QED
    BY Zenon DEF DeserializeMultisig, MultisigOf
<1> HIDE DEF q, t, n, ks, ls
<1> QED
  BY <1>1, <1>9, <1>11, <1>13, <1>15, <1>17, <1>19, <1>20

---------------------------------------------------------------------------
(* The tables of the version bytes.                                         *)

Names == {"XPUB", "XPRV", "YPUB", "YPRV", "ZPUB", "ZPRV", "TPUB", "TPRV", "UPUB", "UPRV",
          "VPUB", "VPRV", "YPUB_MULTISIG", "YPRV_MULTISIG", "ZPUB_MULTISIG", "ZPRV_MULTISIG",
          "UPUB_MULTISIG", "UPRV_MULTISIG", "VPUB_MULTISIG", "VPRV_MULTISIG"}

\* No two names have the same version bytes: the third byte alone tells them apart.
LEMMA MagicTells ==
    ASSUME NEW n \in Names, NEW S, S \subseteq Names
    PROVE  S132!VERSION_MAGIC[n] \in S132!Any(S) <=> n \in S
<1> DEFINE V(m) == S132!VERSION_MAGIC[m]
<1>1. /\ V("XPUB")[3] = 178 /\ V("XPRV")[3] = 173 /\ V("YPUB")[3] = 124 /\ V("YPRV")[3] = 120
      /\ V("ZPUB")[3] = 71 /\ V("ZPRV")[3] = 67 /\ V("TPUB")[3] = 135 /\ V("TPRV")[3] = 131
      /\ V("UPUB")[3] = 82 /\ V("UPRV")[3] = 78 /\ V("VPUB")[3] = 28 /\ V("VPRV")[3] = 24
  BY SMT DEF S132!VERSION_MAGIC
<1>2. /\ V("YPUB_MULTISIG")[3] = 180 /\ V("YPRV_MULTISIG")[3] = 176
      /\ V("ZPUB_MULTISIG")[3] = 126 /\ V("ZPRV_MULTISIG")[3] = 122
      /\ V("UPUB_MULTISIG")[3] = 137 /\ V("UPRV_MULTISIG")[3] = 133
      /\ V("VPUB_MULTISIG")[3] = 84 /\ V("VPRV_MULTISIG")[3] = 80
  BY SMT DEF S132!VERSION_MAGIC
<1> HIDE DEF V
<1>3. \A m \in Names : V(m) = V(n) => m = n
  BY <1>1, <1>2, SMT DEF Names
<1>4. V(n) \in {V(m) : m \in S} <=> n \in S
  BY <1>3
<1> QED
  BY <1>4 DEF V, S132!Any

\* The name of the version bytes a key of a network is written with for an application.
NameOf(net, app, priv) ==
    LET main == [Hashed |-> << "XPUB", "XPRV" >>,
                 Nested |-> << "YPUB", "YPRV" >>,
                 SegWit |-> << "ZPUB", "ZPRV" >>,
                 NestedMultisig |-> << "YPUB_MULTISIG", "YPRV_MULTISIG" >>,
                 SegWitMultisig |-> << "ZPUB_MULTISIG", "ZPRV_MULTISIG" >>]
        test == [Hashed |-> << "TPUB", "TPRV" >>,
                 Nested |-> << "UPUB", "UPRV" >>,
                 SegWit |-> << "VPUB", "VPRV" >>,
                 NestedMultisig |-> << "UPUB_MULTISIG", "UPRV_MULTISIG" >>,
                 SegWitMultisig |-> << "VPUB_MULTISIG", "VPRV_MULTISIG" >>]
        table == IF net = "Main" THEN main ELSE test
    IN  table[app][IF priv THEN 2 ELSE 1]

\* What the lists of names in the tables have in common.
LEMMA NamesTell ==
    ASSUME NEW net \in S132!NetworkKind, NEW app \in S132!KeyApplication, NEW priv \in BOOLEAN
    PROVE  LET n == NameOf(net, app, priv)
           IN  /\ n \in Names /\ S132!resolve(net, app, priv) = S132!VERSION_MAGIC[n]
               /\ n \in {"XPUB", "YPUB", "ZPUB", "YPUB_MULTISIG", "ZPUB_MULTISIG"}
                    <=> net = "Main" /\ ~priv
               /\ n \in {"XPRV", "YPRV", "ZPRV", "YPRV_MULTISIG", "ZPRV_MULTISIG"}
                    <=> net = "Main" /\ priv
               /\ n \in {"TPUB", "UPUB", "VPUB", "UPUB_MULTISIG", "VPUB_MULTISIG"}
                    <=> net = "Test" /\ ~priv
               /\ n \in {"TPRV", "UPRV", "VPRV", "UPRV_MULTISIG", "VPRV_MULTISIG"}
                    <=> net = "Test" /\ priv
               /\ n \in {"YPUB", "YPRV"} <=> net = "Main" /\ app = "Nested"
               /\ n \in {"UPUB", "UPRV"} <=> net = "Test" /\ app = "Nested"
               /\ n \in {"ZPUB", "ZPRV"} <=> net = "Main" /\ app = "SegWit"
               /\ n \in {"VPUB", "VPRV"} <=> net = "Test" /\ app = "SegWit"
               /\ n \in {"YPUB_MULTISIG", "YPRV_MULTISIG"} <=> net = "Main" /\ app = "NestedMultisig"
               /\ n \in {"UPUB_MULTISIG", "UPRV_MULTISIG"} <=> net = "Test" /\ app = "NestedMultisig"
               /\ n \in {"ZPUB_MULTISIG", "ZPRV_MULTISIG"} <=> net = "Main" /\ app = "SegWitMultisig"
               /\ n \in {"VPUB_MULTISIG", "VPRV_MULTISIG"} <=> net = "Test" /\ app = "SegWitMultisig"
<1> DEFINE n == NameOf(net, app, priv)
<1>1. n \in Names
  BY DEF NameOf, Names, S132!NetworkKind, S132!KeyApplication
<1>2. S132!resolve(net, app, priv) = S132!VERSION_MAGIC[n]
  <2> DEFINE V == S132!VERSION_MAGIC
  <2>1. S132!resolve(net, app, priv) = V[n]
    <3> HIDE DEF V
    <3> QED
      BY DEF NameOf, S132!resolve, V
  <2> QED
    BY <2>1
<1>3. /\ n \in {"XPUB", "YPUB", "ZPUB", "YPUB_MULTISIG", "ZPUB_MULTISIG"} <=> net = "Main" /\ ~priv
      /\ n \in {"XPRV", "YPRV", "ZPRV", "YPRV_MULTISIG", "ZPRV_MULTISIG"} <=> net = "Main" /\ priv
      /\ n \in {"TPUB", "UPUB", "VPUB", "UPUB_MULTISIG", "VPUB_MULTISIG"} <=> net = "Test" /\ ~priv
      /\ n \in {"TPRV", "UPRV", "VPRV", "UPRV_MULTISIG", "VPRV_MULTISIG"} <=> net = "Test" /\ priv
  BY DEF NameOf, S132!NetworkKind, S132!KeyApplication
<1>4. /\ n \in {"YPUB", "YPRV"} <=> net = "Main" /\ app = "Nested"
      /\ n \in {"UPUB", "UPRV"} <=> net = "Test" /\ app = "Nested"
      /\ n \in {"ZPUB", "ZPRV"} <=> net = "Main" /\ app = "SegWit"
      /\ n \in {"VPUB", "VPRV"} <=> net = "Test" /\ app = "SegWit"
  BY DEF NameOf, S132!NetworkKind, S132!KeyApplication
<1>5. /\ n \in {"YPUB_MULTISIG", "YPRV_MULTISIG"} <=> net = "Main" /\ app = "NestedMultisig"
      /\ n \in {"UPUB_MULTISIG", "UPRV_MULTISIG"} <=> net = "Test" /\ app = "NestedMultisig"
      /\ n \in {"ZPUB_MULTISIG", "ZPRV_MULTISIG"} <=> net = "Main" /\ app = "SegWitMultisig"
      /\ n \in {"VPUB_MULTISIG", "VPRV_MULTISIG"} <=> net = "Test" /\ app = "SegWitMultisig"
  BY DEF NameOf, S132!NetworkKind, S132!KeyApplication
<1> QED
  BY <1>1, <1>2, <1>3, <1>4, <1>5

\* Whether version bytes are of a private key, and their network, as they were resolved.
LEMMA TellsKindAndNetwork ==
    ASSUME NEW net \in S132!NetworkKind, NEW app \in S132!KeyApplication, NEW priv \in BOOLEAN
    PROVE  LET kv == S132!resolve(net, app, priv)
           IN  /\ S132!is_pub(kv) = {~priv} /\ S132!is_prv(kv) = {priv}
               /\ S132!network_of(kv) = {net}
<1> DEFINE n == NameOf(net, app, priv)
           kv == S132!resolve(net, app, priv)
           Pubs == {"XPUB", "YPUB", "ZPUB", "TPUB", "UPUB", "VPUB", "YPUB_MULTISIG",
                    "ZPUB_MULTISIG", "UPUB_MULTISIG", "VPUB_MULTISIG"}
           Prvs == {"XPRV", "YPRV", "ZPRV", "TPRV", "UPRV", "VPRV", "YPRV_MULTISIG",
                    "ZPRV_MULTISIG", "UPRV_MULTISIG", "VPRV_MULTISIG"}
           Mains == {"XPRV", "XPUB", "YPRV", "YPUB", "ZPRV", "ZPUB", "YPRV_MULTISIG",
                     "YPUB_MULTISIG", "ZPRV_MULTISIG", "ZPUB_MULTISIG"}
           Tests == {"TPRV", "TPUB", "UPRV", "UPUB", "VPRV", "VPUB", "UPRV_MULTISIG",
                     "UPUB_MULTISIG", "VPRV_MULTISIG", "VPUB_MULTISIG"}
<1>1. n \in Names /\ kv = S132!VERSION_MAGIC[n]
  BY NamesTell
<1>2. /\ n \in Pubs <=> ~priv
      /\ n \in Prvs <=> priv
      /\ n \in Mains <=> net = "Main"
      /\ n \in Tests <=> net = "Test"
  <2>1. net = "Main" \/ net = "Test"
    BY DEF S132!NetworkKind
  <2> HIDE DEF n
  <2> QED
    BY NamesTell, <2>1 DEF n
<1>3. /\ Pubs \subseteq Names /\ Prvs \subseteq Names
      /\ Mains \subseteq Names /\ Tests \subseteq Names
  BY DEF Names
<1> HIDE DEF n, Pubs, Prvs, Mains, Tests
<1>4. /\ kv \in S132!Any(Pubs) <=> ~priv
      /\ kv \in S132!Any(Prvs) <=> priv
      /\ kv \in S132!Any(Mains) <=> net = "Main"
      /\ kv \in S132!Any(Tests) <=> net = "Test"
  BY <1>1, <1>2, <1>3, MagicTells
<1> HIDE DEF kv
<1>5. S132!is_pub(kv) = IF kv \in S132!Any(Pubs) THEN {TRUE}
                        ELSE IF kv \in S132!Any(Prvs) THEN {FALSE} ELSE {}
  BY DEF S132!is_pub, Pubs, Prvs
<1>6. S132!network_of(kv) = IF kv \in S132!Any(Mains) THEN {"Main"}
                            ELSE IF kv \in S132!Any(Tests) THEN {"Test"} ELSE {}
  BY DEF S132!network_of, Mains, Tests
<1>7. S132!is_pub(kv) = {~priv}
  BY <1>4, <1>5
<1>8. S132!is_prv(kv) = {priv}
  <2>1. {~v : v \in {~priv}} = {~(~priv)}
    BY Zenon
  <2>2. (~(~priv)) = priv
    OBVIOUS
  <2> QED
    BY <1>7, <2>1, <2>2 DEF S132!is_prv
<1>9. S132!network_of(kv) = {net}
  BY <1>4, <1>6 DEF S132!NetworkKind
<1> QED
  BY <1>7, <1>8, <1>9 DEF kv

\* The use version bytes tell of is the one they were resolved for, where they tell of one.
LEMMA TellsApplication ==
    ASSUME NEW net \in S132!NetworkKind, NEW app \in S132!KeyApplication, NEW priv \in BOOLEAN
    PROVE  S132!application(S132!resolve(net, app, priv)) = {app} \ {"Hashed"}
<1> DEFINE n == NameOf(net, app, priv)
           kv == S132!resolve(net, app, priv)
           Nested == {"YPUB", "YPRV", "UPUB", "UPRV"}
           NestedMultisig == {"YPUB_MULTISIG", "YPRV_MULTISIG", "UPUB_MULTISIG", "UPRV_MULTISIG"}
           SegWit == {"ZPUB", "ZPRV", "VPUB", "VPRV"}
           SegWitMultisig == {"ZPUB_MULTISIG", "ZPRV_MULTISIG", "VPUB_MULTISIG", "VPRV_MULTISIG"}
<1>1. n \in Names /\ kv = S132!VERSION_MAGIC[n]
  BY NamesTell
<1>2. /\ n \in Nested <=> app = "Nested"
      /\ n \in NestedMultisig <=> app = "NestedMultisig"
      /\ n \in SegWit <=> app = "SegWit"
      /\ n \in SegWitMultisig <=> app = "SegWitMultisig"
  <2>1. net = "Main" \/ net = "Test"
    BY DEF S132!NetworkKind
  <2> HIDE DEF n
  <2> QED
    BY NamesTell, <2>1 DEF n
<1>3. /\ Nested \subseteq Names /\ NestedMultisig \subseteq Names
      /\ SegWit \subseteq Names /\ SegWitMultisig \subseteq Names
  BY DEF Names
<1> HIDE DEF n, Nested, NestedMultisig, SegWit, SegWitMultisig
<1>4. /\ kv \in S132!Any(Nested) <=> app = "Nested"
      /\ kv \in S132!Any(NestedMultisig) <=> app = "NestedMultisig"
      /\ kv \in S132!Any(SegWit) <=> app = "SegWit"
      /\ kv \in S132!Any(SegWitMultisig) <=> app = "SegWitMultisig"
  BY <1>1, <1>2, <1>3, MagicTells
<1> HIDE DEF kv
<1>5. S132!application(kv) = IF kv \in S132!Any(Nested) THEN {"Nested"}
                             ELSE IF kv \in S132!Any(NestedMultisig) THEN {"NestedMultisig"}
                             ELSE IF kv \in S132!Any(SegWit) THEN {"SegWit"}
                             ELSE IF kv \in S132!Any(SegWitMultisig) THEN {"SegWitMultisig"}
                             ELSE {}
  BY DEF S132!application, Nested, NestedMultisig, SegWit, SegWitMultisig
<1> QED
  BY <1>4, <1>5 DEF S132!KeyApplication, kv

\* A private version turns into the public one of the same use, and back.
LEMMA TurnsInto ==
    ASSUME NEW net \in S132!NetworkKind, NEW app \in S132!KeyApplication, NEW priv \in BOOLEAN
    PROVE  LET kv == S132!resolve(net, app, priv)
           IN  /\ S132!make_pub(kv) = {S132!resolve(net, app, FALSE)}
               /\ S132!make_prv(kv) = {S132!resolve(net, app, TRUE)}
<1> DEFINE p == NameOf(net, app, FALSE)
           q == NameOf(net, app, TRUE)
           kv == S132!resolve(net, app, priv)
           V(m) == S132!VERSION_MAGIC[m]
           Pubs == DOMAIN S132!Privates
           Prvs == DOMAIN S132!Publics
<1>1. /\ p \in Pubs /\ p \notin Prvs /\ q \in Prvs /\ q \notin Pubs
      /\ S132!Publics[q] = p /\ S132!Privates[p] = q
  BY DEF NameOf, S132!NetworkKind, S132!KeyApplication, S132!Publics, S132!Privates
<1>2. Pubs \subseteq Names /\ Prvs \subseteq Names
  BY DEF Names, S132!Publics, S132!Privates
<1>3. S132!resolve(net, app, FALSE) = V(p) /\ S132!resolve(net, app, TRUE) = V(q)
  <2>1. \A b \in BOOLEAN : S132!resolve(net, app, b) = V(NameOf(net, app, b))
    BY NamesTell
  <2> QED
    BY <2>1
<1>4. kv = IF priv THEN V(q) ELSE V(p)
  BY <1>3
<1> HIDE DEF p, q, kv, Pubs, Prvs
<1>5. \A m, o \in Names : V(m) = V(o) => m = o
  <2> SUFFICES ASSUME NEW m \in Names, NEW o \in Names, V(m) = V(o)  PROVE m = o
    OBVIOUS
  <2>1. V(m) \in S132!Any({o}) <=> m \in {o}
    BY MagicTells
  <2>2. V(o) \in S132!Any({o})
    BY MagicTells
  <2> QED
    BY <2>1, <2>2
<1>6. /\ S132!make_pub(kv) = {V(S132!Publics[m]) : m \in {k \in Prvs : V(k) = kv}}
                                \cup ({kv} \cap {V(k) : k \in Pubs})
      /\ S132!make_prv(kv) = {V(S132!Privates[m]) : m \in {k \in Pubs : V(k) = kv}}
                                \cup ({kv} \cap {V(k) : k \in Prvs})
  BY DEF S132!make_pub, S132!make_prv, S132!Mapped, S132!Any, Pubs, Prvs
<1> HIDE DEF V
<1>7. CASE priv
  <2>1. {k \in Prvs : V(k) = kv} = {q} /\ {k \in Pubs : V(k) = kv} = {}
    BY <1>1, <1>2, <1>4, <1>5, <1>7
  <2>2. S132!make_pub(kv) = {V(p)} /\ S132!make_prv(kv) = {V(q)}
    BY <1>1, <1>4, <1>6, <1>7, <2>1
  <2> QED
    BY <1>3, <2>2 DEF V, kv
<1>8. CASE ~priv
  <2>1. {k \in Pubs : V(k) = kv} = {p} /\ {k \in Prvs : V(k) = kv} = {}
    BY <1>1, <1>2, <1>4, <1>5, <1>8
  <2>2. S132!make_pub(kv) = {V(p)} /\ S132!make_prv(kv) = {V(q)}
    BY <1>1, <1>4, <1>6, <1>8, <2>1
  <2> QED
    BY <1>3, <2>2 DEF V, kv
<1> QED
  BY <1>7, <1>8

\* A written key is read back with its network, and only as what it is.
LEMMA ReadsBack ==
    ASSUME NEW key, NEW app \in S132!KeyApplication, NEW priv \in BOOLEAN,
           key.network \in S132!NetworkKind,
           key = [network |-> key.network, body |-> key.body]
    PROVE  LET written == S132!to_slip132_string(key, app, priv)
           IN  /\ S132!from_slip132_pub(written) = (IF priv THEN {} ELSE {key})
               /\ S132!from_slip132_prv(written) = (IF priv THEN {key} ELSE {})
<1> DEFINE n == NameOf(key.network, app, priv)
           written == S132!to_slip132_string(key, app, priv)
           kv == S132!resolve(key.network, app, priv)
           MainPub == {"XPUB", "YPUB", "ZPUB", "YPUB_MULTISIG", "ZPUB_MULTISIG"}
           TestPub == {"TPUB", "UPUB", "VPUB", "UPUB_MULTISIG", "VPUB_MULTISIG"}
           MainPrv == {"XPRV", "YPRV", "ZPRV", "YPRV_MULTISIG", "ZPRV_MULTISIG"}
           TestPrv == {"TPRV", "UPRV", "VPRV", "UPRV_MULTISIG", "VPRV_MULTISIG"}
<1>1. n \in Names /\ kv = S132!VERSION_MAGIC[n]
  BY NamesTell
<1>2. /\ n \in MainPub <=> key.network = "Main" /\ ~priv
      /\ n \in TestPub <=> key.network = "Test" /\ ~priv
      /\ n \in MainPrv <=> key.network = "Main" /\ priv
      /\ n \in TestPrv <=> key.network = "Test" /\ priv
  <2> HIDE DEF n
  <2> QED
    BY NamesTell DEF n
<1>3. MainPub \subseteq Names /\ TestPub \subseteq Names /\ MainPrv \subseteq Names /\ TestPrv \subseteq Names
  BY DEF Names
<1>4. written.version = kv /\ written.body = key.body
  BY DEF S132!to_slip132_string
<1> HIDE DEF n, MainPub, TestPub, MainPrv, TestPrv
<1>5. /\ kv \in S132!Any(MainPub) <=> key.network = "Main" /\ ~priv
      /\ kv \in S132!Any(TestPub) <=> key.network = "Test" /\ ~priv
      /\ kv \in S132!Any(MainPrv) <=> key.network = "Main" /\ priv
      /\ kv \in S132!Any(TestPrv) <=> key.network = "Test" /\ priv
  BY <1>1, <1>2, <1>3, MagicTells
<1> HIDE DEF kv, written
<1>6. S132!from_slip132_pub(written)
        = {[network |-> k, body |-> key.body] :
              k \in {j \in S132!NetworkKind : kv \in S132!Any(IF j = "Main" THEN MainPub ELSE TestPub)}}
  BY <1>4 DEF S132!from_slip132_pub, MainPub, TestPub
<1>7. S132!from_slip132_prv(written)
        = {[network |-> k, body |-> key.body] :
              k \in {j \in S132!NetworkKind : kv \in S132!Any(IF j = "Main" THEN MainPrv ELSE TestPrv)}}
  BY <1>4 DEF S132!from_slip132_prv, MainPrv, TestPrv
<1>8. {j \in S132!NetworkKind : kv \in S132!Any(IF j = "Main" THEN MainPub ELSE TestPub)}
        = IF priv THEN {} ELSE {key.network}
  BY <1>5 DEF S132!NetworkKind
<1>9. {j \in S132!NetworkKind : kv \in S132!Any(IF j = "Main" THEN MainPrv ELSE TestPrv)}
        = IF priv THEN {key.network} ELSE {}
  BY <1>5 DEF S132!NetworkKind
<1>10. S132!from_slip132_pub(written) = IF priv THEN {} ELSE {key}
  BY <1>6, <1>8
<1>11. S132!from_slip132_prv(written) = IF priv THEN {key} ELSE {}
  BY <1>7, <1>9
<1> QED
  BY <1>10, <1>11 DEF written

\* What the version bytes of a use say of the path: its purpose and its script.
Purpose(app) == IF app = "Nested" THEN 49 ELSE IF app = "SegWit" THEN 84 ELSE 48
Script(app) == IF app = "SegWitMultisig" THEN << S132!Hardened(2) >>
               ELSE IF app = "NestedMultisig" THEN << S132!Hardened(1) >> ELSE << >>
BasePath(net, app) ==
    << S132!Hardened(Purpose(app)), S132!Hardened(IF net = "Main" THEN 0 ELSE 1) >>
WholePath(net, app, account) == BasePath(net, app) \o << account >> \o Script(app)

\* The path of a key is that of its use and network, for a multisig use only with an account.
LEMMA PathOfUse ==
    ASSUME NEW net \in S132!NetworkKind, NEW app \in S132!KeyApplication, NEW priv \in BOOLEAN,
           NEW a \in Child
    PROVE  LET kv == S132!resolve(net, app, priv)
           IN  /\ S132!derivation_path(kv, {})
                    = IF app \in {"Nested", "SegWit"} THEN {BasePath(net, app)} ELSE {}
               /\ app # "Hashed" => S132!derivation_path(kv, {a}) = {WholePath(net, app, a)}
               /\ app = "Hashed" => S132!derivation_path(kv, {a}) = {}
<1> DEFINE n == NameOf(net, app, priv)
           kv == S132!resolve(net, app, priv)
           coin == IF net = "Main" THEN 0 ELSE 1
           Y == {"YPUB", "YPRV"}
           U == {"UPUB", "UPRV"}
           Z == {"ZPUB", "ZPRV"}
           V == {"VPUB", "VPRV"}
           MainMultisig == {"ZPUB_MULTISIG", "ZPRV_MULTISIG", "YPUB_MULTISIG", "YPRV_MULTISIG"}
           TestMultisig == {"UPUB_MULTISIG", "UPRV_MULTISIG", "VPUB_MULTISIG", "VPRV_MULTISIG"}
           SegWit == {"ZPUB_MULTISIG", "ZPRV_MULTISIG", "VPUB_MULTISIG", "VPRV_MULTISIG"}
           Nested == {"YPUB_MULTISIG", "YPRV_MULTISIG", "UPUB_MULTISIG", "UPRV_MULTISIG"}
           Purposes(account) ==
               CASE kv \in S132!Any(Y) -> {<< 49, 0 >>}
                 [] kv \in S132!Any(U) -> {<< 49, 1 >>}
                 [] kv \in S132!Any(Z) -> {<< 84, 0 >>}
                 [] kv \in S132!Any(V) -> {<< 84, 1 >>}
                 [] kv \in S132!Any(MainMultisig) /\ account # {} -> {<< 48, 0 >>}
                 [] kv \in S132!Any(TestMultisig) /\ account # {} -> {<< 48, 1 >>}
                 [] OTHER -> {}
           Scripts == IF kv \in S132!Any(SegWit) THEN << S132!Hardened(2) >>
                      ELSE IF kv \in S132!Any(Nested) THEN << S132!Hardened(1) >> ELSE << >>
           Base(p) == << S132!Hardened(p[1]), S132!Hardened(p[2]) >>
<1>1. n \in Names /\ kv = S132!VERSION_MAGIC[n]
  BY NamesTell
<1>2. /\ n \in Y <=> net = "Main" /\ app = "Nested"
      /\ n \in U <=> net = "Test" /\ app = "Nested"
      /\ n \in Z <=> net = "Main" /\ app = "SegWit"
      /\ n \in V <=> net = "Test" /\ app = "SegWit"
      /\ n \in MainMultisig <=> net = "Main" /\ app \in {"NestedMultisig", "SegWitMultisig"}
      /\ n \in TestMultisig <=> net = "Test" /\ app \in {"NestedMultisig", "SegWitMultisig"}
      /\ n \in SegWit <=> app = "SegWitMultisig"
      /\ n \in Nested <=> app = "NestedMultisig"
  <2>1. net = "Main" \/ net = "Test"
    BY DEF S132!NetworkKind
  <2> HIDE DEF n
  <2> QED
    BY NamesTell, <2>1 DEF n
<1>3. /\ Y \subseteq Names /\ U \subseteq Names /\ Z \subseteq Names /\ V \subseteq Names
      /\ MainMultisig \subseteq Names /\ TestMultisig \subseteq Names
      /\ SegWit \subseteq Names /\ Nested \subseteq Names
  BY DEF Names
<1> HIDE DEF n, Y, U, Z, V, MainMultisig, TestMultisig, SegWit, Nested
<1>4. /\ kv \in S132!Any(Y) <=> net = "Main" /\ app = "Nested"
      /\ kv \in S132!Any(U) <=> net = "Test" /\ app = "Nested"
      /\ kv \in S132!Any(Z) <=> net = "Main" /\ app = "SegWit"
      /\ kv \in S132!Any(V) <=> net = "Test" /\ app = "SegWit"
      /\ kv \in S132!Any(MainMultisig) <=> net = "Main" /\ app \in {"NestedMultisig", "SegWitMultisig"}
      /\ kv \in S132!Any(TestMultisig) <=> net = "Test" /\ app \in {"NestedMultisig", "SegWitMultisig"}
      /\ kv \in S132!Any(SegWit) <=> app = "SegWitMultisig"
      /\ kv \in S132!Any(Nested) <=> app = "NestedMultisig"
  BY <1>1, <1>2, <1>3, MagicTells
<1> HIDE DEF kv
<1>5. \A account :
        S132!derivation_path(kv, account)
          = {Base(p) : p \in {q \in Purposes(account) : account = {}}}
              \cup {Base(pa[1]) \o << pa[2] >> \o Scripts : pa \in Purposes(account) \X account}
  BY DEF S132!derivation_path, Y, U, Z, V, MainMultisig, TestMultisig, SegWit, Nested
<1>6. Scripts = Script(app)
  BY <1>4 DEF Script
<1>7. Purposes({}) = IF app \in {"Nested", "SegWit"} THEN {<< Purpose(app), coin >>} ELSE {}
  BY <1>4 DEF Purpose, S132!NetworkKind, S132!KeyApplication
<1>8. Purposes({a}) = IF app # "Hashed" THEN {<< Purpose(app), coin >>} ELSE {}
  BY <1>4 DEF Purpose, S132!NetworkKind, S132!KeyApplication
<1>9. Base(<< Purpose(app), coin >>) = BasePath(net, app)
  BY DEF BasePath
<1> HIDE DEF Base, Scripts, coin, Purposes
<1>10. S132!derivation_path(kv, {})
         = IF app \in {"Nested", "SegWit"} THEN {Base(<< Purpose(app), coin >>)} ELSE {}
  <2>1. Purposes({}) \X {} = {}
    OBVIOUS
  <2>2. {Base(pa[1]) \o << pa[2] >> \o Scripts : pa \in Purposes({}) \X {}} = {}
    BY <2>1
  <2>3. S132!derivation_path(kv, {}) = {Base(p) : p \in Purposes({})}
    <3>1. {q \in Purposes({}) : {} = {}} = Purposes({})
      OBVIOUS
    <3>2. S132!derivation_path(kv, {})
            = {Base(p) : p \in {q \in Purposes({}) : {} = {}}}
                \cup {Base(pa[1]) \o << pa[2] >> \o Scripts : pa \in Purposes({}) \X {}}
      BY <1>5, Zenon
    <3> QED
      BY <2>2, <3>1, <3>2
  <2> QED
    BY <1>7, <2>3
<1>11. S132!derivation_path(kv, {a})
         = IF app # "Hashed" THEN {WholePath(net, app, a)} ELSE {}
  <2>1. S132!derivation_path(kv, {a})
          = {Base(pa[1]) \o << pa[2] >> \o Scripts : pa \in Purposes({a}) \X {a}}
    BY <1>5
  <2>2. CASE app = "Hashed"
    <3>1. Purposes({a}) \X {a} = {}
      BY <1>8, <2>2
    <3> QED
      BY <2>1, <2>2, <3>1
  <2>3. CASE app # "Hashed"
    <3> DEFINE pc == << Purpose(app), coin >>
    <3>1. Purposes({a}) = {pc}
      BY <1>8, <2>3
    <3> HIDE DEF pc
    <3>2. Purposes({a}) \X {a} = {<< pc, a >>}
      BY <3>1
    <3> DEFINE Whole(pa) == Base(pa[1]) \o << pa[2] >> \o Scripts
    <3>3. S132!derivation_path(kv, {a}) = {Whole(pa) : pa \in {<< pc, a >>}}
      BY <2>1, <3>2
    <3>4. Whole(<< pc, a >>) = Base(pc) \o << a >> \o Scripts
      OBVIOUS
    <3> HIDE DEF Whole
    <3>5. S132!derivation_path(kv, {a}) = {Whole(<< pc, a >>)}
      BY <3>3
    <3> QED
      BY <1>6, <1>9, <2>3, <3>4, <3>5 DEF pc, WholePath
  <2> QED
    BY <2>2, <2>3
<1> QED
  BY <1>9, <1>10, <1>11 DEF kv, coin

\* A path that begins with the purpose of a use, and has its script, is read as that use.
LEMMA UseOfPath ==
    ASSUME NEW app \in S132!KeyApplication \ {"Hashed"}, NEW path, Len(path) > 0,
           path[1] = S132!Hardened(Purpose(app)),
           app \in {"NestedMultisig", "SegWitMultisig"}
             => Len(path) >= 4 /\ path[4] = Script(app)[1]
    PROVE  S132!from_derivation_path(path) = {app}
<1> DEFINE H(i) == S132!Hardened(i)
           Begins(use) == \E p \in S132!to_derivation_path(use) : Len(path) > 0 /\ path[1] = p[1]
           standard == {use \in S132!KeyApplication : Begins(use)}
<1>1. \A i, j \in Nat : H(i) = H(j) => i = j
  <2> SUFFICES ASSUME NEW i \in Nat, NEW j \in Nat, H(i) = H(j)  PROVE i = j
    OBVIOUS
  <2>1. H(i).index = i /\ H(j).index = j
    BY DEF S132!Hardened
  <2> QED
    BY <2>1
<1>2. S132!to_derivation_path("Hashed") = {<< H(44) >>}
      /\ S132!to_derivation_path("Nested") = {<< H(49) >>}
      /\ S132!to_derivation_path("SegWit") = {<< H(84) >>}
      /\ S132!to_derivation_path("NestedMultisig") = {}
      /\ S132!to_derivation_path("SegWitMultisig") = {}
  <2> HIDE DEF H
  <2> QED
    BY DEF S132!to_derivation_path, H
<1> HIDE DEF H
<1>3. path[1] = H(Purpose(app))
  BY DEF H
<1>4. /\ Begins("Hashed") <=> H(Purpose(app)) = H(44)
      /\ Begins("Nested") <=> H(Purpose(app)) = H(49)
      /\ Begins("SegWit") <=> H(Purpose(app)) = H(84)
      /\ ~Begins("NestedMultisig") /\ ~Begins("SegWitMultisig")
  <2>1. \A h : (\E p \in {<< h >>} : Len(path) > 0 /\ path[1] = p[1]) <=> path[1] = h
    OBVIOUS
  <2>2. /\ Begins("Hashed") <=> path[1] = H(44)
        /\ Begins("Nested") <=> path[1] = H(49)
        /\ Begins("SegWit") <=> path[1] = H(84)
    <3> DEFINE h44 == H(44)
               h49 == H(49)
               h84 == H(84)
    <3>1. /\ S132!to_derivation_path("Hashed") = {<< h44 >>}
          /\ S132!to_derivation_path("Nested") = {<< h49 >>}
          /\ S132!to_derivation_path("SegWit") = {<< h84 >>}
      BY <1>2
    <3> HIDE DEF h44, h49, h84
    <3>2. /\ Begins("Hashed") <=> path[1] = h44
          /\ Begins("Nested") <=> path[1] = h49
          /\ Begins("SegWit") <=> path[1] = h84
      BY <2>1, <3>1
    <3> QED
      BY <3>2 DEF h44, h49, h84
  <2>3. ~Begins("NestedMultisig") /\ ~Begins("SegWitMultisig")
    BY <1>2
  <2> QED
    BY <1>3, <2>2, <2>3
<1>5. \A use \in S132!KeyApplication : Begins(use) <=> use = app /\ app \in {"Nested", "SegWit"}
  <2>1. /\ H(Purpose(app)) # H(44)
        /\ H(Purpose(app)) = H(49) <=> app = "Nested"
        /\ H(Purpose(app)) = H(84) <=> app = "SegWit"
    BY <1>1, SMT DEF Purpose
  <2> HIDE DEF Begins
  <2> QED
    BY <1>4, <2>1 DEF S132!KeyApplication
<1> HIDE DEF Begins
<1>6. standard = IF app \in {"Nested", "SegWit"} THEN {app} ELSE {}
  BY <1>5
<1>7. S132!from_derivation_path(path)
        = IF standard # {} THEN standard
          ELSE IF Len(path) >= 4 /\ path[1] = H(48) /\ path[4] = H(1) THEN {"NestedMultisig"}
          ELSE IF Len(path) >= 4 /\ path[1] = H(48) /\ path[4] = H(2) THEN {"SegWitMultisig"}
          ELSE {}
  BY DEF S132!from_derivation_path, Begins, H
<1>8. CASE app \in {"Nested", "SegWit"}
  BY <1>6, <1>7, <1>8
<1>9. CASE app \in {"NestedMultisig", "SegWitMultisig"}
  <2>1. path[1] = H(48)
    BY <1>3, <1>9 DEF Purpose
  <2>2. Len(path) >= 4 /\ path[4] = IF app = "NestedMultisig" THEN H(1) ELSE H(2)
    BY <1>9 DEF Script, H
  <2>3. H(1) # H(2)
    BY <1>1
  <2>4. standard = {}
    BY <1>6, <1>9
  <2> HIDE DEF standard
  <2> QED
    BY <1>7, <1>9, <2>1, <2>2, <2>3, <2>4
<1> QED
  BY <1>8, <1>9 DEF S132!KeyApplication

\* Any path version bytes stand for is one their use can be read from.
LEMMA PathsTellUse ==
    ASSUME NEW net \in S132!NetworkKind, NEW app \in S132!KeyApplication, NEW priv \in BOOLEAN,
           NEW a \in Child
    PROVE  LET kv == S132!resolve(net, app, priv)
           IN  /\ \A p \in S132!derivation_path(kv, {}) \cup S132!derivation_path(kv, {a}) :
                    S132!from_derivation_path(p) = {app}
               /\ app # "Hashed" => S132!derivation_path(kv, {a}) # {}
<1> DEFINE kv == S132!resolve(net, app, priv)
           base == BasePath(net, app)
           whole == WholePath(net, app, a)
<1>1. S132!derivation_path(kv, {}) = IF app \in {"Nested", "SegWit"} THEN {base} ELSE {}
  BY PathOfUse
<1>1a. /\ app # "Hashed" => S132!derivation_path(kv, {a}) = {whole}
       /\ app = "Hashed" => S132!derivation_path(kv, {a}) = {}
  BY PathOfUse
<1>2. app \in {"Nested", "SegWit"} => S132!from_derivation_path(base) = {app}
  <2> SUFFICES ASSUME app \in {"Nested", "SegWit"}
               PROVE  S132!from_derivation_path(base) = {app}
    OBVIOUS
  <2>1. Len(base) > 0 /\ base[1] = S132!Hardened(Purpose(app))
    BY DEF BasePath
  <2> HIDE DEF base
  <2> QED
    BY <2>1, UseOfPath
<1>3. app # "Hashed" => S132!from_derivation_path(whole) = {app}
  <2> SUFFICES ASSUME app # "Hashed"
               PROVE  S132!from_derivation_path(whole) = {app}
    OBVIOUS
  <2> DEFINE h == S132!Hardened(Purpose(app))
  <2>1. Len(whole) > 0 /\ whole[1] = h
    <3>1. CASE app \in {"Nested", "SegWit"}
      BY <3>1 DEF Script, WholePath, BasePath
    <3>2. CASE app \in {"NestedMultisig", "SegWitMultisig"}
      BY <3>2 DEF Script, WholePath, BasePath
    <3> QED
      BY <3>1, <3>2 DEF S132!KeyApplication
  <2>2. app \in {"NestedMultisig", "SegWitMultisig"}
          => Len(whole) >= 4 /\ whole[4] = Script(app)[1]
    BY DEF Script, WholePath, BasePath
  <2> HIDE DEF whole
  <2> QED
    BY <2>1, <2>2, UseOfPath
<1> HIDE DEF base, whole, kv
<1>4. \A p \in S132!derivation_path(kv, {}) \cup S132!derivation_path(kv, {a}) :
        S132!from_derivation_path(p) = {app}
  BY <1>1, <1>1a, <1>2, <1>3
<1>5. app # "Hashed" => S132!derivation_path(kv, {a}) # {}
  BY <1>1a
<1> QED
  BY <1>4, <1>5 DEF kv

---------------------------------------------------------------------------
(* The orders of a set.                                                     *)

\* A set in any order has each of its members once.
LEMMA OrdersOfSet ==
    ASSUME NEW S, IsFiniteSet(S), NEW f \in SetToSeqs(S)
    PROVE  f \in Seq(S) /\ Len(f) = Cardinality(S) /\ ToSet(f) = S
<1> DEFINE n == Cardinality(S)
           D == 1..n
<1>1. n \in Nat
  BY FS_CardinalityType
<1>2. f \in [D -> S] /\ \A i, j \in D : i # j => f[i] # f[j]
  BY DEF SetToSeqs
<1>3. IsFiniteSet(D) /\ Cardinality(D) = n
  <2>1. Cardinality(D) = IF 1 > n THEN 0 ELSE n - 1 + 1
    BY <1>1, FS_Interval
  <2> QED
    BY <1>1, <2>1, FS_Interval
<1> HIDE DEF D
<1>4. f \in Injection(D, S)
  BY <1>2, Fun_IsInj
<1>5. f \in Surjection(D, S)
  BY <1>3, <1>4, FS_Injection
<1>6. \A x \in S : \E i \in D : f[i] = x
  BY <1>5 DEF Surjection
<1>7. ToSet(f) = S
  BY <1>2, <1>6 DEF ToSet
<1> QED
  BY <1>1, <1>2, <1>7, SeqOfLength DEF D

\* The order that is always the same is one of them.
LEMMA OneOrderOfSet ==
    ASSUME NEW S, IsFiniteSet(S)
    PROVE  SetToSeq(S) \in SetToSeqs(S)
<1> DEFINE D == 1..Cardinality(S)
<1>1. PICK g : g \in Bijection(D, S)
  BY FS_CardinalityType DEF ExistsBijection
<1>2. g \in [D -> S] /\ IsInjective(g)
  <2>1. g \in [D -> S] /\ \A a, b \in D : g[a] = g[b] => a = b
    BY <1>1, Fun_BijectionProperties
  <2> QED
    BY <2>1 DEF IsInjective
<1>3. SetToSeq(S) \in [D -> S] /\ IsInjective(SetToSeq(S))
  BY <1>2 DEF SetToSeq
<1> QED
  BY <1>3 DEF SetToSeqs, IsInjective

---------------------------------------------------------------------------
(* The inductive invariant.                                                 *)

\* A multisig wallet in the order its set of keys is given.
IsCollected(w) ==
    LET receiving == ToSet(w.receiving)
        change == ToSet(w.change)
    IN  /\ Collected(w.configuration, receiving, change) /\ w.network \in Network
        /\ w = generate_from_dpks(w.configuration, receiving, change, w.network)

IsDerived(w) == \E mn \in Mnemonic, n \in Network : w = generate(mn, NoPw, n)

\* What is in the file last made of the expected wallet.
HoldsJson == /\ file.form = "standard" /\ IsDerived(expected)
             /\ \E m \in BOOLEAN : file.data = SinglesigJson(expected, m)
HoldsEntropy == /\ file.form = "compact"
                /\ \E mn \in Mnemonic, n \in Network :
                        /\ expected = generate(mn, NoPw, n) /\ file.network = n
                        /\ file.data = [kind |-> "singlesig", entropy |-> mn]
HoldsExport == /\ file.form = "public" /\ expected \in Wallet /\ signer = expected
               /\ \E m \in BOOLEAN : file.data = SinglesigExport(expected, m)
HoldsDescriptors == /\ file.form \in {"standard", "public"} /\ IsCollected(expected)
                    /\ file.data = expected
HoldsStream == /\ file.form = "compact" /\ IsCollected(expected)
               /\ file.network = expected.network
               /\ \E rs \in SetToSeqs(ToSet(expected.receiving)),
                     cs \in SetToSeqs(ToSet(expected.change)) :
                        file.data = [kind |-> "multisig",
                                     stream |-> SerializeMultisig(expected.configuration, rs, cs)]

FileHolds ==
    file # Nothing => \/ HoldsJson \/ HoldsEntropy \/ HoldsExport
                      \/ HoldsDescriptors \/ HoldsStream

MemoryHolds == /\ IsSinglesig(memory) => IsDerived(memory)
               /\ IsMultisig(memory) => IsCollected(memory)

SignerHolds == /\ signer \in Wallet \cup {Nothing}
               /\ expected.kind = "multisig" /\ signer # Nothing => HasSigner(expected, signer)

IInv == ComesBackWhole /\ broken = FALSE /\ MemoryHolds /\ SignerHolds /\ FileHolds

\* The keys of a wallet that is made are those it is made of.
LEMMA MadeOfKeys ==
    ASSUME NEW c, NEW r, NEW ch, NEW n \in Network, Collected(c, r, ch)
    PROVE  LET w == generate_from_dpks(c, r, ch, n)
           IN  /\ IsCollected(w) /\ w.kind = "multisig" /\ w.configuration = c /\ w.network = n
               /\ w.receiving = SetToSeq(r) /\ w.change = SetToSeq(ch)
               /\ ToSet(w.receiving) = r /\ ToSet(w.change) = ch
<1> DEFINE w == generate_from_dpks(c, r, ch, n)
<1>1. /\ w.kind = "multisig" /\ w.configuration = c /\ w.network = n
      /\ w.receiving = SetToSeq(r) /\ w.change = SetToSeq(ch)
  BY DEF generate_from_dpks, ms_dpks_to_ddpk
<1>2. IsFiniteSet(r) /\ IsFiniteSet(ch)
  BY DEF Collected
<1>3. ToSet(SetToSeq(r)) = r /\ ToSet(SetToSeq(ch)) = ch
  BY <1>2, OneOrderOfSet, OrdersOfSet
<1> HIDE DEF w
<1>4. ToSet(w.receiving) = r /\ ToSet(w.change) = ch
  BY <1>1, <1>3
<1>5. IsCollected(w)
  BY <1>1, <1>4 DEF IsCollected, w
<1> QED
  BY <1>1, <1>4, <1>5 DEF w

\* What is known of a wallet of collected keys.
LEMMA CollectedWallet ==
    ASSUME NEW w, IsCollected(w)
    PROVE  /\ w.kind = "multisig" /\ Allowed(w.configuration) /\ w.network \in Network
           /\ w.configuration \in [required : Length, total : Length]
           /\ ms_ddpk_to_dpks(w) = [ok |-> TRUE, receiving |-> ToSet(w.receiving),
                                    change |-> ToSet(w.change)]
           /\ IsFiniteSet(ToSet(w.receiving)) /\ IsFiniteSet(ToSet(w.change))
           /\ Cardinality(ToSet(w.receiving)) = w.configuration.total
           /\ Cardinality(ToSet(w.change)) = w.configuration.total
           /\ ToSet(w.receiving) \subseteq DescriptorKey /\ ToSet(w.change) \subseteq DescriptorKey
<1> DEFINE c == w.configuration
           r == ToSet(w.receiving)
           ch == ToSet(w.change)
<1>1. Collected(c, r, ch) /\ w.network \in Network
      /\ w = generate_from_dpks(c, r, ch, w.network)
  BY DEF IsCollected
<1>2. /\ w.kind = "multisig" /\ w.receiving = SetToSeq(r) /\ w.change = SetToSeq(ch)
  <2> HIDE DEF c, r, ch
  <2> QED
    BY <1>1, MadeOfKeys
<1>3. /\ Allowed(c) /\ c \in [required : Nat, total : Nat]
      /\ IsFiniteSet(r) /\ IsFiniteSet(ch) /\ Cardinality(r) = c.total /\ Cardinality(ch) = c.total
      /\ r \subseteq DescriptorKey /\ ch \subseteq DescriptorKey
  <2> HIDE DEF c, r, ch
  <2> QED
    BY <1>1 DEF Collected
<1>4. Len(w.receiving) = c.total /\ Len(w.change) = c.total
  <2> HIDE DEF c, r, ch
  <2>1. Len(SetToSeq(r)) = c.total /\ Len(SetToSeq(ch)) = c.total
    BY <1>3, OneOrderOfSet, OrdersOfSet
  <2> QED
    BY <1>2, <2>1
<1>5. c \in [required : Length, total : Length]
  <2>1. c.required \in Nat /\ c.total \in Nat /\ c.required <= c.total /\ c.total <= 15
    <3> HIDE DEF c
    <3> QED
      BY <1>3 DEF Allowed
  <2>2. c.required \in Length /\ c.total \in Length
    <3> HIDE DEF c
    <3> QED
      BY <2>1, SMT DEF Length
  <2>3. c = [required |-> c.required, total |-> c.total]
    <3> HIDE DEF c
    <3> QED
      BY <1>3
  <2> HIDE DEF c
  <2> QED
    BY <2>2, <2>3
<1>6. ms_ddpk_to_dpks(w) = [ok |-> TRUE, receiving |-> r, change |-> ch]
  BY <1>4 DEF ms_ddpk_to_dpks
<1> QED
  BY <1>1, <1>2, <1>3, <1>5, <1>6

\* The keys a singlesig wallet brings to a multisig wallet can be written down.
LEMMA KeysOfCosigner ==
    ASSUME NEW w \in Wallet, NEW child \in {0, 1}
    PROVE  multisig_public_descriptor(w, child) \in DescriptorKey
<1> DEFINE path == get_multisig_v0_derivation_path(w.network)
           o == [fingerprint |-> w.master_fingerprint, path |-> path]
           Fingerprinted == [fingerprint : Fingerprint, path : Path]
<1>1. PICK mn \in Mnemonic, pw \in SeedPw, n \in Network : w = generate(mn, pw, n)
  BY DEF Wallet
<1>2. w.network \in Network /\ w.multisig_xpub.network = Kind(n)
      /\ w.multisig_xpub = [network |-> w.multisig_xpub.network, body |-> w.multisig_xpub.body]
  BY <1>1 DEF generate
<1>3. w.multisig_xpub.body \in Body /\ w.master_fingerprint \in Fingerprint
  BY SeedAssumption
<1>4. w.multisig_xpub \in ExtendedKey
  <2>1. Kind(n) \in S132!NetworkKind
    BY DEF Kind, S132!NetworkKind
  <2> QED
    BY <1>2, <1>3, <2>1 DEF ExtendedKey
<1>5. \A i \in {0, 1, 2, 48} : S132!Hardened(i) \in Child /\ S132!Normal(i) \in Child
  BY SMT DEF S132!Hardened, S132!Normal, Child
<1>6. Coin(w.network) \in Child
  BY <1>5 DEF Coin
<1>7. path \in Path
  <2>1. path = << S132!Hardened(48), Coin(w.network), S132!Hardened(0), S132!Hardened(2) >>
    BY DEF get_multisig_v0_derivation_path
  <2>2. path \in Seq(Child) /\ Len(path) = 4
    BY <1>5, <1>6, <2>1
  <2>3. 4 \in Length
    BY SMT DEF Length
  <2> HIDE DEF path
  <2> QED
    BY <2>2, <2>3 DEF Path
<1> HIDE DEF path
<1>8. << o >> \in Origin
  <2>1. o \in Fingerprinted
    BY <1>3, <1>7
  <2> HIDE DEF o
  <2>2. << o >> \in Seq(Fingerprinted) /\ Len(<< o >>) = 1
    BY <2>1
  <2>3. Len(<< o >>) <= 1
    BY <2>2
  <2> QED
    BY <2>2, <2>3 DEF Origin
<1>9. << S132!Normal(child) >> \in Path
  <2>1. << S132!Normal(child) >> \in Seq(Child) /\ Len(<< S132!Normal(child) >>) = 1
    BY <1>5
  <2>2. 1 \in Length
    BY SMT DEF Length
  <2> QED
    BY <2>1, <2>2 DEF Path
<1>10. multisig_public_descriptor(w, child)
         = [type |-> "XPub", origin |-> << o >>, xkey |-> w.multisig_xpub,
            derivation_path |-> << S132!Normal(child) >>, wildcard |-> 1]
  BY DEF multisig_public_descriptor, PublicDescriptor, path
<1>11. 1 \in Wildcard
  BY DEF Wildcard
<1> HIDE DEF o
<1> QED
  BY <1>4, <1>8, <1>9, <1>10, <1>11 DEF DescriptorKey

\* One more key for each use makes a wallet of two cosigners, and its signer is known there.
LEMMA FoundWallet ==
    ASSUME NEW cosigner \in Wallet
    PROVE  LET r == {multisig_public_descriptor(cosigner, 0)} \cup Partner.receiving
               ch == {multisig_public_descriptor(cosigner, 1)} \cup Partner.change
               w == generate_from_dpks([required |-> 2, total |-> 2], r, ch, cosigner.network)
           IN  IsCollected(w) /\ w.kind = "multisig" /\ HasSigner(w, cosigner)
<1> DEFINE d0 == multisig_public_descriptor(cosigner, 0)
           d1 == multisig_public_descriptor(cosigner, 1)
           r == {d0} \cup Partner.receiving
           ch == {d1} \cup Partner.change
           c == [required |-> 2, total |-> 2]
           w == generate_from_dpks(c, r, ch, cosigner.network)
<1>1. d0 \in DescriptorKey /\ d1 \in DescriptorKey
  BY KeysOfCosigner
<1>2. d0 \notin Partner.receiving /\ d1 \notin Partner.change
  BY PartnerAssumption
<1>3. cosigner.network \in Network
  BY DEF Wallet, generate
<1>4. /\ Partner.receiving \subseteq DescriptorKey /\ Partner.change \subseteq DescriptorKey
      /\ IsFiniteSet(Partner.receiving) /\ IsFiniteSet(Partner.change)
      /\ Cardinality(Partner.receiving) = 1 /\ Cardinality(Partner.change) = 1
  BY PartnerAssumption
<1> HIDE DEF d0, d1
<1>5. IsFiniteSet(r) /\ Cardinality(r) = 2 /\ IsFiniteSet(ch) /\ Cardinality(ch) = 2
  <2>1. /\ IsFiniteSet(Partner.receiving \cup {d0}) /\ IsFiniteSet(Partner.change \cup {d1})
        /\ Cardinality(Partner.receiving \cup {d0}) = 1 + 1
        /\ Cardinality(Partner.change \cup {d1}) = 1 + 1
    BY <1>2, <1>4, FS_AddElement
  <2>2. r = Partner.receiving \cup {d0} /\ ch = Partner.change \cup {d1}
    OBVIOUS
  <2> HIDE DEF r, ch
  <2> QED
    BY <2>1, <2>2
<1>6. r \subseteq DescriptorKey /\ ch \subseteq DescriptorKey
  BY <1>1, <1>4
<1>7. c \in [required : Nat, total : Nat] /\ c.total = 2 /\ Allowed(c)
  BY DEF Allowed
<1>8. d0 \in r /\ d1 \in ch
  OBVIOUS
<1> HIDE DEF r, ch, c
<1>9. Collected(c, r, ch)
  BY <1>5, <1>6, <1>7 DEF Collected
<1>10. IsCollected(w) /\ w.kind = "multisig" /\ ToSet(w.receiving) = r /\ ToSet(w.change) = ch
  BY <1>3, <1>9, MadeOfKeys
<1> HIDE DEF w
<1>11. HasSigner(w, cosigner)
  BY <1>8, <1>10 DEF HasSigner, d0, d1
<1> QED
  BY <1>10, <1>11 DEF w, r, ch, c, d0, d1

\* Whether a wallet knows a signer depends on its keys alone.
LEMMA SameKeysSameSigner ==
    ASSUME NEW w, NEW v, NEW s, HasSigner(w, s),
           ToSet(v.receiving) = ToSet(w.receiving), ToSet(v.change) = ToSet(w.change)
    PROVE  HasSigner(v, s)
BY DEF HasSigner

\* The keys of a wallet, collected again for another network, are the wallet with that network.
LEMMA OtherNetwork ==
    ASSUME NEW w, IsCollected(w), NEW n \in Network
    PROVE  LET v == generate_from_dpks(w.configuration, ToSet(w.receiving), ToSet(w.change), n)
           IN  /\ IsCollected(v) /\ v.kind = "multisig" /\ v = [w EXCEPT !.network = n]
               /\ v.network = n /\ v.configuration = w.configuration
               /\ ToSet(v.receiving) = ToSet(w.receiving) /\ ToSet(v.change) = ToSet(w.change)
<1> DEFINE c == w.configuration
           r == ToSet(w.receiving)
           ch == ToSet(w.change)
           v == generate_from_dpks(c, r, ch, n)
<1>1. Collected(c, r, ch) /\ w = generate_from_dpks(c, r, ch, w.network)
  BY DEF IsCollected
<1>2. v = [w EXCEPT !.network = n]
  <2> HIDE DEF c, r, ch
  <2> QED
    BY <1>1 DEF generate_from_dpks
<1>3. /\ IsCollected(v) /\ v.kind = "multisig" /\ v.network = n /\ v.configuration = c
      /\ ToSet(v.receiving) = r /\ ToSet(v.change) = ch
  <2> HIDE DEF c, r, ch
  <2> QED
    BY <1>1, MadeOfKeys
<1> QED
  BY <1>2, <1>3

---------------------------------------------------------------------------
(* Every step keeps the invariant.                                          *)

\* The invariant holds of a wallet just opened if it is the one the file was made of.
LEMMA AfterOpened ==
    ASSUME IInv, Opened(expected),
           expected.kind = "singlesig" => IsDerived(expected),
           expected.kind = "multisig" => IsCollected(expected)
    PROVE  IInv'
<1>1. memory' = expected /\ UNCHANGED << file, expected, signer, broken >>
  BY DEF Opened
<1>2. ComesBackWhole' /\ broken' = FALSE
  BY <1>1 DEF IInv, ComesBackWhole
<1>3. SignerHolds'
  BY <1>1 DEF IInv, SignerHolds
<1>4. FileHolds'
  BY <1>1 DEF IInv, FileHolds, HoldsJson, HoldsEntropy, HoldsExport, HoldsDescriptors, HoldsStream
<1>5. MemoryHolds'
  BY <1>1 DEF MemoryHolds, IsSinglesig, IsMultisig
<1> QED
  BY <1>2, <1>3, <1>4, <1>5 DEF IInv

\* What a new file leaves of the invariant: nothing is open, and nothing broke.
LEMMA AfterMade ==
    ASSUME IInv, NEW form, NEW network, NEW data, NEW held, Made(form, network, data, held)
    PROVE  /\ ComesBackWhole' /\ broken' = FALSE /\ MemoryHolds'
           /\ expected' = held /\ file'.form = form /\ file'.data = data
           /\ form = "compact" => file'.network = network
<1>1. /\ file' = [form |-> form, data |-> data,
                  network |-> to_encrypted_wallet_version(form, network)]
      /\ expected' = held /\ memory' = Nothing /\ UNCHANGED broken
  BY DEF Made
<1>2. ComesBackWhole' /\ broken' = FALSE /\ MemoryHolds'
  BY <1>1 DEF IInv, ComesBackWhole, MemoryHolds, IsSinglesig, IsMultisig
<1>3. /\ file'.form = form /\ file'.data = data
      /\ file'.network = to_encrypted_wallet_version(form, network)
  BY <1>1
<1>4. form = "compact" => file'.network = network
  BY <1>3 DEF to_encrypted_wallet_version
<1> QED
  BY <1>1, <1>2, <1>3, <1>4

\* A singlesig wallet in memory is one a mnemonic was derived into, without seed password.
LEMMA SinglesigInMemory ==
    ASSUME IInv, IsSinglesig(memory)
    PROVE  memory.mnemonic \in Mnemonic /\ memory.network \in Network /\ memory \in Wallet
<1>1. PICK mn \in Mnemonic, n \in Network : memory = generate(mn, NoPw, n)
  BY DEF IInv, MemoryHolds, IsDerived
<1>2. NoPw \in SeedPw
  BY SeedAssumption
<1>3. memory \in Wallet
  BY <1>1, <1>2 DEF Wallet
<1>4. memory.mnemonic = mn /\ memory.network = n
  BY <1>1 DEF generate
<1> QED
  BY <1>3, <1>4

\* In the beginning nothing has been made of the wallet.
LEMMA InitHolds ==
    ASSUME Init  PROVE IInv
<1>1. expected = memory /\ file = Nothing /\ signer = Nothing /\ broken = FALSE
  BY DEF Init
<1>2. CASE memory \in {generate(mn, NoPw, n) : mn \in Mnemonic, n \in Network}
  <2>1. PICK mn \in Mnemonic, n \in Network : memory = generate(mn, NoPw, n)
    BY <1>2
  <2>2. memory.kind = "singlesig" /\ IsDerived(memory)
    <3>1. IsDerived(memory)
      BY <2>1 DEF IsDerived
    <3> QED
      BY <2>1, <3>1 DEF generate
  <2> QED
    BY <1>1, <2>2 DEF IInv, ComesBackWhole, MemoryHolds, SignerHolds, FileHolds,
                      IsSinglesig, IsMultisig
<1>3. CASE memory \in {generate_from_dpks(i.configuration, i.receiving, i.change, n) :
                          i \in Multisigs, n \in Network}
  <2>1. PICK i \in Multisigs, n \in Network :
               memory = generate_from_dpks(i.configuration, i.receiving, i.change, n)
    BY <1>3
  <2>2. Collected(i.configuration, i.receiving, i.change)
    BY MultisigsAssumption
  <2>3. IsCollected(memory) /\ memory.kind = "multisig"
    BY <2>1, <2>2, MadeOfKeys
  <2> QED
    BY <1>1, <2>3 DEF IInv, ComesBackWhole, MemoryHolds, SignerHolds, FileHolds,
                      IsSinglesig, IsMultisig
<1> QED
  BY <1>2, <1>3 DEF Init

\* A standard singlesig file holds the JSON of its wallet without seed password, on the network
\* chosen for it.
LEMMA SealSinglesigStandardKeeps ==
    ASSUME IInv, NEW n \in Network, NEW m \in BOOLEAN, SealSinglesigStandard(n, m)
    PROVE  IInv'
<1> DEFINE w == generate(memory.mnemonic, NoPw, n)
<1>1. IsSinglesig(memory) /\ Made("standard", n, SinglesigJson(w, m), w) /\ signer' = Nothing
  BY DEF SealSinglesigStandard
<1>2. memory.mnemonic \in Mnemonic
  BY <1>1, SinglesigInMemory
<1>3. IsDerived(w)
  BY <1>2 DEF IsDerived
<1> HIDE DEF w
<1>4. /\ ComesBackWhole' /\ broken' = FALSE /\ MemoryHolds'
      /\ expected' = w /\ file'.form = "standard" /\ file'.data = SinglesigJson(w, m)
  BY <1>1, AfterMade
<1>5. HoldsJson'
  <2>1. (\E b \in BOOLEAN : file.data = SinglesigJson(expected, b))'
    BY <1>4
  <2>2. IsDerived(expected)'
    BY <1>3, <1>4 DEF IsDerived
  <2> QED
    BY <1>4, <2>1, <2>2 DEF HoldsJson
<1>6. SignerHolds'
  BY <1>1 DEF SignerHolds
<1> QED
  BY <1>4, <1>5, <1>6 DEF IInv, FileHolds

\* A compact singlesig file holds the mnemonic, and its header the network.
LEMMA SealSinglesigCompactKeeps ==
    ASSUME IInv, NEW n \in Network, SealSinglesigCompact(n)
    PROVE  IInv'
<1> DEFINE w == generate(memory.mnemonic, NoPw, n)
           data == [kind |-> "singlesig", entropy |-> memory.mnemonic]
<1>1. IsSinglesig(memory) /\ Made("compact", n, data, w) /\ signer' = Nothing
  BY DEF SealSinglesigCompact
<1>2. memory.mnemonic \in Mnemonic
  BY <1>1, SinglesigInMemory
<1>3. /\ ComesBackWhole' /\ broken' = FALSE /\ MemoryHolds'
      /\ expected' = w /\ file'.form = "compact" /\ file'.data = data /\ file'.network = n
  <2> HIDE DEF w, data
  <2> QED
    BY <1>1, AfterMade
<1>4. HoldsEntropy'
  BY <1>2, <1>3 DEF HoldsEntropy
<1>5. SignerHolds'
  BY <1>1 DEF SignerHolds
<1> QED
  BY <1>3, <1>4, <1>5 DEF IInv, FileHolds

\* A multisig wallet in memory is the expected one, and so are its keys on another network.
LEMMA MultisigInMemory ==
    ASSUME IInv, IsMultisig(memory), NEW n \in Network
    PROVE  LET v == generate_from_dpks(memory.configuration, ToSet(memory.receiving),
                                       ToSet(memory.change), n)
           IN  /\ memory = expected /\ IsCollected(memory) /\ memory.kind = "multisig"
               /\ IsCollected(v) /\ v.kind = "multisig" /\ v = [memory EXCEPT !.network = n]
               /\ v.network = n /\ v.configuration = memory.configuration
               /\ ToSet(v.receiving) = ToSet(memory.receiving)
               /\ ToSet(v.change) = ToSet(memory.change)
               /\ signer \in Wallet \cup {Nothing}
               /\ signer # Nothing => HasSigner(memory, signer) /\ HasSigner(v, signer)
<1> DEFINE v == generate_from_dpks(memory.configuration, ToSet(memory.receiving),
                                   ToSet(memory.change), n)
<1>1. memory = expected /\ memory.kind = "multisig" /\ IsCollected(memory)
  BY DEF IInv, ComesBackWhole, MemoryHolds, IsMultisig
<1>2. /\ IsCollected(v) /\ v.kind = "multisig" /\ v = [memory EXCEPT !.network = n]
      /\ v.network = n /\ v.configuration = memory.configuration
      /\ ToSet(v.receiving) = ToSet(memory.receiving) /\ ToSet(v.change) = ToSet(memory.change)
  BY <1>1, OtherNetwork
<1> HIDE DEF v
<1>3. signer \in Wallet \cup {Nothing} /\ (signer # Nothing => HasSigner(memory, signer))
  BY <1>1 DEF IInv, SignerHolds
<1>4. signer # Nothing => HasSigner(v, signer)
  BY <1>2, <1>3, SameKeysSameSigner
<1> QED
  BY <1>1, <1>2, <1>3, <1>4 DEF v

\* A standard multisig file holds the keys in the order they have in memory.
LEMMA SealMultisigStandardKeeps ==
    ASSUME IInv, NEW n \in Network, SealMultisigStandard(n)
    PROVE  IInv'
<1> DEFINE w == generate_from_dpks(memory.configuration, ToSet(memory.receiving),
                                   ToSet(memory.change), n)
<1>1. IsMultisig(memory) /\ Made("standard", n, w, w) /\ UNCHANGED signer
  BY DEF SealMultisigStandard
<1>2. /\ IsCollected(w) /\ w.kind = "multisig" /\ signer \in Wallet \cup {Nothing}
      /\ signer # Nothing => HasSigner(w, signer)
  BY <1>1, MultisigInMemory
<1> HIDE DEF w
<1>3. /\ ComesBackWhole' /\ broken' = FALSE /\ MemoryHolds'
      /\ expected' = w /\ file'.form = "standard" /\ file'.data = w
  BY <1>1, AfterMade
<1>4. HoldsDescriptors'
  BY <1>2, <1>3 DEF HoldsDescriptors
<1>5. SignerHolds'
  BY <1>1, <1>2, <1>3 DEF SignerHolds
<1> QED
  BY <1>3, <1>4, <1>5 DEF IInv, FileHolds

\* So does the public export of a multisig wallet.
LEMMA ExportMultisigKeeps ==
    ASSUME IInv, ExportMultisig
    PROVE  IInv'
<1>1. /\ IsMultisig(memory) /\ Made("public", memory.network, memory, memory)
      /\ UNCHANGED signer
  BY DEF ExportMultisig
<1>2. memory = expected /\ IsCollected(memory) /\ SignerHolds
  BY <1>1 DEF IInv, ComesBackWhole, MemoryHolds, IsMultisig
<1>3. /\ ComesBackWhole' /\ broken' = FALSE /\ MemoryHolds'
      /\ expected' = memory /\ file'.form = "public" /\ file'.data = memory
  BY <1>1, AfterMade
<1>4. HoldsDescriptors'
  BY <1>2, <1>3 DEF HoldsDescriptors
<1>5. SignerHolds'
  BY <1>1, <1>2, <1>3 DEF SignerHolds
<1> QED
  BY <1>3, <1>4, <1>5 DEF IInv, FileHolds

\* The keys of a multisig wallet, in whichever order: as many as there are, of which none is lost.
LEMMA OrdersOfKeys ==
    ASSUME NEW w, IsCollected(w),
           NEW rs \in SetToSeqs(ToSet(w.receiving)), NEW cs \in SetToSeqs(ToSet(w.change))
    PROVE  /\ Len(rs) = w.configuration.total /\ Len(cs) = w.configuration.total
           /\ DeserializeMultisig(SerializeMultisig(w.configuration, rs, cs))
                = Done([configuration |-> w.configuration, receiving |-> ToSet(w.receiving),
                        change |-> ToSet(w.change)], << >>)
<1> DEFINE r == ToSet(w.receiving)
           ch == ToSet(w.change)
           c == w.configuration
<1>1. /\ c \in [required : Length, total : Length] /\ IsFiniteSet(r) /\ IsFiniteSet(ch)
      /\ Cardinality(r) = c.total /\ Cardinality(ch) = c.total
      /\ r \subseteq DescriptorKey /\ ch \subseteq DescriptorKey
  BY CollectedWallet
<1> HIDE DEF r, ch, c
<1>2. /\ rs \in Seq(r) /\ Len(rs) = c.total /\ ToSet(rs) = r
      /\ cs \in Seq(ch) /\ Len(cs) = c.total /\ ToSet(cs) = ch
  <2>1. rs \in SetToSeqs(r) /\ cs \in SetToSeqs(ch)
    BY DEF r, ch
  <2> QED
    BY <1>1, <2>1, OrdersOfSet
<1>3. rs \in Seq(DescriptorKey) /\ cs \in Seq(DescriptorKey)
  BY <1>1, <1>2
<1>4. DeserializeMultisig(SerializeMultisig(c, rs, cs))
        = Done([configuration |-> c, receiving |-> r, change |-> ch], << >>)
  BY <1>1, <1>2, <1>3, ReadsMultisig
<1> QED
  BY <1>2, <1>4 DEF r, ch, c

\* The number of keys is never another than the one the configuration says, so a compact
\* multisig file is always made, of the keys in some order.
LEMMA SealMultisigCompactKeeps ==
    ASSUME IInv, NEW n \in Network, SealMultisigCompact(n)
    PROVE  IInv'
<1> DEFINE v == generate_from_dpks(memory.configuration, ToSet(memory.receiving),
                                   ToSet(memory.change), n)
           total == memory.configuration.total
           Data(rs, cs) == [kind |-> "multisig",
                            stream |-> SerializeMultisig(memory.configuration, rs, cs)]
<1>1. PICK rs \in SetToSeqs(ToSet(memory.receiving)), cs \in SetToSeqs(ToSet(memory.change)) :
         IF Len(rs) # total \/ Len(cs) # total THEN Breaks
         ELSE Made("compact", n, Data(rs, cs), [memory EXCEPT !.network = n]) /\ UNCHANGED signer
  BY DEF SealMultisigCompact
<1>2. /\ IsCollected(memory) /\ IsCollected(v) /\ v.kind = "multisig"
      /\ v = [memory EXCEPT !.network = n] /\ v.network = n
      /\ v.configuration = memory.configuration
      /\ ToSet(v.receiving) = ToSet(memory.receiving) /\ ToSet(v.change) = ToSet(memory.change)
      /\ signer \in Wallet \cup {Nothing} /\ (signer # Nothing => HasSigner(v, signer))
  <2>1. IsMultisig(memory)
    BY DEF SealMultisigCompact
  <2> QED
    BY <2>1, MultisigInMemory
<1> HIDE DEF v
<1>3. Len(rs) = total /\ Len(cs) = total
  BY <1>2, OrdersOfKeys
<1> HIDE DEF Data
<1>4. Made("compact", n, Data(rs, cs), v) /\ UNCHANGED signer
  BY <1>1, <1>2, <1>3
<1>5. /\ ComesBackWhole' /\ broken' = FALSE /\ MemoryHolds'
      /\ expected' = v /\ file'.form = "compact" /\ file'.data = Data(rs, cs) /\ file'.network = n
  BY <1>4, AfterMade
<1>6. HoldsStream'
  <2>1. IsCollected(expected)' /\ file'.network = expected'.network
    BY <1>2, <1>5
  <2>2. /\ rs \in SetToSeqs(ToSet(expected'.receiving)) /\ cs \in SetToSeqs(ToSet(expected'.change))
        /\ Data(rs, cs) = [kind |-> "multisig",
                           stream |-> SerializeMultisig(expected'.configuration, rs, cs)]
    BY <1>2, <1>5 DEF Data
  <2> QED
    BY <1>5, <2>1, <2>2 DEF HoldsStream
<1>7. SignerHolds'
  BY <1>2, <1>4, <1>5 DEF SignerHolds
<1> QED
  BY <1>5, <1>6, <1>7 DEF IInv, FileHolds

\* An export may be of the wallet under another seed password, which is then the signer.
LEMMA ExportSinglesigKeeps ==
    ASSUME IInv, NEW pw \in SeedPw, NEW m \in BOOLEAN, ExportSinglesig(pw, m)
    PROVE  IInv'
<1> DEFINE w == generate(memory.mnemonic, pw, memory.network)
<1>1. IsSinglesig(memory) /\ Made("public", w.network, SinglesigExport(w, m), w) /\ signer' = w
  BY DEF ExportSinglesig
<1>2. memory.mnemonic \in Mnemonic /\ memory.network \in Network
  BY <1>1, SinglesigInMemory
<1>3. w \in Wallet /\ w.kind = "singlesig"
  <2>1. w \in Wallet
    BY <1>2 DEF Wallet
  <2>2. w.kind = "singlesig"
    BY DEF generate
  <2> QED
    BY <2>1, <2>2
<1> HIDE DEF w
<1>4. /\ ComesBackWhole' /\ broken' = FALSE /\ MemoryHolds'
      /\ expected' = w /\ file'.form = "public" /\ file'.data = SinglesigExport(w, m)
  BY <1>1, AfterMade
<1>5. HoldsExport'
  <2>1. (\E b \in BOOLEAN : file.data = SinglesigExport(expected, b))'
    BY <1>4
  <2> QED
    BY <1>1, <1>3, <1>4, <2>1 DEF HoldsExport
<1>6. SignerHolds'
  BY <1>1, <1>3, <1>4 DEF SignerHolds
<1> QED
  BY <1>4, <1>5, <1>6 DEF IInv, FileHolds

\* Validating a wallet against the text it was derived from finds nothing but, at most, the "m/"
\* of an earlier release, and never the case the code calls unreachable.
LEMMA ValidatesSame ==
    ASSUME NEW w, NEW m \in BOOLEAN
    PROVE  validate_same(SinglesigJson(w, m), w) = "same"
<1> DEFINE source == SinglesigJson(w, m)
           generated == SinglesigJson(w, FALSE)
<1>1. \A f \in Compared : generated[f] = source[f]
  <2>1. /\ generated.seed_phrase = source.seed_phrase
        /\ generated.singlesig_xpriv = source.singlesig_xpriv
        /\ generated.singlesig_xpub = source.singlesig_xpub
        /\ generated.master_fingerprint = source.master_fingerprint
        /\ generated.first_address = source.first_address
    BY DEF SinglesigJson
  <2> HIDE DEF generated, source
  <2> QED
    BY <2>1 DEF Compared
<1>2. /\ generated.singlesig_derivation_path.path = source.singlesig_derivation_path.path
      /\ generated.singlesig_derivation_path.m = FALSE
      /\ source.singlesig_derivation_path.m = m
  BY DEF SinglesigJson
<1>3. m = FALSE => generated = source
  OBVIOUS
<1> HIDE DEF generated, source
<1>4. m = TRUE => generated.singlesig_derivation_path # source.singlesig_derivation_path
  BY <1>2
<1>5. validate_same(source, w)
        = IF generated = source THEN "same"
          ELSE IF \E f \in Compared : generated[f] # source[f] THEN "mismatch"
          ELSE IF generated.singlesig_derivation_path.path # source.singlesig_derivation_path.path
               THEN "mismatch"
          ELSE IF generated.singlesig_derivation_path # source.singlesig_derivation_path THEN "same"
          ELSE "unreachable"
  BY DEF validate_same, generated
<1>6. m = TRUE \/ m = FALSE
  OBVIOUS
<1>7. validate_same(source, w) = "same"
  BY <1>1, <1>2, <1>3, <1>4, <1>5, <1>6
<1> QED
  BY <1>7 DEF source

\* A singlesig file, of either form, opens as the wallet it was made of.
LEMMA OpenSinglesigKeeps ==
    ASSUME IInv, OpenSinglesig
    PROVE  IInv'
<1> DEFINE json == IF file.form = "standard" THEN file.data
                   ELSE SinglesigJson(generate(file.data.entropy, NoPw, file.network), FALSE)
           w == FromSinglesigJson(json)
<1>1. /\ file # Nothing /\ file.data.kind = "singlesig" /\ file.form # "public"
      /\ IF validate_same(json, w) = "same" THEN Opened(w) ELSE Breaks
  BY DEF OpenSinglesig, IsSinglesig, Stored
<1>2. HoldsJson \/ HoldsEntropy
  <2>1. ~HoldsExport
    BY <1>1 DEF HoldsExport
  <2>2. ~HoldsDescriptors
    <3> SUFFICES ASSUME HoldsDescriptors  PROVE FALSE
      OBVIOUS
    <3>1. expected.kind = "multisig" /\ file.data = expected
      BY CollectedWallet DEF HoldsDescriptors
    <3> QED
      BY <1>1, <3>1
  <2>3. ~HoldsStream
    <3> SUFFICES ASSUME HoldsStream  PROVE FALSE
      OBVIOUS
    <3>1. file.data.kind = "multisig"
      BY DEF HoldsStream
    <3> QED
      BY <1>1, <3>1
  <2> QED
    BY <1>1, <2>1, <2>2, <2>3 DEF IInv, FileHolds
<1>3. /\ IsDerived(expected)
      /\ \E m \in BOOLEAN : json = SinglesigJson(expected, m)
  <2>1. CASE HoldsJson
    BY <2>1 DEF HoldsJson
  <2>2. CASE HoldsEntropy
    <3>1. PICK mn \in Mnemonic, n \in Network :
                 /\ expected = generate(mn, NoPw, n) /\ file.network = n
                 /\ file.data = [kind |-> "singlesig", entropy |-> mn]
      BY <2>2 DEF HoldsEntropy
    <3>2. file.data.entropy = mn /\ file.form = "compact"
      BY <2>2, <3>1 DEF HoldsEntropy
    <3>3. json = SinglesigJson(expected, FALSE)
      BY <3>1, <3>2
    <3> QED
      BY <3>1, <3>3 DEF IsDerived
  <2> QED
    BY <1>2, <2>1, <2>2
<1> HIDE DEF json
<1>4. PICK m \in BOOLEAN : json = SinglesigJson(expected, m)
  BY <1>3
<1>5. w = expected /\ expected.kind = "singlesig"
  <2>1. PICK mn \in Mnemonic, n \in Network : expected = generate(mn, NoPw, n)
    BY <1>3 DEF IsDerived
  <2>2. expected.mnemonic = mn /\ expected.network = n /\ expected.kind = "singlesig"
    BY <2>1 DEF generate
  <2>3. json.seed_phrase = expected.mnemonic /\ json.network = expected.network
    BY <1>4 DEF SinglesigJson
  <2> QED
    BY <2>1, <2>2, <2>3 DEF FromSinglesigJson
<1> HIDE DEF w
<1>6. validate_same(json, w) = "same"
  BY <1>4, <1>5, ValidatesSame
<1>7. Opened(expected)
  BY <1>1, <1>5, <1>6
<1>8. IsDerived(expected) /\ expected.kind = "singlesig"
  BY <1>3, <1>5
<1> QED
  BY <1>7, <1>8, AfterOpened

\* A multisig wallet opens from its JSON or export, whose number of keys is right.
LEMMA OpenMultisigJsonKeeps ==
    ASSUME IInv, OpenMultisigJson
    PROVE  IInv'
<1>1. /\ file # Nothing /\ file.data.kind = "multisig" /\ file.form # "compact"
      /\ IF Allowed(file.data.configuration) /\ ms_ddpk_to_dpks(file.data).ok
         THEN Opened(file.data) ELSE Breaks
  BY DEF OpenMultisigJson, IsMultisig, Stored
<1>2. HoldsDescriptors
  <2>1. ~HoldsJson
    <3>1. \A m : SinglesigJson(expected, m).kind = "singlesig"
      BY DEF SinglesigJson
    <3> QED
      BY <1>1, <3>1 DEF HoldsJson
  <2>2. ~HoldsExport
    <3>1. \A m : SinglesigExport(expected, m).kind = "singlesig"
      BY DEF SinglesigExport
    <3> QED
      BY <1>1, <3>1 DEF HoldsExport
  <2>3. ~HoldsEntropy /\ ~HoldsStream
    BY <1>1 DEF HoldsEntropy, HoldsStream
  <2> QED
    BY <1>1, <2>1, <2>2, <2>3 DEF IInv, FileHolds
<1>3. file.data = expected /\ IsCollected(expected)
  BY <1>2 DEF HoldsDescriptors
<1>4. /\ expected.kind = "multisig" /\ Allowed(expected.configuration)
      /\ ms_ddpk_to_dpks(expected).ok
  BY <1>3, CollectedWallet
<1>5. Opened(expected)
  BY <1>1, <1>3, <1>4
<1> QED
  BY <1>3, <1>4, <1>5, AfterOpened

\* From a compact file the keys come back as sets, and get the order they had in memory.
LEMMA OpenMultisigCompactKeeps ==
    ASSUME IInv, OpenMultisigCompact
    PROVE  IInv'
<1> DEFINE d == DeserializeMultisig(file.data.stream)
           w == generate_from_dpks(d.value.configuration, d.value.receiving, d.value.change,
                                   file.network)
<1>1. /\ file # Nothing /\ file.data.kind = "multisig" /\ file.form = "compact"
      /\ ~d.ok => Breaks
      /\ d.ok => IF Allowed(w.configuration) /\ ms_ddpk_to_dpks(w).ok THEN Opened(w) ELSE Breaks
  <2> HIDE DEF d
  <2> QED
    BY DEF OpenMultisigCompact, FromDecoded, OpenedAsJson, IsMultisig, Stored, d
<1>2. HoldsStream
  <2>1. ~HoldsJson /\ ~HoldsExport /\ ~HoldsDescriptors
    BY <1>1 DEF HoldsJson, HoldsExport, HoldsDescriptors
  <2>2. ~HoldsEntropy
    <3> SUFFICES ASSUME HoldsEntropy  PROVE FALSE
      OBVIOUS
    <3>1. file.data.kind = "singlesig"
      BY DEF HoldsEntropy
    <3> QED
      BY <1>1, <3>1
  <2> QED
    BY <1>1, <2>1, <2>2 DEF IInv, FileHolds
<1>3. IsCollected(expected) /\ file.network = expected.network
  BY <1>2 DEF HoldsStream
<1>4. PICK rs \in SetToSeqs(ToSet(expected.receiving)), cs \in SetToSeqs(ToSet(expected.change)) :
         file.data = [kind |-> "multisig",
                      stream |-> SerializeMultisig(expected.configuration, rs, cs)]
  BY <1>2 DEF HoldsStream
<1>5. d = Done([configuration |-> expected.configuration, receiving |-> ToSet(expected.receiving),
                change |-> ToSet(expected.change)], << >>)
  <2>1. file.data.stream = SerializeMultisig(expected.configuration, rs, cs)
    BY <1>4
  <2> QED
    BY <1>3, <2>1, OrdersOfKeys
<1> HIDE DEF d
<1>6. /\ d.ok /\ d.value.configuration = expected.configuration
      /\ d.value.receiving = ToSet(expected.receiving) /\ d.value.change = ToSet(expected.change)
  BY <1>5 DEF Done
<1>7. w = expected
  BY <1>3, <1>6 DEF IsCollected
<1> HIDE DEF w
<1>8. /\ expected.kind = "multisig" /\ Allowed(expected.configuration)
      /\ ms_ddpk_to_dpks(expected).ok
  BY <1>3, CollectedWallet
<1>9. Opened(expected)
  BY <1>1, <1>6, <1>7, <1>8
<1> QED
  BY <1>3, <1>8, <1>9, AfterOpened

\* What is founded with the keys of a wallet knows this wallet as its signer.
LEMMA FoundKeeps ==
    ASSUME IInv, NEW cosigner \in Wallet,
           Found({multisig_public_descriptor(cosigner, 0)},
                 {multisig_public_descriptor(cosigner, 1)}, cosigner)
    PROVE  IInv'
<1> DEFINE d0 == multisig_public_descriptor(cosigner, 0)
           d1 == multisig_public_descriptor(cosigner, 1)
           w == generate_from_dpks([required |-> 2, total |-> 2], {d0} \cup Partner.receiving,
                                   {d1} \cup Partner.change, cosigner.network)
<1>1. IsCollected(w) /\ w.kind = "multisig" /\ HasSigner(w, cosigner)
  BY FoundWallet
<1> HIDE DEF d0, d1
<1>2. Cardinality({d0}) = 1 /\ Cardinality({d1}) = 1
  BY FS_Singleton
<1>3. /\ memory' = w /\ expected' = w /\ signer' = cosigner
      /\ file' = Nothing /\ UNCHANGED broken
  BY <1>2 DEF Found, d0, d1
<1> HIDE DEF w
<1>4. ComesBackWhole' /\ broken' = FALSE /\ FileHolds'
  BY <1>3 DEF IInv, ComesBackWhole, FileHolds
<1>5. MemoryHolds'
  BY <1>1, <1>3 DEF MemoryHolds, IsSinglesig, IsMultisig
<1>6. SignerHolds'
  BY <1>1, <1>3 DEF SignerHolds
<1> QED
  BY <1>4, <1>5, <1>6 DEF IInv

\* A singlesig wallet joins with its own keys.
LEMMA JoinWalletKeeps ==
    ASSUME IInv, JoinWallet
    PROVE  IInv'
<1>1. memory \in Wallet
  BY SinglesigInMemory DEF JoinWallet
<1> QED
  BY <1>1, FoundKeeps DEF JoinWallet

\* The keys read from an export are those of the wallet it was made of.
LEMMA ExportedKeys ==
    ASSUME NEW w \in Wallet, NEW m \in BOOLEAN, NEW child \in {0, 1}
    PROVE  FromSinglesigExport(SinglesigExport(w, m), child) = {multisig_public_descriptor(w, child)}
<1> DEFINE e == SinglesigExport(w, m)
           key == w.multisig_xpub
           Descriptor(xpub) == PublicDescriptor(w.master_fingerprint,
                                     get_multisig_v0_derivation_path(w.network), xpub, child)
<1>1. key.network \in S132!NetworkKind /\ key = [network |-> key.network, body |-> key.body]
  <2>1. PICK mn \in Mnemonic, pw \in SeedPw, n \in Network : w = generate(mn, pw, n)
    BY DEF Wallet
  <2> QED
    BY <2>1 DEF generate, Kind, S132!NetworkKind
<1>2. /\ e.master_fingerprint = w.master_fingerprint
      /\ e.multisig_xpub = S132!to_slip132_string(key, "SegWitMultisig", FALSE)
      /\ e.multisig_derivation_path.path = get_multisig_v0_derivation_path(w.network)
  BY DEF SinglesigExport
<1>3. "SegWitMultisig" \in S132!KeyApplication
  BY DEF S132!KeyApplication
<1> HIDE DEF e, key
<1>4. S132!from_slip132_pub(e.multisig_xpub) = {key}
  <2>1. S132!from_slip132_pub(S132!to_slip132_string(key, "SegWitMultisig", FALSE))
          = IF FALSE THEN {} ELSE {key}
    BY <1>1, <1>3, ReadsBack
  <2> QED
    BY <1>2, <2>1
<1>5. FromSinglesigExport(e, child) = {Descriptor(xpub) : xpub \in {key}}
  BY <1>2, <1>4 DEF FromSinglesigExport
<1>6. Descriptor(key) = multisig_public_descriptor(w, child)
  BY DEF multisig_public_descriptor, key
<1> HIDE DEF Descriptor
<1> QED
  BY <1>5, <1>6 DEF e

\* An export joins with the keys its version bytes and path are read as.
LEMMA JoinExportKeeps ==
    ASSUME IInv, JoinExport
    PROVE  IInv'
<1>1. /\ file # Nothing /\ file.data.kind = "singlesig" /\ file.form = "public"
      /\ Found(FromSinglesigExport(file.data, 0), FromSinglesigExport(file.data, 1), signer)
  BY DEF JoinExport, IsSinglesig, Stored
<1>2. HoldsExport
  <2>1. ~HoldsJson /\ ~HoldsEntropy /\ ~HoldsStream
    BY <1>1 DEF HoldsJson, HoldsEntropy, HoldsStream
  <2>2. ~HoldsDescriptors
    <3> SUFFICES ASSUME HoldsDescriptors  PROVE FALSE
      OBVIOUS
    <3>1. expected.kind = "multisig" /\ file.data = expected
      BY CollectedWallet DEF HoldsDescriptors
    <3> QED
      BY <1>1, <3>1
  <2> QED
    BY <1>1, <2>1, <2>2 DEF IInv, FileHolds
<1>3. PICK m \in BOOLEAN : file.data = SinglesigExport(signer, m)
  BY <1>2 DEF HoldsExport
<1>4. signer \in Wallet
  BY <1>2 DEF HoldsExport
<1>5. /\ FromSinglesigExport(file.data, 0) = {multisig_public_descriptor(signer, 0)}
      /\ FromSinglesigExport(file.data, 1) = {multisig_public_descriptor(signer, 1)}
  BY <1>3, <1>4, ExportedKeys
<1> QED
  BY <1>1, <1>4, <1>5, FoundKeeps

\* What changes nothing keeps the invariant.
LEMMA StaysPut ==
    ASSUME IInv, UNCHANGED vars
    PROVE  IInv'
BY DEF vars, IInv, ComesBackWhole, MemoryHolds, SignerHolds, FileHolds, HoldsJson,
       HoldsEntropy, HoldsExport, HoldsDescriptors, HoldsStream, IsSinglesig, IsMultisig

\* Every step keeps the invariant.
LEMMA Inductive ==
    ASSUME IInv, [Next]_vars
    PROVE  IInv'
<1>1. ASSUME NEW n \in Network, NEW m \in BOOLEAN, SealSinglesigStandard(n, m)  PROVE IInv'
  BY <1>1, SealSinglesigStandardKeeps
<1>2. ASSUME NEW n \in Network, SealSinglesigCompact(n)  PROVE IInv'
  BY <1>2, SealSinglesigCompactKeeps
<1>3. ASSUME NEW n \in Network, SealMultisigStandard(n)  PROVE IInv'
  BY <1>3, SealMultisigStandardKeeps
<1>4. ASSUME NEW n \in Network, SealMultisigCompact(n)  PROVE IInv'
  BY <1>4, SealMultisigCompactKeeps
<1>5. ASSUME NEW pw \in SeedPw, NEW m \in BOOLEAN, ExportSinglesig(pw, m)  PROVE IInv'
  BY <1>5, ExportSinglesigKeeps
<1>6. CASE ExportMultisig
  BY <1>6, ExportMultisigKeeps
<1>7. CASE OpenSinglesig
  BY <1>7, OpenSinglesigKeeps
<1>8. CASE OpenMultisigJson
  BY <1>8, OpenMultisigJsonKeeps
<1>9. CASE OpenMultisigCompact
  BY <1>9, OpenMultisigCompactKeeps
<1>10. CASE JoinWallet
  BY <1>10, JoinWalletKeeps
<1>11. CASE JoinExport
  BY <1>11, JoinExportKeeps
<1>12. CASE UNCHANGED vars
  BY <1>12, StaysPut
<1> QED
  BY <1>1, <1>2, <1>3, <1>4, <1>5, <1>6, <1>7, <1>8, <1>9, <1>10, <1>11, <1>12 DEF Next

\* The invariant holds in every state a wallet can get into.
THEOREM Invariant == Spec => []IInv
<1>1. Init => IInv
  BY InitHolds
<1>2. IInv /\ [Next]_vars => IInv'
  BY Inductive
<1> QED
  BY <1>1, <1>2, PTL DEF Spec

---------------------------------------------------------------------------
(* What the invariant says.                                                 *)

\* What memory, file and signer hold is of the kinds the code knows.
THEOREM TypesHold == Spec => []TypeOK
<1>1. IInv => TypeOK
  <2> SUFFICES ASSUME IInv  PROVE TypeOK
    OBVIOUS
  <2>1. IsSinglesig(memory) => memory \in Wallet
    BY SinglesigInMemory
  <2>2. IsMultisig(memory) => memory.network \in Network /\ Allowed(memory.configuration)
    BY CollectedWallet DEF IInv, MemoryHolds
  <2>3. file # Nothing => file.form \in {"standard", "compact", "public"}
    BY DEF IInv, FileHolds, HoldsJson, HoldsEntropy, HoldsExport, HoldsDescriptors, HoldsStream
  <2>4. signer \in Wallet \cup {Nothing} /\ broken \in BOOLEAN
    BY DEF IInv, SignerHolds
  <2> QED
    BY <2>1, <2>2, <2>3, <2>4 DEF TypeOK
<1> QED
  BY <1>1, Invariant, PTL

\* A wallet comes back as it was put away, through any forms, releases and networks.
THEOREM WalletComesBackWhole == Spec => []ComesBackWhole
<1>1. IInv => ComesBackWhole
  BY DEF IInv
<1> QED
  BY <1>1, Invariant, PTL

\* No file the program made is refused or breaks it.
THEOREM FilesOpen == Spec => []NothingBreaks
<1>1. IInv => NothingBreaks
  BY DEF IInv, NothingBreaks
<1> QED
  BY <1>1, Invariant, PTL

\* Whoever joined a multisig wallet, by the wallet or by an export of it, can sign for it later.
THEOREM JoinedCanSign == Spec => []JoinedWalletSigns
<1>1. IInv => JoinedWalletSigns
  <2> SUFFICES ASSUME IInv, IsMultisig(memory), signer # Nothing  PROVE HasSigner(memory, signer)
    BY DEF JoinedWalletSigns
  <2>1. "bitcoin" \in Network
    BY DEF Network
  <2> QED
    BY <2>1, MultisigInMemory
<1> QED
  BY <1>1, Invariant, PTL

\* The bytes of a compact multisig file are read as what they were written from, to the last one.
THEOREM CompactFileTellsAll == Spec => []DecodesAsEncoded
<1>1. IInv => DecodesAsEncoded
  <2> SUFFICES ASSUME IInv, IsMultisig(Stored), file.form = "compact"
               PROVE  DeserializeMultisig(file.data.stream)
                        = Done([configuration |-> expected.configuration,
                                receiving |-> ToSet(expected.receiving),
                                change |-> ToSet(expected.change)], << >>)
    BY DEF DecodesAsEncoded
  <2>1. file # Nothing /\ file.data.kind = "multisig"
    BY DEF IsMultisig, Stored
  <2>2. HoldsStream
    <3>1. ~HoldsJson /\ ~HoldsExport /\ ~HoldsDescriptors
      BY DEF HoldsJson, HoldsExport, HoldsDescriptors
    <3>2. ~HoldsEntropy
      <4> SUFFICES ASSUME HoldsEntropy  PROVE FALSE
        OBVIOUS
      <4>1. file.data.kind = "singlesig"
        BY DEF HoldsEntropy
      <4> QED
        BY <2>1, <4>1
    <3> QED
      BY <2>1, <3>1, <3>2 DEF IInv, FileHolds
  <2>3. IsCollected(expected)
    BY <2>2 DEF HoldsStream
  <2>4. PICK rs \in SetToSeqs(ToSet(expected.receiving)),
             cs \in SetToSeqs(ToSet(expected.change)) :
               file.data = [kind |-> "multisig",
                            stream |-> SerializeMultisig(expected.configuration, rs, cs)]
    BY <2>2 DEF HoldsStream
  <2>5. file.data.stream = SerializeMultisig(expected.configuration, rs, cs)
    BY <2>4
  <2> QED
    BY <2>3, <2>5, OrdersOfKeys
<1> QED
  BY <1>1, Invariant, PTL

\* The version bytes tell, of every key of every wallet, what they were chosen for.
THEOREM VersionBytesTell == Spec => []PrefixesTell
<1>1. IInv => PrefixesTell
  <2> SUFFICES ASSUME IInv, NEW key \in KeysOf(memory), NEW app \in S132!KeyApplication,
                      NEW priv \in BOOLEAN
               PROVE  LET kv == S132!resolve(key.network, app, priv)
                          written == S132!to_slip132_string(key, app, priv)
                          account == S132!Hardened(7)
                      IN  /\ S132!is_pub(kv) = {~priv} /\ S132!is_prv(kv) = {priv}
                          /\ S132!network_of(kv) = {key.network}
                          /\ S132!application(kv) = {app} \ {"Hashed"}
                          /\ S132!make_pub(kv) = {S132!resolve(key.network, app, FALSE)}
                          /\ S132!make_prv(kv) = {S132!resolve(key.network, app, TRUE)}
                          /\ \A p \in S132!derivation_path(kv, {})
                                        \cup S132!derivation_path(kv, {account}) :
                                  S132!from_derivation_path(p) = {app}
                          /\ app # "Hashed" => S132!derivation_path(kv, {account}) # {}
                          /\ S132!from_slip132_pub(written) = (IF priv THEN {} ELSE {key})
                          /\ S132!from_slip132_prv(written) = (IF priv THEN {key} ELSE {})
    BY DEF PrefixesTell
  <2> DEFINE account == S132!Hardened(7)
             kv == S132!resolve(key.network, app, priv)
  <2>1. IsSinglesig(memory)
    BY DEF KeysOf
  <2>2. PICK mn \in Mnemonic, pw \in SeedPw, n \in Network : memory = generate(mn, pw, n)
    BY <2>1, SinglesigInMemory DEF Wallet
  <2>3. /\ key.network \in S132!NetworkKind
        /\ key = [network |-> key.network, body |-> key.body]
    BY <2>1, <2>2 DEF KeysOf, generate, Kind, S132!NetworkKind
  <2>4. account \in Child
    BY SMT DEF S132!Hardened, Child
  <2> HIDE DEF account
  <2>5. /\ S132!is_pub(kv) = {~priv} /\ S132!is_prv(kv) = {priv}
        /\ S132!network_of(kv) = {key.network}
    BY <2>3, TellsKindAndNetwork
  <2>6. S132!application(kv) = {app} \ {"Hashed"}
    BY <2>3, TellsApplication
  <2>7. /\ S132!make_pub(kv) = {S132!resolve(key.network, app, FALSE)}
        /\ S132!make_prv(kv) = {S132!resolve(key.network, app, TRUE)}
    BY <2>3, TurnsInto
  <2>8. /\ \A p \in S132!derivation_path(kv, {}) \cup S132!derivation_path(kv, {account}) :
              S132!from_derivation_path(p) = {app}
        /\ app # "Hashed" => S132!derivation_path(kv, {account}) # {}
    BY <2>3, <2>4, PathsTellUse
  <2>9. /\ S132!from_slip132_pub(S132!to_slip132_string(key, app, priv))
              = (IF priv THEN {} ELSE {key})
        /\ S132!from_slip132_prv(S132!to_slip132_string(key, app, priv))
              = (IF priv THEN {key} ELSE {})
    BY <2>3, ReadsBack
  <2> QED
    BY <2>5, <2>6, <2>7, <2>8, <2>9 DEF account
<1> QED
  BY <1>1, Invariant, PTL
=============================================================================
