------------------------------- MODULE VarInt -------------------------------
(***************************************************************************)
(* Unsigned integers of variable length, as the compact wallet format       *)
(* writes them.  A u64 is its eight bytes, the lowest first, because that   *)
(* is what is written and because TLC's numbers end at 31 bits.             *)
(***************************************************************************)
EXTENDS Naturals, Sequences

Byte == 0..255
U64 == [1..8 -> Byte]

(* x < 256^n.                                                              *)
FitsIn(x, n) == \A i \in 1..8 : i > n => x[i] = 0

(* What decode_u8, decode_u16 and so on make of the bytes.                 *)
Wide(bytes) == [i \in 1..8 |-> IF i <= Len(bytes) THEN bytes[i] ELSE 0]

(* What a reader returns: a value and what is left to read, or an error.   *)
Done(value, rest) == [ok |-> TRUE, value |-> value, rest |-> rest]
Failed == [ok |-> FALSE]

(* How many bytes follow the first, none when the first is the number.      *)
Width(x) == IF FitsIn(x, 1) /\ x[1] <= 252 THEN 0
            ELSE IF FitsIn(x, 2) THEN 2
            ELSE IF FitsIn(x, 4) THEN 4 ELSE 8

Announced(first) == IF first = 255 THEN 8
                    ELSE IF first = 254 THEN 4
                    ELSE IF first = 253 THEN 2 ELSE 0

serialize(x) ==
    CASE Width(x) = 0 -> << x[1] >>
      [] Width(x) = 2 -> << 253, x[1], x[2] >>
      [] Width(x) = 4 -> << 254, x[1], x[2], x[3], x[4] >>
      [] Width(x) = 8 -> << 255, x[1], x[2], x[3], x[4], x[5], x[6], x[7], x[8] >>

\* 253 itself is the first number that needs the two bytes.
NonMinimalAndOne(x, width) == \/ width = 8 /\ FitsIn(x, 4)
                              \/ width = 4 /\ FitsIn(x, 2)
                              \/ width = 2 /\ FitsIn(x, 1) /\ x[1] <= 253
NonMinimal(x, width) == \/ width = 8 /\ FitsIn(x, 4)
                        \/ width = 4 /\ FitsIn(x, 2)
                        \/ width = 2 /\ FitsIn(x, 1) /\ x[1] < 253

(* The first width bytes of s; an error when s is too short, or goes on     *)
(* with something else than bytes.                                         *)
ReadExact(s, width) ==
    IF Len(s) >= width /\ \A i \in 1..width : s[i] \in Byte
    THEN Done([i \in 1..width |-> s[i]], SubSeq(s, width + 1, Len(s)))
    ELSE Failed

deserialize(s) ==
    LET first == ReadExact(s, 1)
        width == Announced(s[1])
        following == ReadExact(Tail(s), width)
        x == Wide(IF width = 0 THEN first.value ELSE following.value)
    IN  IF ~first.ok \/ ~following.ok \/ NonMinimal(x, width) THEN Failed
        ELSE Done(x, following.rest)
=============================================================================
