------------------------- MODULE MCBatchGeneration -------------------------
(***************************************************************************)
(* Batches of no, one and two wallets, with every option, with prefixes    *)
(* that hold a dot and that do not.  There are just as many random values  *)
(* of each kind as two wallets need: any of them may be drawn repeatedly.  *)
(***************************************************************************)
EXTENDS BatchGeneration

CONSTANTS n1, n2, n3, n4, k1, k2, s1, s2, pw, typo

ABatch(prefix, quantity, duress, private) ==
    [prefix |-> prefix, wallets_quantity |-> quantity,
     enable_duress_wallet |-> duress, disable_public_info_export |-> private,
     seedPw |-> pw]

Plain == [name |-> "wallet", dotted |-> FALSE]
Dotted == [name |-> "wallet", dotted |-> TRUE]

MCRequests ==
    {ABatch(p, 2, duress, FALSE) : p \in {Plain, Dotted}, duress \in BOOLEAN}
    \cup {ABatch(None, 2, FALSE, TRUE), ABatch(Plain, 1, TRUE, TRUE),
          ABatch(Dotted, 1, TRUE, FALSE), ABatch(Plain, 0, TRUE, FALSE)}

MCHash == <<"a", "b">>
=============================================================================
