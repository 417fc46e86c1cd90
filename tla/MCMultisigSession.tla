------------------------- MODULE MCMultisigSession --------------------------
(***************************************************************************)
(* Two cosigners of a 1-of-2 or a 2-of-2, with every kind of file one of   *)
(* them may bring: an export, the wallet itself, which holds a hidden      *)
(* wallet too, and descriptors with and without the receiving chain.       *)
(***************************************************************************)
EXTENDS MultisigSession

CONSTANTS s1, s2, pw

Plainly(s) == [seed |-> s, pw |-> None]
AFile(kind, s, chain) == [kind |-> kind, of |-> Plainly(s), chain |-> chain]

MCFiles ==
    {AFile("export", s1, "0"), AFile("wallet", s1, "0"), AFile("wallet", s2, "0"),
     AFile("descriptor", s1, "1"), AFile("descriptor", s2, "other"),
     AFile("coldcard", s2, "0"), AFile("sealed", s2, "0"),
     AFile("multisigExport", s2, "0")}

MCConfigurations ==
    {[required |-> 1, total |-> 2], [required |-> 2, total |-> 2]}
=============================================================================
