------------------------- MODULE MCInteractiveSession -------------------------
(* A small instance: two processes, one after the other, over a directory     *)
(* with one file of every kind.                                             *)
EXTENDS InteractiveSession

\* A hash of eight bits that every byte changes.
MCSha256(bits) ==
    LET bytes == [i \in 1..BytesOf(bits) |-> Value(SubSeq(bits, 8 * i - 7, 8 * i))]
    IN  Bits(FoldLeft(LAMBDA h, b : (h * 5 + b + 1) % 256, Len(bytes), bytes), 8)

File(stem, ext) == [stem |-> << stem >>, ext |-> ext]
MCKeyfile == {File("song", "")}
MCNames == {File("new", "")}
MCRemovable == {File("tx", "psbt")}

Ramp(n, k) == [i \in 1..n |-> (i * k + k) % 2048]
Good == complete_words_with_checksum(5, Ramp(11, 700))
MCDrawn == {Good}
MCTyped == {Ramp(11, 3), Ramp(12, 1),
            complete_words_with_checksum(7, Ramp(23, 9))}
MCRandom == {85}

MCAtFirst ==
    File("song", "") :> Content("other", << >>, NoPw, None, {})
    @@ File("short", "") :> Content("short", << >>, NoPw, None, {})
    @@ File("tx", "psbt") :> Content("psbt", << >>, NoPw, None, {})
    @@ File("multi", "") :> Content("multisig", Good, NoPw, "p", {})
    @@ File("multi", "json") :> Content("multisigExport", Good, NoPw, None, {})

Arg(disable, keyfiles, duress, password) ==
    [disable_internet_check |-> disable, keyfiles |-> keyfiles, duress |-> duress,
     password |-> password]
MCArgs == {Arg(FALSE, {}, FALSE, None), Arg(FALSE, MCKeyfile, FALSE, "p"), Arg(TRUE, {}, TRUE, None)}
=============================================================================
