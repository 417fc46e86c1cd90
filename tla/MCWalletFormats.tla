--------------------------- MODULE MCWalletFormats ---------------------------
(* A small instance: two mnemonics, and wallets of one to three keys of      *)
(* every kind, with children at every limit of the encoding.                *)
EXTENDS WalletFormats

MCBody(mn, pw, path) == 1000 + 100 * mn + 10 * pw + 2 * (Len(path) - 3) + path[2].index
MCFingerprint(mn, pw) == 3000 + 10 * mn + pw

MCBodies == {1000 + 100 * mn + k : mn \in 1..2, k \in {0, 1, 2, 3, 10, 11, 12, 13}} \cup {1901, 1902}

KnownOrigin(path) == << [fingerprint |-> 3901, path |-> path] >>
Limits == << S132!Normal(0), S132!Normal(252), S132!Normal(253), S132!Normal(65535),
             S132!Normal(65536), S132!Normal(2147483647), S132!Hardened(0),
             S132!Hardened(2147483647) >>

Xkey(b) == [network |-> IF b = 1901 THEN "Main" ELSE "Test", body |-> b]
Plain(b, child) ==
    [type |-> "XPub", origin |-> KnownOrigin(<< S132!Hardened(48) >>), xkey |-> Xkey(b),
     derivation_path |-> << S132!Normal(child) >>, wildcard |-> 1]
Far(b) == [type |-> "XPub", origin |-> KnownOrigin(Limits), xkey |-> Xkey(b),
           derivation_path |-> SubSeq(Limits, 1, 6), wildcard |-> 0]
Rootless(b) == [type |-> "XPub", origin |-> << >>, xkey |-> Xkey(b), derivation_path |-> << >>,
                wildcard |-> 2]
Single(k, origin) == [type |-> "Single", origin |-> origin, key |-> k]
Multi(b) == [type |-> "MultiXPub", origin |-> << >>, xkey |-> Xkey(b),
             derivation_paths |-> << << S132!Normal(2) >>, Limits, << >> >>, wildcard |-> 1]

MCMultisig(required, receiving, change) ==
    [configuration |-> [required |-> required, total |-> Cardinality(receiving)],
     receiving |-> receiving, change |-> change]

MCMultisigs ==
    {MCMultisig(1, {Plain(1901, 0)}, {Plain(1901, 1)}),
     MCMultisig(2, {Plain(1901, 0), Plain(1902, 0)}, {Plain(1901, 1), Plain(1902, 1)}),
     MCMultisig(2, {Plain(1901, 0), Single(2001, KnownOrigin(Limits))},
                   {Plain(1901, 1), Single(2001, KnownOrigin(Limits))}),
     MCMultisig(2, {Far(1901), Single(2001, << >>), Plain(1902, 65536)},
                   {Far(1902), Single(2001, << >>), Plain(1902, 1)}),
     MCMultisig(1, {Rootless(1901), Multi(1902)}, {Rootless(1902), Multi(1901)}),
     MCMultisig(1, {Single(2501, << >>)}, {Single(2501, KnownOrigin(<< >>))})}

MCPartner == [receiving |-> {Plain(1901, 0)}, change |-> {Plain(1901, 1)}]
=============================================================================
