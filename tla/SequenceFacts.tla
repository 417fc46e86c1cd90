---------------------------- MODULE SequenceFacts ----------------------------
(***************************************************************************)
(* What the proofs of several components need to know of numbers, sequences *)
(* and the operators on them that the models take from the community        *)
(* modules: induction, flattening, bags and sorting.                        *)
(***************************************************************************)
EXTENDS SequencesExt, WellFoundedInduction, SequenceTheorems, FunctionTheorems,
        FiniteSetTheorems, TLAPS

\* A set of numbers has a least member.
LEMMA LeastNat ==
    ASSUME NEW T \in SUBSET Nat, T # {}
    PROVE  \E n \in T : \A m \in T : n <= m
<1>1. \E x \in T : \A y \in T : ~(<< y, x >> \in OpToRel(<, Nat))
  BY WFMin, NatLessThanWellFounded, Zenon
<1>2. PICK x \in T : \A y \in T : ~(<< y, x >> \in OpToRel(<, Nat))
  BY <1>1
<1>3. \A y \in T : ~(y < x)
  BY <1>2, Zenon DEF OpToRel
<1> QED
  BY <1>3

\* A set with 0 and with the successor of each of its numbers has them all.
LEMMA InductionOnNat ==
    ASSUME NEW S, 0 \in S, \A n \in Nat : n \in S => n + 1 \in S
    PROVE  Nat \subseteq S
<1> DEFINE T == {n \in Nat : n \notin S}
<1> SUFFICES ASSUME T # {} PROVE FALSE
  OBVIOUS
<1>1. PICK n \in T : \A m \in T : n <= m
  BY LeastNat
<1>2. n # 0 /\ n - 1 \in Nat
  BY <1>1
<1>3. n - 1 \notin T
  BY <1>1, <1>2
<1> QED
  BY <1>1, <1>2, <1>3

\* A function on 1..n is a sequence.
LEMMA SeqOfLength ==
    ASSUME NEW S, NEW n \in Nat, NEW s \in [1..n -> S]
    PROVE  s \in Seq(S) /\ Len(s) = n
OBVIOUS

\* Functions are the same when they agree everywhere.
LEMMA SameFunction ==
    ASSUME NEW D, NEW R, NEW f \in [D -> R], NEW g \in [D -> R], \A i \in D : f[i] = g[i]
    PROVE  f = g
OBVIOUS

\* f[i] is the first i of the sequences, one after the other.
Flattens(f, seqs, n) == f[1] = seqs[1] /\ \A i \in 2..n : f[i] = f[i - 1] \o seqs[i]

\* A sequence of sequences is flattened one after the other.
LEMMA FlattenSteps ==
    ASSUME NEW S, NEW n \in Nat \ {0}, NEW seqs \in [1..n -> Seq(S)]
    PROVE  \E f \in [1..n -> Seq(S)] : FlattenSeq(seqs) = f[n] /\ Flattens(f, seqs, n)
<1> DEFINE G(f, i) == IF i = 1 THEN seqs[i] ELSE f[i - 1] \o seqs[i]
           N == {k \in Nat : \E f : f = [i \in 1..k |-> G(f, i)]}
<1>1. 0 \in N
  <2>1. [i \in 1..0 |-> 0] = [i \in 1..0 |-> G([j \in 1..0 |-> 0], i)]
    OBVIOUS
  <2> QED
    BY <2>1
<1>2. ASSUME NEW k \in Nat, k \in N PROVE k + 1 \in N
  <2>1. PICK f : f = [i \in 1..k |-> G(f, i)]
    BY <1>2
  <2>0. \A i \in 1..k : f[i] = G(f, i)
    <3> HIDE DEF G
    <3> QED
      BY <2>1
  <2> DEFINE g == [i \in 1..(k + 1) |-> IF i = k + 1 THEN G(f, i) ELSE f[i]]
  <2>2. ASSUME NEW i \in 1..(k + 1) PROVE g[i] = G(g, i)
    <3>1. i # 1 => i - 1 \in 1..k /\ g[i - 1] = f[i - 1]
      OBVIOUS
    <3>2. G(g, i) = G(f, i)
      BY <3>1
    <3>3. i # k + 1 => i \in 1..k /\ f[i] = G(f, i)
      <4>1. i # k + 1 => i \in 1..k
        OBVIOUS
      <4> HIDE DEF G
      <4> QED
        BY <2>0, <4>1
    <3> QED
      BY <3>2, <3>3
  <2>3. g = [i \in 1..(k + 1) |-> G(g, i)]
    <3> HIDE DEF G
    <3> QED
      BY <2>2
  <2> HIDE DEF g, G
  <2> QED
    BY <2>3
<1>3. n \in N
  <2> HIDE DEF N
  <2> QED
    BY <1>1, <1>2, InductionOnNat
<1>4. Len(seqs) = n /\ n # 0
  OBVIOUS
<1> DEFINE f == CHOOSE f : f = [i \in 1..n |-> G(f, i)]
<1>5. f = [i \in 1..n |-> G(f, i)]
  BY <1>3
<1>6. FlattenSeq(seqs) = f[n]
  BY <1>4, Zenon DEF FlattenSeq
<1> HIDE DEF f
<1>7. f[1] = seqs[1] /\ \A i \in 2..n : f[i] = f[i - 1] \o seqs[i]
  <2>1. \A i \in 1..n : f[i] = G(f, i)
    <3> HIDE DEF G
    <3> QED
      BY <1>5
  <2>2. 1 \in 1..n /\ \A i \in 2..n : i \in 1..n /\ i # 1
    OBVIOUS
  <2> QED
    BY <2>1, <2>2
<1>8. \A i \in Nat : i \in 1..n => f[i] \in Seq(S)
  <2> DEFINE M == {i \in Nat : i \in 1..n => f[i] \in Seq(S)}
  <2>1. 0 \in M
    OBVIOUS
  <2>2. ASSUME NEW i \in Nat, i \in M PROVE i + 1 \in M
    <3> SUFFICES ASSUME i + 1 \in 1..n PROVE f[i + 1] \in Seq(S)
      OBVIOUS
    <3>1. CASE i = 0
      BY <1>7, <3>1
    <3>2. CASE i # 0
      <4>0. i + 1 \in 2..n /\ (i + 1) - 1 = i /\ i \in 1..n
        BY <3>2
      <4>1. f[i + 1] = f[i] \o seqs[i + 1]
        BY <1>7, <4>0
      <4>2. f[i] \in Seq(S) /\ seqs[i + 1] \in Seq(S)
        BY <2>2, <4>0
      <4> QED
        BY <4>1, <4>2
    <3> QED
      BY <3>1, <3>2
  <2> HIDE DEF M
  <2>3. Nat \subseteq M
    BY <2>1, <2>2, InductionOnNat
  <2> QED
    BY <2>3 DEF M
<1>9. f \in [1..n -> Seq(S)]
  <2>1. f \in [1..n -> {f[i] : i \in 1..n}]
    BY <1>5
  <2> QED
    BY <1>8, <2>1
<1>10. Flattens(f, seqs, n)
  BY <1>7 DEF Flattens
<1> QED
  BY <1>6, <1>9, <1>10
---------------------------------------------------------------------------
(* Bags of sequences.                                                       *)

\* Where an element is in a sequence.
Places(s, x) == {i \in DOMAIN s : s[i] = x}

\* They are finitely many, and none where the element is not in the sequence.
LEMMA PlacesAreFinite ==
    ASSUME NEW S, NEW s \in Seq(S), NEW x
    PROVE  /\ IsFiniteSet(Places(s, x)) /\ Cardinality(Places(s, x)) \in Nat
           /\ Cardinality(Places(s, x)) = 0 <=> x \notin Range(s)
<1>1. IsFiniteSet(1..Len(s))
  BY FS_Interval
<1>2. IsFiniteSet(Places(s, x))
  BY <1>1, FS_Subset DEF Places
<1>3. Places(s, x) = {} <=> x \notin Range(s)
  BY DEF Places, Range
<1> QED
  BY <1>2, <1>3, FS_CardinalityType, FS_EmptySet

\* Two bags are the same when they have each element as often.
LEMMA SameBag ==
    ASSUME NEW S, NEW a \in Seq(S), NEW b \in Seq(S)
    PROVE  ToBag(a) = ToBag(b)
              <=> \A x : Cardinality(Places(a, x)) = Cardinality(Places(b, x))
<1>1. ToBag(a) = [x \in Range(a) |-> Cardinality(Places(a, x))]
  BY DEF ToBag, Places
<1>2. ToBag(b) = [x \in Range(b) |-> Cardinality(Places(b, x))]
  BY DEF ToBag, Places
<1>3. ASSUME ToBag(a) = ToBag(b), NEW x
      PROVE  Cardinality(Places(a, x)) = Cardinality(Places(b, x))
  <2>1. Range(a) = Range(b)
    BY <1>1, <1>2, <1>3
  <2>2. CASE x \in Range(a)
    BY <1>1, <1>2, <1>3, <2>1, <2>2
  <2>3. CASE x \notin Range(a)
    BY <2>1, <2>3, PlacesAreFinite
  <2> QED
    BY <2>2, <2>3
<1>4. ASSUME \A x : Cardinality(Places(a, x)) = Cardinality(Places(b, x))
      PROVE  ToBag(a) = ToBag(b)
  <2>1. ASSUME NEW x PROVE x \in Range(a) <=> x \in Range(b)
    BY <1>4, PlacesAreFinite
  <2>2. Range(a) = Range(b)
    BY <2>1
  <2> QED
    BY <1>1, <1>2, <1>4, <2>2
<1> QED
  BY <1>3, <1>4

\* The same bags are of sequences of the same elements and the same length.
LEMMA SameBagSameLength ==
    ASSUME NEW S, NEW a \in Seq(S), NEW b \in Seq(S), ToBag(a) = ToBag(b)
    PROVE  Len(a) = Len(b) /\ Range(a) = Range(b)
<1>1. \A x : Cardinality(Places(a, x)) = Cardinality(Places(b, x))
  BY SameBag
<1>2. Range(a) = Range(b)
  <2>1. ToBag(a) = [x \in Range(a) |-> Cardinality(Places(a, x))]
    BY DEF ToBag, Places
  <2>2. ToBag(b) = [x \in Range(b) |-> Cardinality(Places(b, x))]
    BY DEF ToBag, Places
  <2> QED
    BY <2>1, <2>2
<1>3. \A x : \E f : f \in Bijection(Places(a, x), Places(b, x))
  BY <1>1, PlacesAreFinite, FS_SameCardinalityBij DEF ExistsBijection
<1>3a. ASSUME NEW k \in 1..Len(b) PROVE b[k] \in Range(a) /\ k \in Places(b, b[k])
  <2>1. k \in DOMAIN b
    OBVIOUS
  <2>2. b[k] \in Range(b)
    BY <2>1 DEF Range
  <2>3. k \in Places(b, b[k])
    BY <2>1 DEF Places
  <2> QED
    BY <1>2, <2>2, <2>3
<1> DEFINE F == [x \in Range(a) |-> CHOOSE f : f \in Bijection(Places(a, x), Places(b, x))]
           g == [i \in 1..Len(a) |-> F[a[i]][i]]
<1>4. \A x \in Range(a) : F[x] \in Bijection(Places(a, x), Places(b, x))
  BY <1>3
<1> HIDE DEF F
<1>5. ASSUME NEW i \in 1..Len(a) PROVE a[i] \in Range(a) /\ i \in Places(a, a[i])
  BY DEF Places, Range
<1>6. ASSUME NEW x \in Range(a), NEW i \in Places(a, x)
      PROVE  F[x][i] \in Places(b, x)
  BY <1>4, Fun_BijectionProperties
<1>7. ASSUME NEW i \in 1..Len(a) PROVE g[i] \in 1..Len(b) /\ b[g[i]] = a[i]
  BY <1>5, <1>6 DEF Places
<1>8. g \in [1..Len(a) -> 1..Len(b)]
  BY <1>7
<1>9. ASSUME NEW i \in 1..Len(a), NEW j \in 1..Len(a), g[i] = g[j] PROVE i = j
  <2>1. a[i] = a[j]
    BY <1>7, <1>9
  <2>2. j \in Places(a, a[i]) /\ i \in Places(a, a[i])
    BY <1>5, <2>1
  <2>3. F[a[i]][i] = F[a[i]][j]
    BY <1>9, <2>1
  <2>4. \A p, q \in Places(a, a[i]) : F[a[i]][p] = F[a[i]][q] => p = q
    BY <1>4, <1>5, Fun_BijectionProperties
  <2> QED
    BY <2>2, <2>3, <2>4
<1>10. ASSUME NEW k \in 1..Len(b) PROVE \E i \in 1..Len(a) : g[i] = k
  <2>1. b[k] \in Range(a) /\ k \in Places(b, b[k])
    BY <1>3a
  <2>2. PICK i \in Places(a, b[k]) : F[b[k]][i] = k
    BY <1>4, <2>1, Fun_BijectionProperties
  <2>3. i \in 1..Len(a) /\ a[i] = b[k]
    BY <2>2 DEF Places
  <2> QED
    BY <2>2, <2>3
<1>11. g \in Bijection(1..Len(a), 1..Len(b))
  <2> HIDE DEF g
  <2> QED
    BY <1>8, <1>9, <1>10, Fun_IsBij
<1>12. Cardinality(1..Len(a)) = Cardinality(1..Len(b))
  BY <1>11, FS_Bijection, FS_Interval DEF ExistsBijection
<1>13. \A n \in Nat : Cardinality(1..n) = n
  <2>1. ASSUME NEW n \in Nat PROVE Cardinality(1..n) = n
    <3>1. Cardinality(1..n) = IF 1 > n THEN 0 ELSE n - 1 + 1
      BY FS_Interval
    <3> QED
      BY <3>1
  <2> QED
    BY <2>1
<1>14. Len(a) \in Nat /\ Len(b) \in Nat
  OBVIOUS
<1> QED
  BY <1>2, <1>12, <1>13, <1>14

\* What has the same end has the same beginning.
LEMMA SuffixCancels ==
    ASSUME NEW S, NEW s \in Seq(S), NEW t \in Seq(S), NEW v \in Seq(S), s \o v = t \o v
    PROVE  s = t
<1>1. Len(s \o v) = Len(s) + Len(v) /\ Len(t \o v) = Len(t) + Len(v)
  BY ConcatProperties
<1>2. Len(s) \in Nat /\ Len(t) \in Nat /\ Len(v) \in Nat
  OBVIOUS
<1>3. Len(s) = Len(t)
  BY <1>1, <1>2
<1>4. ASSUME NEW i \in 1..Len(s) PROVE s[i] = t[i]
  <2>1. (s \o v)[i] = s[i] /\ (t \o v)[i] = t[i]
    BY <1>2, <1>3, ConcatProperties
  <2> QED
    BY <2>1
<1> QED
  BY <1>3, <1>4
=============================================================================
