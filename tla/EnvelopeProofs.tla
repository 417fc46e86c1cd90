--------------------------- MODULE EnvelopeProofs ---------------------------
(***************************************************************************)
(* Proofs about Envelope and KeyDerivation, for any credentials, salts,     *)
(* lengths, requests and draws: which credentials derive the key of a file, *)
(* when a file opens and what its size tells.                               *)
(*                                                                         *)
(* Hashes are in a strict total order, so any of them can be sorted, and    *)
(* what comes out depends on how often each is there and on nothing else.   *)
(* The inductive invariant says what a stored file has of its request.      *)
(***************************************************************************)
EXTENDS Envelope, SequenceFacts

---------------------------------------------------------------------------
(* Hashes and their order.                                                  *)

Hashes == {Hash(text) : text \in Text}
Agree(a, b, i) == \A j \in 1..(i - 1) : a[j] = b[j]

\* Longer comes later, and of two as long the first difference tells.
LEMMA BeforeIs ==
    ASSUME NEW a \in Text, NEW b \in Text
    PROVE  Before(Hash(a), Hash(b)) <=>
              \/ Len(a) < Len(b)
              \/ Len(a) = Len(b) /\ \E i \in 1..Len(a) : Agree(a, b, i) /\ a[i] < b[i]
<1>1. Hash(a)[2] = a /\ Hash(b)[2] = b
  BY DEF Hash
<1>2. ASSUME NEW i \in 1..Len(a), Len(a) = Len(b)
      PROVE  SubSeq(a, 1, i - 1) = SubSeq(b, 1, i - 1) <=> Agree(a, b, i)
  <2>1. /\ SubSeq(a, 1, i - 1) = [j \in 1..(i - 1) |-> a[j]]
        /\ SubSeq(b, 1, i - 1) = [j \in 1..(i - 1) |-> b[j]]
    BY <1>2 DEF Text
  <2>2. ASSUME SubSeq(a, 1, i - 1) = SubSeq(b, 1, i - 1), NEW j \in 1..(i - 1)
        PROVE  a[j] = b[j]
    BY <2>1, <2>2
  <2> QED
    BY <2>1, <2>2 DEF Agree
<1>3. DOMAIN a = 1..Len(a)
  BY DEF Text
<1> QED
  BY <1>1, <1>2, <1>3 DEF Before

\* A hash is the hash of one text only.
LEMMA HashIsInjective ==
    ASSUME NEW a, NEW b, Hash(a) = Hash(b)
    PROVE  a = b
BY DEF Hash

\* It is a strict and total order.
LEMMA BeforeNotSelf == ASSUME NEW h \in Hashes PROVE ~Before(h, h)
<1>1. PICK a \in Text : h = Hash(a)
  BY DEF Hashes
<1>2. Len(a) \in Nat /\ \A i \in 1..Len(a) : a[i] \in Nat
  BY DEF Text
<1> QED
  BY <1>1, <1>2, BeforeIs

LEMMA BeforeIsTotal ==
    ASSUME NEW h \in Hashes, NEW g \in Hashes, h # g
    PROVE  Before(h, g) \/ Before(g, h)
<1>1. PICK a \in Text, b \in Text : h = Hash(a) /\ g = Hash(b)
  BY DEF Hashes
<1>2. /\ Len(a) \in Nat /\ \A i \in 1..Len(a) : a[i] \in Nat
      /\ Len(b) \in Nat /\ \A i \in 1..Len(b) : b[i] \in Nat
  BY DEF Text
<1>3. CASE Len(a) # Len(b)
  BY <1>1, <1>2, <1>3, BeforeIs
<1>4. CASE Len(a) = Len(b)
  <2> DEFINE D == {i \in 1..Len(a) : a[i] # b[i]}
  <2>1. D # {}
    BY <1>1, <1>4 DEF Text
  <2>0. D \in SUBSET Nat
    OBVIOUS
  <2>2. PICK i \in D : \A j \in D : i <= j
    <3> HIDE DEF D
    <3> QED
      BY <2>0, <2>1, LeastNat
  <2>3. i \in 1..Len(a) /\ Agree(a, b, i) /\ Agree(b, a, i)
    BY <2>2, <1>2 DEF Agree
  <2>4. a[i] < b[i] \/ b[i] < a[i]
    BY <2>2, <1>2, <1>4
  <2> QED
    BY <1>1, <1>4, <2>3, <2>4, BeforeIs
<1> QED
  BY <1>3, <1>4

LEMMA BeforeIsTransitive ==
    ASSUME NEW f \in Hashes, NEW g \in Hashes, NEW h \in Hashes, Before(f, g), Before(g, h)
    PROVE  Before(f, h)
<1>1. PICK a \in Text, b \in Text, c \in Text : f = Hash(a) /\ g = Hash(b) /\ h = Hash(c)
  BY DEF Hashes
<1>2. /\ Len(a) \in Nat /\ \A i \in 1..Len(a) : a[i] \in Nat
      /\ Len(b) \in Nat /\ \A i \in 1..Len(b) : b[i] \in Nat
      /\ Len(c) \in Nat /\ \A i \in 1..Len(c) : c[i] \in Nat
  BY DEF Text
<1>3. \/ Len(a) < Len(b)
      \/ Len(a) = Len(b) /\ \E i \in 1..Len(a) : Agree(a, b, i) /\ a[i] < b[i]
  BY <1>1, BeforeIs
<1>4. \/ Len(b) < Len(c)
      \/ Len(b) = Len(c) /\ \E i \in 1..Len(b) : Agree(b, c, i) /\ b[i] < c[i]
  BY <1>1, BeforeIs
<1>5. CASE Len(a) < Len(c)
  BY <1>1, <1>5, BeforeIs
<1>6. CASE ~(Len(a) < Len(c))
  <2>1. Len(a) = Len(b) /\ Len(b) = Len(c)
    BY <1>2, <1>3, <1>4, <1>6
  <2>2. PICK i \in 1..Len(a) : Agree(a, b, i) /\ a[i] < b[i]
    BY <1>2, <1>3, <2>1
  <2>3. PICK j \in 1..Len(a) : Agree(b, c, j) /\ b[j] < c[j]
    BY <1>2, <1>4, <2>1
  <2>4. CASE i <= j
    <3>1. Agree(a, c, i)
      BY <2>2, <2>3, <2>4 DEF Agree
    <3>2. a[i] < c[i]
      <4>1. CASE i = j
        BY <1>2, <2>1, <2>2, <2>3, <4>1
      <4>2. CASE i < j
        <5>1. b[i] = c[i]
          BY <2>3, <4>2 DEF Agree
        <5> QED
          BY <2>2, <5>1
      <4> QED
        BY <2>4, <4>1, <4>2
    <3> QED
      BY <1>1, <2>1, <3>1, <3>2, BeforeIs
  <2>5. CASE j < i
    <3>1. Agree(a, c, j)
      BY <2>2, <2>3, <2>5 DEF Agree
    <3>2. a[j] = b[j]
      BY <2>2, <2>5 DEF Agree
    <3> QED
      BY <1>1, <2>1, <2>3, <3>1, <3>2, BeforeIs
  <2> QED
    BY <2>4, <2>5
<1> QED
  BY <1>5, <1>6

---------------------------------------------------------------------------
(* Sorting.                                                                 *)

\* What goes before a place when equals keep their order, the place included.
Ahead(a, i) == {j \in DOMAIN a : Before(a[j], a[i]) \/ (a[j] = a[i] /\ j <= i)}

\* The places are numbered by how many go before them.
LEMMA AheadGrows ==
    ASSUME NEW a \in Seq(Hashes), NEW p \in DOMAIN a, NEW q \in DOMAIN a,
           Before(a[p], a[q]) \/ (a[p] = a[q] /\ p < q)
    PROVE  Cardinality(Ahead(a, p)) < Cardinality(Ahead(a, q))
<1>1. /\ DOMAIN a = 1..Len(a) /\ Len(a) \in Nat /\ \A i \in DOMAIN a : a[i] \in Hashes
      /\ p \in Nat /\ q \in Nat
  OBVIOUS
<1>2. ASSUME NEW i \in DOMAIN a
      PROVE  IsFiniteSet(Ahead(a, i)) /\ Cardinality(Ahead(a, i)) \in Nat
  <2>1. Ahead(a, i) \subseteq 1..Len(a)
    BY <1>1 DEF Ahead
  <2>2. IsFiniteSet(1..Len(a))
    BY <1>1, FS_Interval
  <2>3. IsFiniteSet(Ahead(a, i))
    BY <2>1, <2>2, FS_Subset
  <2> QED
    BY <2>3, FS_CardinalityType
<1>3. ASSUME NEW j \in Ahead(a, p) PROVE j \in Ahead(a, q)
  <2>1. j \in DOMAIN a /\ (Before(a[j], a[p]) \/ (a[j] = a[p] /\ j <= p))
    BY DEF Ahead
  <2>2. Before(a[j], a[q]) \/ (a[j] = a[q] /\ j <= q)
    <3>1. CASE Before(a[j], a[p]) /\ Before(a[p], a[q])
      BY <1>1, <2>1, <3>1, BeforeIsTransitive
    <3>2. CASE ~(Before(a[j], a[p]) /\ Before(a[p], a[q]))
      BY <1>1, <2>1, <3>2
    <3> QED
      BY <3>1, <3>2
  <2> QED
    BY <2>1, <2>2 DEF Ahead
<1>4. q \in Ahead(a, q)
  BY <1>1 DEF Ahead
<1>5. q \notin Ahead(a, p)
  <2>1. ~Before(a[q], a[p])
    <3> SUFFICES ASSUME Before(a[q], a[p]) PROVE FALSE
      OBVIOUS
    <3>1. Before(a[p], a[p])
      BY <1>1, BeforeIsTransitive
    <3> QED
      BY <1>1, <3>1, BeforeNotSelf
  <2>2. ~(a[q] = a[p] /\ q <= p)
    BY <1>1, BeforeNotSelf
  <2> QED
    BY <2>1, <2>2 DEF Ahead
<1>6. Ahead(a, p) \in SUBSET Ahead(a, q) /\ Ahead(a, p) # Ahead(a, q)
  BY <1>3, <1>4, <1>5
<1>7. /\ Cardinality(Ahead(a, p)) <= Cardinality(Ahead(a, q))
      /\ Cardinality(Ahead(a, q)) # Cardinality(Ahead(a, p))
  BY <1>2, <1>6, FS_Subset
<1> QED
  BY <1>2, <1>7

LEMMA PlacesAreNumbered ==
    ASSUME NEW a \in Seq(Hashes)
    PROVE  [i \in DOMAIN a |-> Cardinality(Ahead(a, i))] \in Bijection(DOMAIN a, DOMAIN a)
<1> DEFINE n == Len(a)
           r == [i \in DOMAIN a |-> Cardinality(Ahead(a, i))]
<1>1. DOMAIN a = 1..n /\ n \in Nat /\ \A i \in DOMAIN a : a[i] \in Hashes
  OBVIOUS
<1>2. IsFiniteSet(1..n) /\ Cardinality(1..n) = n
  BY <1>1, FS_Interval
<1>3. ASSUME NEW i \in DOMAIN a PROVE r[i] \in 1..n
  <2>1. Ahead(a, i) \in SUBSET (1..n) /\ i \in Ahead(a, i)
    BY <1>1 DEF Ahead
  <2>2. IsFiniteSet(Ahead(a, i)) /\ Cardinality(Ahead(a, i)) <= n
    BY <1>2, <2>1, FS_Subset
  <2>3. Cardinality(Ahead(a, i)) \in Nat /\ Cardinality(Ahead(a, i)) # 0
    BY <2>1, <2>2, FS_CardinalityType, FS_EmptySet
  <2> QED
    BY <1>1, <2>2, <2>3
<1>4. r \in [DOMAIN a -> 1..n]
  BY <1>3
<1>5. ASSUME NEW p \in DOMAIN a, NEW q \in DOMAIN a, r[p] = r[q] PROVE p = q
  <2> SUFFICES ASSUME p # q PROVE FALSE
    OBVIOUS
  <2>1. \/ Before(a[p], a[q]) \/ Before(a[q], a[p]) 
        \/ (a[p] = a[q] /\ p < q) \/ (a[q] = a[p] /\ q < p)
    BY <1>1, BeforeIsTotal
  <2>2. r[p] < r[q] \/ r[q] < r[p]
    BY <2>1, AheadGrows
  <2> QED
    BY <1>1, <1>3, <1>5, <2>2
<1> HIDE DEF r, n
<1>6. r \in Injection(1..n, 1..n)
  BY <1>1, <1>4, <1>5, Fun_IsInj
<1>7. r \in Surjection(1..n, 1..n)
  BY <1>2, <1>6, FS_Injection
<1>8. r \in Bijection(1..n, 1..n)
  BY <1>6, <1>7, Fun_IsBij
<1> QED
  BY <1>1, <1>8 DEF r

\* Every sequence of hashes can be sorted.
LEMMA CanBeSorted ==
    ASSUME NEW a \in Seq(Hashes)
    PROVE  \E s \in [DOMAIN a -> Range(a)] :
              /\ \A i, j \in DOMAIN s : i < j => ~Before(s[j], s[i])
              /\ ToBag(s) = ToBag(a)
<1> DEFINE D == DOMAIN a
           r == [i \in D |-> Cardinality(Ahead(a, i))]
           at == [k \in D |-> CHOOSE i \in D : r[i] = k]
           s == [k \in D |-> a[at[k]]]
<1>1. D = 1..Len(a) /\ Len(a) \in Nat /\ \A i \in D : a[i] \in Hashes /\ a[i] \in Range(a)
  BY DEF Range
<1>2. r \in Bijection(D, D)
  BY PlacesAreNumbered
<1>3. /\ \A i \in D : r[i] \in D
      /\ \A i, j \in D : r[i] = r[j] => i = j
      /\ \A k \in D : \E i \in D : r[i] = k
  <2> HIDE DEF r, D
  <2> QED
    BY <1>2, Fun_BijectionProperties
<1>4. \A k \in D : at[k] \in D /\ r[at[k]] = k
  <2> HIDE DEF r, D
  <2> QED
    BY <1>3
<1>5. \A i \in D : at[r[i]] = i
  <2> HIDE DEF r, D, at
  <2> QED
    BY <1>3, <1>4
<1>6. s \in [D -> Range(a)] /\ DOMAIN s = D
  <2> HIDE DEF r, D, at
  <2> QED
    BY <1>1, <1>4
<1>7. ASSUME NEW i \in D, NEW j \in D, i < j PROVE ~Before(s[j], s[i])
  <2> SUFFICES ASSUME Before(s[j], s[i]) PROVE FALSE
    OBVIOUS
  <2>1. Before(a[at[j]], a[at[i]])
    OBVIOUS
  <2>2. Cardinality(Ahead(a, at[j])) < Cardinality(Ahead(a, at[i]))
    <3> HIDE DEF at
    <3> QED
      BY <1>4, <2>1, AheadGrows
  <2>3. r[at[j]] < r[at[i]]
    <3> HIDE DEF at
    <3> QED
      BY <1>4, <2>2
  <2> QED
    <3> HIDE DEF at, r, D
    <3> QED
      BY <1>1, <1>4, <1>7, <2>3
<1>8. s \in Seq(Range(a)) /\ a \in Seq(Range(a))
  <2> HIDE DEF s, r, at
  <2> QED
    BY <1>1, <1>6
<1>9. ASSUME NEW x PROVE Cardinality(Places(a, x)) = Cardinality(Places(s, x))
  <2> DEFINE g == [i \in Places(a, x) |-> r[i]]
  <2>1. /\ \A i : i \in Places(a, x) <=> i \in D /\ a[i] = x
        /\ \A k : k \in Places(s, x) <=> k \in D /\ a[at[k]] = x
    <3> HIDE DEF r, at
    <3> QED
      BY DEF Places
  <2> HIDE DEF r, at, s, D
  <2>2. g \in [Places(a, x) -> Places(s, x)]
    BY <1>3, <1>5, <2>1
  <2>3. \A i, j \in Places(a, x) : g[i] = g[j] => i = j
    BY <1>3, <2>1
  <2>4. ASSUME NEW k \in Places(s, x) PROVE \E i \in Places(a, x) : g[i] = k
    BY <1>4, <2>1
  <2> HIDE DEF g
  <2>5. g \in Bijection(Places(a, x), Places(s, x))
    BY <2>2, <2>3, <2>4, Fun_IsBij
  <2>6. IsFiniteSet(Places(a, x))
    BY PlacesAreFinite
  <2> QED
    BY <2>5, <2>6, FS_Bijection DEF ExistsBijection
<1> HIDE DEF s, r, at
<1>10. ToBag(s) = ToBag(a)
  BY <1>8, <1>9, SameBag
<1> QED
  BY <1>6, <1>7, <1>10

\* What is sorted is as often there as before.
LEMMA SortedKeeps ==
    ASSUME NEW a \in Seq(Hashes)
    PROVE  Sorted(a) \in Seq(Hashes) /\ Len(Sorted(a)) = Len(a) /\ ToBag(Sorted(a)) = ToBag(a)
<1>1. Sorted(a) \in [DOMAIN a -> Range(a)] /\ ToBag(Sorted(a)) = ToBag(a)
  BY CanBeSorted DEF Sorted
<1>2. Range(a) \subseteq Hashes /\ DOMAIN a = 1..Len(a) /\ Len(a) \in Nat
  BY DEF Range
<1>3. Sorted(a) \in [1..Len(a) -> Hashes]
  BY <1>1, <1>2
<1> QED
  BY <1>1, <1>2, <1>3, SeqOfLength

\* The order they are given in plays no part, how often each is there does.
LEMMA SortedTheSame ==
    ASSUME NEW a \in Seq(Hashes), NEW b \in Seq(Hashes)
    PROVE  Sorted(a) = Sorted(b) <=> ToBag(a) = ToBag(b)
<1>1. ASSUME Sorted(a) = Sorted(b) PROVE ToBag(a) = ToBag(b)
  BY <1>1, SortedKeeps
<1>2. ASSUME ToBag(a) = ToBag(b) PROVE Sorted(a) = Sorted(b)
  <2>1. Len(a) = Len(b) /\ Range(a) = Range(b)
    BY <1>2, SameBagSameLength
  <2>2. DOMAIN a = DOMAIN b
    BY <2>1
  <2> QED
    BY <1>2, <2>1, <2>2 DEF Sorted
<1> QED
  BY <1>1, <1>2

---------------------------------------------------------------------------
(* Credentials and keys.                                                    *)

\* Arguments are walked to contents.
LEMMA ExpandType ==
    ASSUME NEW arguments \in Seq(Seq(Text))
    PROVE  /\ expand_keyfiles(arguments) \in Seq(Text)
           /\ arguments = << >> => expand_keyfiles(arguments) = << >>
<1>1. CASE arguments = << >>
  <2>1. Len(arguments) = 0
    BY <1>1
  <2>2. FlattenSeq(arguments) = arguments
    BY <2>1, Zenon DEF FlattenSeq
  <2>3. expand_keyfiles(arguments) = << >>
    BY <1>1, <2>2 DEF expand_keyfiles
  <2> QED
    BY <2>3
<1>2. CASE arguments # << >>
  <2> DEFINE n == Len(arguments)
  <2>1. n \in Nat \ {0} /\ arguments \in [1..n -> Seq(Text)] /\ n \in 1..n
    BY <1>2
  <2>2. PICK f \in [1..n -> Seq(Text)] :
           FlattenSeq(arguments) = f[n] /\ Flattens(f, arguments, n)
    <3> HIDE DEF n
    <3> QED
      BY <2>1, FlattenSteps
  <2>3. f[n] \in Seq(Text)
    BY <2>1
  <2> QED
    BY <1>2, <2>2, <2>3 DEF expand_keyfiles
<1> QED
  BY <1>1, <1>2

\* What follows a content does not tell contents apart.
LEMMA SameHash ==
    ASSUME NEW a \in Text, NEW b \in Text, NEW password \in Text, NEW salt \in Text
    PROVE  /\ Hash(a \o password \o salt) \in Hashes
           /\ Hash(a \o password \o salt) = Hash(b \o password \o salt) <=> a = b
<1>1. a \o password \o salt \in Text /\ b \o password \o salt \in Text
  BY DEF Text
<1>4. a \o password \in Text /\ b \o password \in Text
  BY DEF Text
<1>2. a \o password \o salt = b \o password \o salt => a \o password = b \o password
  BY <1>4, SuffixCancels DEF Text
<1>3. a \o password = b \o password => a = b
  BY <1>4, SuffixCancels DEF Text
<1> QED
  BY <1>1, <1>2, <1>3, HashIsInjective DEF Hashes

\* The hashes of keyfiles.
Hashed(password, salt, keyfiles) ==
    [i \in DOMAIN keyfiles |-> Hash(keyfiles[i] \o password \o salt)]

LEMMA HashedType ==
    ASSUME NEW password \in Text, NEW salt \in Text, NEW k \in Seq(Text)
    PROVE  Hashed(password, salt, k) \in Seq(Hashes) /\ Len(Hashed(password, salt, k)) = Len(k)
<1>1. \A i \in DOMAIN k : Hash(k[i] \o password \o salt) \in Hashes
  BY SameHash
<1>2. DOMAIN k = 1..Len(k) /\ Len(k) \in Nat
  OBVIOUS
<1>3. Hashed(password, salt, k) \in [1..Len(k) -> Hashes]
  BY <1>1, <1>2 DEF Hashed
<1> QED
  BY <1>2, <1>3, SeqOfLength

\* Where a content is, its hash is.
LEMMA HashedPlaces ==
    ASSUME NEW password \in Text, NEW salt \in Text, NEW k \in Seq(Text), NEW x \in Text
    PROVE  Places(Hashed(password, salt, k), Hash(x \o password \o salt)) = Places(k, x)
<1>1. \A i \in DOMAIN k : k[i] \in Text
  OBVIOUS
<1>2. ASSUME NEW i \in DOMAIN k
      PROVE  Hashed(password, salt, k)[i] = Hash(x \o password \o salt) <=> k[i] = x
  BY <1>1, SameHash DEF Hashed
<1>3. DOMAIN Hashed(password, salt, k) = DOMAIN k
  BY DEF Hashed
<1> QED
  BY <1>2, <1>3 DEF Places

\* The same contents as often have the same hashes as often, and no others do.
LEMMA HashedTheSame ==
    ASSUME NEW password \in Text, NEW salt \in Text, NEW k \in Seq(Text), NEW l \in Seq(Text)
    PROVE  ToBag(Hashed(password, salt, k)) = ToBag(Hashed(password, salt, l))
              <=> ToBag(k) = ToBag(l)
<1> DEFINE H(s) == Hashed(password, salt, s)
<1>1. H(k) \in Seq(Hashes) /\ H(l) \in Seq(Hashes)
  BY HashedType
<1>2. ASSUME ToBag(H(k)) = ToBag(H(l)), NEW x
      PROVE  Cardinality(Places(k, x)) = Cardinality(Places(l, x))
  <2>1. CASE x \in Text
    <3>1. Cardinality(Places(H(k), Hash(x \o password \o salt)))
             = Cardinality(Places(H(l), Hash(x \o password \o salt)))
      <4> HIDE DEF H
      <4> QED
        BY <1>1, <1>2, SameBag
    <3> QED
      BY <2>1, <3>1, HashedPlaces
  <2>2. CASE x \notin Text
    <3>1. x \notin Range(k) /\ x \notin Range(l)
      BY <2>2 DEF Range
    <3> QED
      BY <3>1, PlacesAreFinite
  <2> QED
    BY <2>1, <2>2
<1>3. ASSUME ToBag(k) = ToBag(l), NEW h
      PROVE  Cardinality(Places(H(k), h)) = Cardinality(Places(H(l), h))
  <2>1. CASE \E x \in Text : h = Hash(x \o password \o salt)
    <3>1. PICK x \in Text : h = Hash(x \o password \o salt)
      BY <2>1
    <3>2. Cardinality(Places(k, x)) = Cardinality(Places(l, x))
      BY <1>3, SameBag
    <3> QED
      BY <3>1, <3>2, HashedPlaces
  <2>2. CASE ~ \E x \in Text : h = Hash(x \o password \o salt)
    <3>1. h \notin Range(H(k)) /\ h \notin Range(H(l))
      BY <2>2 DEF Range, Hashed
    <3> HIDE DEF H
    <3> QED
      BY <1>1, <3>1, PlacesAreFinite
  <2> QED
    BY <2>1, <2>2
<1>4. ToBag(H(k)) = ToBag(H(l)) => ToBag(k) = ToBag(l)
  <2> SUFFICES ASSUME ToBag(H(k)) = ToBag(H(l)) PROVE ToBag(k) = ToBag(l)
    OBVIOUS
  <2>1. \A x : Cardinality(Places(k, x)) = Cardinality(Places(l, x))
    BY <1>2
  <2> QED
    BY <2>1, SameBag
<1>5. ToBag(k) = ToBag(l) => ToBag(H(k)) = ToBag(H(l))
  <2> SUFFICES ASSUME ToBag(k) = ToBag(l) PROVE ToBag(H(k)) = ToBag(H(l))
    OBVIOUS
  <2>1. \A h : Cardinality(Places(H(k), h)) = Cardinality(Places(H(l), h))
    BY <1>3
  <2> HIDE DEF H
  <2> QED
    BY <1>1, <2>1, SameBag
<1> QED
  BY <1>4, <1>5

Letters == {<< "character", c >> : c \in Nat}
Units == Hashes \cup Letters

LEMMA UnitTypes ==
    ASSUME NEW a \in Seq(Hashes), NEW p \in Text
    PROVE  /\ a \in Seq(Units) /\ Characters(p) \in Seq(Units)
           /\ Len(a) \in Nat /\ Len(p) \in Nat /\ Len(Characters(p)) = Len(p)
           /\ \A i \in 1..Len(a) : a[i][1] = "hash"
           /\ \A i \in 1..Len(p) : Characters(p)[i] = << "character", p[i] >>
<1>1. DOMAIN p = 1..Len(p) /\ Len(p) \in Nat /\ \A i \in 1..Len(p) : p[i] \in Nat
  BY DEF Text
<1>2. \A i \in 1..Len(p) : << "character", p[i] >> \in Units
  BY <1>1 DEF Units, Letters
<1>3. Characters(p) = [i \in 1..Len(p) |-> << "character", p[i] >>]
  BY <1>1 DEF Characters
<1>4. Characters(p) \in [1..Len(p) -> Units]
  BY <1>2, <1>3
<1>5. Characters(p) \in Seq(Units) /\ Len(Characters(p)) = Len(p)
  BY <1>1, <1>4, SeqOfLength
<1>6. \A h \in Hashes : h[1] = "hash" /\ h \in Units
  BY DEF Hashes, Hash, Units
<1>7. a \in Seq(Units) /\ Len(a) \in Nat /\ \A i \in 1..Len(a) : a[i] \in Hashes
  BY <1>6
<1> QED
  BY <1>1, <1>3, <1>5, <1>6, <1>7

LEMMA UnitsJoined ==
    ASSUME NEW a \in Seq(Hashes), NEW p \in Text
    PROVE  Len(a \o Characters(p)) = Len(a) + Len(p)
<1>1. a \in Seq(Units) /\ Characters(p) \in Seq(Units) /\ Len(Characters(p)) = Len(p)
  BY UnitTypes
<1>2. \A s, t \in Seq(Units) : Len(s \o t) = Len(s) + Len(t)
  BY ConcatProperties
<1> QED
  BY <1>1, <1>2, Zenon

\* No character is taken for a hash.
LEMMA HashesEndWhereCharactersBegin ==
    ASSUME NEW a \in Seq(Hashes), NEW b \in Seq(Hashes), NEW p \in Text, NEW q \in Text,
           a \o Characters(p) = b \o Characters(q)
    PROVE  ~(Len(a) < Len(b))
<1> SUFFICES ASSUME Len(a) < Len(b) PROVE FALSE
  OBVIOUS
<1>1. /\ a \in Seq(Units) /\ b \in Seq(Units)
      /\ Characters(p) \in Seq(Units) /\ Characters(q) \in Seq(Units)
      /\ Len(a) \in Nat /\ Len(b) \in Nat /\ Len(p) \in Nat /\ Len(q) \in Nat
      /\ Len(Characters(p)) = Len(p) /\ Len(Characters(q)) = Len(q)
  BY UnitTypes
<1>2. Len(a) + Len(p) = Len(b) + Len(q)
  BY UnitsJoined
<1> DEFINE i == Len(a) + 1
<1>3. 1 \in 1..Len(p) /\ i \in 1..Len(b)
  BY <1>1, <1>2
<1>4. (a \o Characters(p))[i] = Characters(p)[1]
  BY <1>1, <1>2, ConcatProperties
<1>5. (b \o Characters(q))[i] = b[i]
  BY <1>1, <1>3, ConcatProperties
<1>6. b[i][1] = "hash" /\ Characters(p)[1] = << "character", p[1] >>
  BY <1>3, UnitTypes
<1>7. << "character", p[1] >>[1] = "character"
  OBVIOUS
<1> QED
  BY <1>4, <1>5, <1>6, <1>7

\* Hashes and characters one after the other tell which hashes and which text.
LEMMA UnitsTell ==
    ASSUME NEW a \in Seq(Hashes), NEW b \in Seq(Hashes), NEW p \in Text, NEW q \in Text,
           a \o Characters(p) = b \o Characters(q)
    PROVE  a = b /\ p = q
<1>1. /\ a \in Seq(Units) /\ b \in Seq(Units)
      /\ Characters(p) \in Seq(Units) /\ Characters(q) \in Seq(Units)
      /\ Len(a) \in Nat /\ Len(b) \in Nat /\ Len(p) \in Nat /\ Len(q) \in Nat
      /\ Len(Characters(p)) = Len(p) /\ Len(Characters(q)) = Len(q)
  BY UnitTypes
<1>2. ~(Len(a) < Len(b)) /\ ~(Len(b) < Len(a))
  BY HashesEndWhereCharactersBegin
<1>3. Len(a) = Len(b)
  BY <1>1, <1>2
<1>4. Len(p) = Len(q)
  <2>1. Len(a) + Len(p) = Len(b) + Len(q)
    BY <1>1, ConcatProperties
  <2> QED
    BY <1>1, <1>3, <2>1
<1>5. ASSUME NEW i \in 1..Len(a) PROVE a[i] = b[i]
  <2>1. (a \o Characters(p))[i] = a[i]
    BY <1>1, ConcatProperties
  <2>2. (b \o Characters(q))[i] = b[i]
    BY <1>1, <1>3, ConcatProperties
  <2> QED
    BY <2>1, <2>2
<1>6. a = b
  BY <1>3, <1>5
<1>7. ASSUME NEW i \in 1..Len(p) PROVE p[i] = q[i]
  <2> DEFINE k == Len(a) + i
  <2>1. (a \o Characters(p))[k] = Characters(p)[i]
    BY <1>1, ConcatProperties
  <2>2. (b \o Characters(q))[k] = Characters(q)[i]
    BY <1>1, <1>3, <1>4, ConcatProperties
  <2>3. Characters(p)[i] = << "character", p[i] >> /\ Characters(q)[i] = << "character", q[i] >>
    BY <1>4, UnitTypes
  <2>4. Characters(p)[i] = Characters(q)[i]
    <3> HIDE DEF k
    <3> QED
      BY <2>1, <2>2
  <2>5. << "character", p[i] >>[2] = << "character", q[i] >>[2]
    BY <2>3, <2>4
  <2> QED
    BY <2>5
<1>8. p = q
  <2>1. p \in [1..Len(p) -> Nat] /\ q \in [1..Len(p) -> Nat]
    BY <1>4 DEF Text
  <2> QED
    BY <1>7, <2>1
<1> QED
  BY <1>6, <1>8

\* What argon2id is given tells the password and the keyfiles, how often each.
LEMMA PasswordsTell ==
    ASSUME NEW p \in Text, NEW q \in Text, NEW salt \in Text,
           NEW k \in Seq(Text), NEW l \in Seq(Text)
    PROVE  generate_password_with_keyfiles(p, salt, k) = generate_password_with_keyfiles(q, salt, l)
              <=> p = q /\ ToBag(k) = ToBag(l)
<1> DEFINE a == Hashed(p, salt, k)
           b == Hashed(q, salt, l)
<1>1. /\ generate_password_with_keyfiles(p, salt, k) = Sorted(a) \o Characters(p)
      /\ generate_password_with_keyfiles(q, salt, l) = Sorted(b) \o Characters(q)
  BY DEF generate_password_with_keyfiles, Hashed
<1>2. a \in Seq(Hashes) /\ b \in Seq(Hashes)
  BY HashedType
<1>3. Sorted(a) \in Seq(Hashes) /\ Sorted(b) \in Seq(Hashes)
  <2> HIDE DEF a, b
  <2> QED
    BY <1>2, SortedKeeps
<1>4. Sorted(a) \o Characters(p) = Sorted(b) \o Characters(q) => Sorted(a) = Sorted(b) /\ p = q
  <2> SUFFICES ASSUME Sorted(a) \o Characters(p) = Sorted(b) \o Characters(q)
               PROVE  Sorted(a) = Sorted(b) /\ p = q
    OBVIOUS
  <2> HIDE DEF a, b
  <2> QED
    BY <1>3, UnitsTell
<1>5. Sorted(a) = Sorted(b) <=> ToBag(a) = ToBag(b)
  <2> HIDE DEF a, b
  <2> QED
    BY <1>2, SortedTheSame
<1>6. p = q => (ToBag(a) = ToBag(b) <=> ToBag(k) = ToBag(l))
  BY HashedTheSame
<1> HIDE DEF a, b
<1> QED
  BY <1>1, <1>4, <1>5, <1>6

\* Difficulties differ in what argon2id is given.
LEMMA ParamsTell ==
    ASSUME NEW d \in DOMAIN argon2_difficulty_params, NEW e \in DOMAIN argon2_difficulty_params,
           argon2_difficulty_params[d] = argon2_difficulty_params[e]
    PROVE  d = e
<1>1. DOMAIN argon2_difficulty_params = {"Easy", "Normal", "Hard", "VeryHard"}
  BY DEF argon2_difficulty_params
<1>2. /\ argon2_difficulty_params["Easy"][1] = 42 /\ argon2_difficulty_params["Normal"][1] = 210
      /\ argon2_difficulty_params["Hard"][1] = 930
      /\ argon2_difficulty_params["VeryHard"][1] = 5500
  BY DEF argon2_difficulty_params
<1> QED
  BY <1>1, <1>2

\* A bag is empty when there is nothing in the sequence.
LEMMA SameBagBothEmpty ==
    ASSUME NEW k \in Seq(Text), NEW l \in Seq(Text), ToBag(k) = ToBag(l)
    PROVE  k = << >> <=> l = << >>
<1>1. Len(k) = Len(l)
  BY SameBagSameLength
<1> QED
  BY <1>1

(* The same password, difficulty and keyfiles, in whatever order these are    *)
(* named or found, derive the same key from a salt, and no other credentials  *)
(* do (default_derive_key, generate_password_with_keyfiles).                 *)
THEOREM KeysTellCredentials ==
    ASSUME NEW c \in Credentials, NEW d \in Credentials, NEW salt \in Text,
           NEW key \in DerivedKeys(d, salt)
    PROVE  key \in DerivedKeys(c, salt) <=> SameCredentials(c, d)
<1> DEFINE k == expand_keyfiles(c.keyfiles)
           l == expand_keyfiles(d.keyfiles)
           empty == c.keyfiles = << >>
           none == d.keyfiles = << >>
<1>1. /\ c.password \in Text /\ c.keyfiles \in Seq(Seq(Text))
      /\ c.difficulty \in DOMAIN argon2_difficulty_params
      /\ d.password \in Text /\ d.keyfiles \in Seq(Seq(Text))
      /\ d.difficulty \in DOMAIN argon2_difficulty_params
  BY DEF Credentials
<1>2. /\ k \in Seq(Text) /\ l \in Seq(Text)
      /\ (empty => k = << >>) /\ (none => l = << >>)
  BY <1>1, ExpandType
<1>3. /\ DerivedKeys(c, salt) = IF empty \/ k # << >>
                                THEN {default_derive_key(c.password, k, salt, c.difficulty)} ELSE {}
      /\ DerivedKeys(d, salt) = IF none \/ l # << >>
                                THEN {default_derive_key(d.password, l, salt, d.difficulty)} ELSE {}
  BY DEF DerivedKeys, parse_keyfiles_paths
<1>4. (none \/ l # << >>) /\ key = default_derive_key(d.password, l, salt, d.difficulty)
  BY <1>3
<1>5. SameCredentials(c, d) <=> /\ c.password = d.password /\ c.difficulty = d.difficulty
                                /\ ToBag(k) = ToBag(l) /\ (empty <=> none)
  BY DEF SameCredentials, expand_keyfiles
<1>6. default_derive_key(c.password, k, salt, c.difficulty)
         = default_derive_key(d.password, l, salt, d.difficulty)
      <=> /\ c.password = d.password /\ c.difficulty = d.difficulty /\ ToBag(k) = ToBag(l)
  <2> HIDE DEF k, l
  <2>1. generate_password_with_keyfiles(c.password, salt, k)
           = generate_password_with_keyfiles(d.password, salt, l)
        <=> c.password = d.password /\ ToBag(k) = ToBag(l)
    BY <1>1, <1>2, PasswordsTell
  <2>2. argon2_difficulty_params[c.difficulty] = argon2_difficulty_params[d.difficulty]
           <=> c.difficulty = d.difficulty
    BY <1>1, ParamsTell
  <2> QED
    BY <2>1, <2>2 DEF default_derive_key
<1>7. ToBag(k) = ToBag(l) => (k = << >> <=> l = << >>)
  <2> HIDE DEF k, l
  <2> QED
    BY <1>2, SameBagBothEmpty
<1> HIDE DEF k, l, empty, none
<1> QED
  BY <1>2, <1>3, <1>4, <1>5, <1>6, <1>7

---------------------------------------------------------------------------
(* The inductive invariant: what a stored file has of what was asked for.   *)

AsAsked ==
    /\ file.key \in KeysOf[asked.creds][file.salt]
    /\ file.version = Version(asked) /\ file.kind = KindOf(asked)
    /\ file.length = CiphertextLength[asked.type][asked.total]
    /\ file.network = IF asked.type = "standard" THEN asked.network ELSE None

IInv ==
    /\ TypeOK
    /\ stage = "asked" => file = None
    /\ stage = "stored" => AsAsked

LEMMA RequestTypes ==
    ASSUME NEW r \in Requests
    PROVE  /\ r \in Request /\ r.creds \in Given /\ r.min \in Nat /\ r.max \in Nat
           /\ r.network \in Network /\ r.type \in {"standard", "compact"}
           /\ r.disable_all_padding \in BOOLEAN
           /\ CiphertextLength[r.type][r.total] \in Nat \ {0}
           /\ CiphertextLength[r.type][r.total]
                 <= MINIMUM_CIPHERTEXT_SIZE_BYTES + MAX_ADDITIONAL_PADDING
           /\ Version(r) \in 0..2 /\ KindOf(r) \in Kind
<1>1. r \in Request
  BY RequestsAssumption
<1>2. /\ CiphertextLength[r.type][r.total] \in Nat \ {0}
      /\ CiphertextLength[r.type][r.total]
            <= MINIMUM_CIPHERTEXT_SIZE_BYTES + MAX_ADDITIONAL_PADDING
  BY RequestsAssumption
<1>3. Version(r) \in 0..2
  BY DEF Version, STANDARD_ENCRYPTED_WALLET_VERSION, COMPACT_ENCRYPTED_MAINNET_WALLET_VERSION,
         COMPACT_ENCRYPTED_TESTNET_WALLET_VERSION
<1>4. KindOf(r) \in Kind
  BY DEF KindOf, Kind
<1> QED
  BY <1>1, <1>2, <1>3, <1>4 DEF Request

LEMMA KeysOfIs ==
    ASSUME NEW c \in Given, NEW salt \in Salt
    PROVE  /\ KeysOf[c][salt] = DerivedKeys(c, salt) /\ KeysOf[c][salt] \subseteq Key
           /\ c \in Credentials /\ salt \in Text
<1>1. KeysOf[c][salt] = DerivedKeys(c, salt)
  BY DEF KeysOf
<1>2. KeysOf[c][salt] \subseteq Key
  BY DEF Key
<1>3. c \in Credentials /\ salt \in Text
  BY RequestsAssumption
<1> QED
  BY <1>1, <1>2, <1>3

\* A file is never longer than the largest padding makes it.
LEMMA FileBytesType ==
    ASSUME NEW r \in Requests, NEW random \in Random, PaddingParams(r), FileBytes(r, random) # None
    PROVE  /\ FileBytes(r, random) \in Nat
           /\ FileBytes(r, random) <= MINIMUM_CIPHERTEXT_SIZE_BYTES + MAX_ADDITIONAL_PADDING
<1> DEFINE length == CiphertextLength[r.type][r.total]
<1>1. /\ r.min \in Nat /\ r.max \in Nat /\ r.min <= r.max /\ r.max <= MAX_ADDITIONAL_PADDING
      /\ length \in Nat /\ length <= MINIMUM_CIPHERTEXT_SIZE_BYTES + MAX_ADDITIONAL_PADDING
      /\ random \in Nat
  BY RequestTypes, RequestsAssumption DEF PaddingParams
<1>2. random % (r.max + 1) \in 0..r.max
  BY <1>1
<1>3. additional(r, random) \in Nat /\ additional(r, random) <= MAX_ADDITIONAL_PADDING
  BY <1>1, <1>2 DEF additional, MAX_ADDITIONAL_PADDING
<1>4. \/ FileBytes(r, random) = length
      \/ FileBytes(r, random) = MINIMUM_CIPHERTEXT_SIZE_BYTES + additional(r, random)
  BY DEF FileBytes, Padded
<1> HIDE DEF length
<1> QED
  BY <1>1, <1>3, <1>4 DEF MINIMUM_CIPHERTEXT_SIZE_BYTES, MAX_ADDITIONAL_PADDING

LEMMA InitInv == Init => IInv
BY DEF Init, IInv, TypeOK

LEMMA SealInv ==
    ASSUME IInv, NEW random \in Random, NEW salt \in Salt, Seal(random, salt)
    PROVE  IInv'
<1> DEFINE bytes == FileBytes(asked, random)
           keys == KeysOf[asked.creds][salt]
<1>1. stage = "asked" /\ asked \in Requests /\ file = None /\ asked' = asked
  BY DEF IInv, TypeOK, Seal
<1>2. CASE PaddingParams(asked) /\ bytes # None /\ keys # {}
  <2>1. PICK key \in keys : file' = Sealed(asked, bytes, salt, key)
    BY <1>2 DEF Seal
  <2>2. stage' = "stored"
    BY <1>2 DEF Seal
  <2>3. /\ bytes \in Nat /\ bytes <= MINIMUM_CIPHERTEXT_SIZE_BYTES + MAX_ADDITIONAL_PADDING
    BY <1>1, <1>2, FileBytesType
  <2>4. key \in Key
    BY <1>1, <2>1, RequestTypes, KeysOfIs
  <2> HIDE DEF bytes
  <2>5. file' \in File
    <3>1. /\ Version(asked) \in 0..2 /\ KindOf(asked) \in Kind
          /\ CiphertextLength[asked.type][asked.total] \in Nat /\ asked.network \in Network
      BY <1>1, RequestTypes
    <3> QED
      BY <2>1, <2>3, <2>4, <3>1 DEF Sealed, File
  <2>6. file' # None
    BY <2>5, NoneAssumption
  <2>7. TypeOK'
    BY <1>1, <2>1, <2>2, <2>3, <2>5, <2>6 DEF TypeOK, Sealed
  <2>8. AsAsked'
    BY <1>1, <2>1 DEF AsAsked, Sealed
  <2> QED
    BY <2>2, <2>7, <2>8 DEF IInv
<1>3. CASE ~(PaddingParams(asked) /\ bytes # None /\ keys # {})
  <2>1. stage' = "failed" /\ file' = file
    BY <1>3 DEF Seal
  <2> QED
    BY <1>1, <2>1 DEF IInv, TypeOK
<1> QED
  BY <1>2, <1>3

\* What becomes of a file that is stored.
LEMMA StoredInv ==
    ASSUME IInv, stage = "stored", asked' = asked, stage' = stage,
           NEW n \in Nat, NEW m \in Nat, NEW damaged \in SUBSET {"header", "wallet"},
           m <= n, m <= file.original,
           file' = [file EXCEPT !.bytes = n, !.original = m, !.damaged = damaged]
    PROVE  IInv'
<1>1. /\ file \in File /\ asked \in Requests /\ file.original \in Nat
      /\ file.original <= MINIMUM_CIPHERTEXT_SIZE_BYTES + MAX_ADDITIONAL_PADDING
  BY NoneAssumption DEF IInv, TypeOK, File
<1>2. file' \in File /\ file'.original = m /\ file'.bytes = n
  BY <1>1 DEF File
<1>3. m <= MINIMUM_CIPHERTEXT_SIZE_BYTES + MAX_ADDITIONAL_PADDING
  BY <1>1 DEF MINIMUM_CIPHERTEXT_SIZE_BYTES, MAX_ADDITIONAL_PADDING
<1>4. TypeOK'
  BY <1>1, <1>2, <1>3, NoneAssumption DEF TypeOK
<1>5. AsAsked'
  BY <1>1 DEF IInv, AsAsked, File
<1> QED
  BY <1>4, <1>5 DEF IInv

LEMMA StoredFile ==
    ASSUME IInv, stage = "stored"
    PROVE  /\ file \in File /\ file.bytes \in Nat /\ file.original \in Nat
           /\ file.original <= file.bytes /\ file.damaged \in SUBSET {"header", "wallet"}
           /\ file.salt \in Salt
BY NoneAssumption DEF IInv, TypeOK, File

LEMMA WriteToDeviceInv == ASSUME IInv, NEW n \in Beyond, WriteToDevice(n) PROVE IInv'
<1> DEFINE bytes == file.bytes + n
           original == file.original
           damaged == file.damaged
<1>1. n \in Nat
  BY RequestsAssumption
<1>2. stage = "stored" /\ file.bytes = file.original /\ asked' = asked /\ stage' = stage
      /\ file' = [file EXCEPT !.bytes = @ + n]
  BY DEF WriteToDevice
<1>3. file' = [file EXCEPT !.bytes = bytes, !.original = original, !.damaged = damaged]
  BY <1>2, StoredFile DEF File
<1>4. /\ bytes \in Nat /\ original \in Nat /\ original <= bytes /\ original <= file.original
      /\ damaged \in SUBSET {"header", "wallet"}
  BY <1>1, <1>2, StoredFile
<1> HIDE DEF bytes, original, damaged
<1> QED
  BY <1>2, <1>3, <1>4, StoredInv

LEMMA TruncateInv == ASSUME IInv, NEW n \in Cut, Truncate(n) PROVE IInv'
<1> DEFINE m == IF n < file.original THEN n ELSE file.original
           damaged == file.damaged \cup (IF n = 0 THEN {"header"} ELSE {})
<1>1. n \in Nat
  BY RequestsAssumption
<1>2. stage = "stored" /\ n < file.bytes /\ asked' = asked /\ stage' = stage
      /\ file' = [file EXCEPT !.bytes = n, !.original = m, !.damaged = damaged]
  BY DEF Truncate
<1>3. m \in Nat /\ m <= n /\ m <= file.original /\ damaged \in SUBSET {"header", "wallet"}
  BY <1>1, <1>2, StoredFile
<1> HIDE DEF m, damaged
<1> QED
  BY <1>1, <1>2, <1>3, StoredInv

LEMMA DamageInv ==
    ASSUME IInv, NEW part \in {"header", "wallet"}, Damage(part) PROVE IInv'
<1> DEFINE bytes == file.bytes
           original == file.original
           damaged == file.damaged \cup {part}
<1>1. stage = "stored" /\ asked' = asked /\ stage' = stage
      /\ file' = [file EXCEPT !.damaged = damaged]
  BY DEF Damage
<1>2. /\ bytes \in Nat /\ original \in Nat /\ original <= bytes /\ original <= file.original
      /\ damaged \in SUBSET {"header", "wallet"}
  BY <1>1, StoredFile
<1>3. file' = [file EXCEPT !.bytes = bytes, !.original = original, !.damaged = damaged]
  BY <1>1, StoredFile DEF File
<1> HIDE DEF bytes, original, damaged
<1> QED
  BY <1>1, <1>2, <1>3, StoredInv

LEMMA StepInv == IInv /\ [Next]_vars => IInv'
<1> SUFFICES ASSUME IInv, [Next]_vars PROVE IInv'
  OBVIOUS
<1>1. ASSUME NEW random \in Random, NEW salt \in Salt, Seal(random, salt) PROVE IInv'
  BY <1>1, SealInv
<1>2. ASSUME NEW n \in Beyond, WriteToDevice(n) PROVE IInv'
  BY <1>2, WriteToDeviceInv
<1>3. ASSUME NEW n \in Cut, Truncate(n) PROVE IInv'
  BY <1>3, TruncateInv
<1>4. ASSUME NEW part \in {"header", "wallet"}, Damage(part) PROVE IInv'
  BY <1>4, DamageInv
<1>5. CASE UNCHANGED vars
  BY <1>5 DEF vars, IInv, TypeOK, AsAsked
<1> QED
  BY <1>1, <1>2, <1>3, <1>4, <1>5 DEF Next

LEMMA AlwaysIInv == Spec => []IInv
BY InitInv, StepInv, PTL DEF Spec

(* Every variable keeps its type, and a stored file is no longer than the     *)
(* longest padding makes it, for any requests, credentials and draws.         *)
THEOREM TypeCorrect == Spec => []TypeOK
<1>1. IInv => TypeOK
  BY DEF IInv
<1> QED
  BY AlwaysIInv, <1>1, PTL

(* The size of a padded file depends on the padding parameters and the draw,   *)
(* and on nothing of the wallet (CiphertextPadder::pad).                      *)
THEOREM SizeTellsNothing == Spec => []SizeHidesWallet
<1>1. ASSUME NEW r \in Requests, NEW random \in Random, Hidden(r), FileBytes(r, random) # None
      PROVE  FileBytes(r, random) = MINIMUM_CIPHERTEXT_SIZE_BYTES + additional(r, random)
  BY <1>1 DEF Hidden, FileBytes, Padded
<1>2. TypeOK => SizeHidesWallet
  <2> SUFFICES ASSUME TypeOK, NEW r \in Requests, NEW random \in Random,
                      Hidden(r), Hidden(asked), r.min = asked.min, r.max = asked.max,
                      None \notin {FileBytes(r, random), FileBytes(asked, random)}
               PROVE  FileBytes(r, random) = FileBytes(asked, random)
    BY DEF SizeHidesWallet
  <2>1. asked \in Requests
    BY DEF TypeOK
  <2>2. additional(r, random) = additional(asked, random)
    BY DEF additional
  <2> QED
    BY <1>1, <2>1, <2>2
<1> QED
  BY TypeCorrect, <1>2, PTL

(* A stored file opens with the credentials it was sealed with, however these  *)
(* are named and found, padded, cut short of its padding or with anything     *)
(* behind it, as the wallet of the kind and network that was asked for, and    *)
(* in every other case not at all (decrypt_header, decrypt_wallet).           *)
THEOREM FilesOpenAsSealed == Spec => []OpensAsSealed
<1>1. IInv => OpensAsSealed
  <2> SUFFICES ASSUME IInv, stage = "stored", NEW creds \in Given, NEW kind \in Kind
               PROVE  decrypt_wallet(file, creds, kind) =
                        IF /\ file.damaged = {}
                           /\ CiphertextLength[asked.type][asked.total] <= file.original
                           /\ SameCredentials(creds, asked.creds) /\ kind = KindOf(asked)
                        THEN [kind |-> kind, network |-> asked.network]
                        ELSE None
    BY DEF OpensAsSealed
  <2> DEFINE opens == HeaderReadable(file, creds) /\ Authentic(file, CiphertextUsed(file))
                         /\ file.kind = kind
             due == /\ file.damaged = {}
                    /\ CiphertextLength[asked.type][asked.total] <= file.original
                    /\ SameCredentials(creds, asked.creds) /\ kind = KindOf(asked)
  <2>1. asked \in Requests /\ AsAsked
    BY DEF IInv, TypeOK
  <2>2. /\ file.salt \in Salt /\ file.bytes \in Nat /\ file.original \in Nat
        /\ file.original <= file.bytes /\ file.damaged \in SUBSET {"header", "wallet"}
    BY StoredFile
  <2>3. file.key \in KeysOf[creds][file.salt] <=> SameCredentials(creds, asked.creds)
    <3>1. asked.creds \in Given
      BY <2>1, RequestTypes
    <3>2. /\ KeysOf[creds][file.salt] = DerivedKeys(creds, file.salt)
          /\ KeysOf[asked.creds][file.salt] = DerivedKeys(asked.creds, file.salt)
          /\ creds \in Credentials /\ asked.creds \in Credentials /\ file.salt \in Text
      BY <2>2, <3>1, KeysOfIs
    <3>3. file.key \in DerivedKeys(asked.creds, file.salt)
      BY <2>1, <3>2 DEF AsAsked
    <3> QED
      BY <3>2, <3>3, KeysTellCredentials
  <2>4. /\ file.length = CiphertextLength[asked.type][asked.total]
        /\ file.length \in Nat \ {0} /\ file.kind = KindOf(asked)
    BY <2>1, RequestTypes DEF AsAsked
  <2>5. opens <=> due
    <3>1. file.damaged = {} <=> "header" \notin file.damaged /\ "wallet" \notin file.damaged
      BY <2>2
    <3>2. file.length <= file.original => file.length <= file.bytes
      BY <2>2, <2>4
    <3>3. file.length > 0
      BY <2>4
    <3>4. HeaderReadable(file, creds) <=> /\ "header" \notin file.damaged
                                          /\ SameCredentials(creds, asked.creds)
                                          /\ file.length <= file.bytes
      BY <2>3, <3>3 DEF HeaderReadable
    <3>5. Authentic(file, CiphertextUsed(file))
             <=> "wallet" \notin file.damaged /\ file.length <= file.original
      BY DEF Authentic, CiphertextUsed
    <3> QED
      BY <2>4, <3>1, <3>2, <3>4, <3>5
  <2> DEFINE network == CASE file.version = STANDARD_ENCRYPTED_WALLET_VERSION -> file.network
                          [] file.version = COMPACT_ENCRYPTED_MAINNET_WALLET_VERSION -> "bitcoin"
                          [] OTHER -> "testnet"
  <2>6. network = asked.network
    <3>1. /\ file.version = Version(asked)
          /\ file.network = IF asked.type = "standard" THEN asked.network ELSE None
          /\ asked.type \in {"standard", "compact"} /\ asked.network \in {"bitcoin", "testnet"}
      BY <2>1, RequestTypes DEF AsAsked, Network
    <3>2. CASE asked.type = "standard"
      <4>1. file.version = 0
        BY <3>1, <3>2 DEF Version, STANDARD_ENCRYPTED_WALLET_VERSION
      <4>2. network = file.network
        BY <4>1 DEF STANDARD_ENCRYPTED_WALLET_VERSION, COMPACT_ENCRYPTED_MAINNET_WALLET_VERSION
      <4> QED
        BY <3>1, <3>2, <4>2
    <3>3. CASE asked.type = "compact" /\ asked.network = "bitcoin"
      <4>1. file.version = 1
        BY <3>1, <3>3 DEF Version, COMPACT_ENCRYPTED_MAINNET_WALLET_VERSION
      <4> QED
        BY <3>3, <4>1 DEF STANDARD_ENCRYPTED_WALLET_VERSION, COMPACT_ENCRYPTED_MAINNET_WALLET_VERSION
    <3>4. CASE asked.type = "compact" /\ asked.network = "testnet"
      <4>1. file.version = 2
        BY <3>1, <3>4 DEF Version, COMPACT_ENCRYPTED_TESTNET_WALLET_VERSION
      <4> QED
        BY <3>4, <4>1 DEF STANDARD_ENCRYPTED_WALLET_VERSION, COMPACT_ENCRYPTED_MAINNET_WALLET_VERSION
    <3> QED
      BY <3>1, <3>2, <3>3, <3>4
  <2>7. decrypt_wallet(file, creds, kind)
           = IF opens THEN [kind |-> kind, network |-> network] ELSE None
    BY DEF decrypt_wallet
  <2> HIDE DEF opens, due, network
  <2>8. decrypt_wallet(file, creds, kind)
           = IF due THEN [kind |-> kind, network |-> asked.network] ELSE None
    BY <2>5, <2>6, <2>7
  <2> QED
    BY <2>8 DEF due
<1> QED
  BY AlwaysIInv, <1>1, PTL
=============================================================================
