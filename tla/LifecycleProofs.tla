--------------------------- MODULE LifecycleProofs ---------------------------
(***************************************************************************)
(* Proofs about the end of CAF's actors, for any number of actors and of   *)
(* operations: nobody is attached to an actor after its cleanup, none      *)
(* stays in the registry, and links are symmetric.  First what the         *)
(* operators on lists keep and how often a list holds an entry, Min and    *)
(* Without by way of the rank of a number in a finite set.                 *)
(***************************************************************************)
EXTENDS Lifecycle, FiniteSetTheorems, SequenceTheorems, TLAPS

(* Every number up to the size of a finite set of numbers is the rank of   *)
(* one of them.                                                            *)
Rank(I, i) == Cardinality({j \in I : j <= i})

LEMMA RankRange ==
    ASSUME NEW I, IsFiniteSet(I), I \subseteq Nat, NEW i \in I
    PROVE  /\ Rank(I, i) \in 1 .. Cardinality(I)
           /\ IsFiniteSet({j \in I : j <= i})
<1> DEFINE Upto == {j \in I : j <= i}
<1>1. Upto \in SUBSET I /\ i \in Upto
  OBVIOUS
<1>2. IsFiniteSet(Upto) /\ Cardinality(Upto) <= Cardinality(I)
  BY <1>1, FS_Subset
<1>3. Cardinality(Upto) # 0
  BY <1>1, <1>2, FS_EmptySet
<1>4. Cardinality(Upto) \in Nat /\ Cardinality(I) \in Nat
  BY <1>2, FS_CardinalityType
<1>. QED
  BY <1>2, <1>3, <1>4 DEF Rank

LEMMA RankGrows ==
    ASSUME NEW I, IsFiniteSet(I), I \subseteq Nat, NEW i \in I, NEW k \in I, i < k
    PROVE  Rank(I, i) < Rank(I, k)
<1> DEFINE A == {j \in I : j <= i}
           B == {j \in I : j <= k}
<1>1. IsFiniteSet(B) /\ Cardinality(A) \in Nat /\ Cardinality(B) \in Nat
  BY RankRange, FS_CardinalityType
<1>2. k <= k /\ ~(k <= i) /\ \A j \in I : j <= i => j <= k
  <2>1. i \in Nat /\ k \in Nat /\ \A j \in I : j \in Nat
    OBVIOUS
  <2>. QED
    BY <2>1
<1>3. A \in SUBSET B /\ k \in B /\ k \notin A
  BY <1>2
<1>. HIDE DEF A, B
<1>4. Cardinality(A) <= Cardinality(B) /\ (Cardinality(B) = Cardinality(A) => B = A)
  BY <1>1, <1>3, FS_Subset
<1>5. Cardinality(A) < Cardinality(B)
  BY <1>1, <1>3, <1>4
<1>. QED
  BY <1>5 DEF Rank, A, B

LEMMA RankUnique ==
    ASSUME NEW I, IsFiniteSet(I), I \subseteq Nat, NEW i \in I, NEW k \in I,
           Rank(I, i) = Rank(I, k)
    PROVE  i = k
<1>1. Rank(I, i) \in 1 .. Cardinality(I)
  BY RankRange
<1>2. ~(i < k) /\ ~(k < i)
  <2>1. Rank(I, i) \in Int /\ ~(Rank(I, i) < Rank(I, i))
    BY <1>1
  <2>2. ASSUME i < k PROVE FALSE
    <3>1. Rank(I, i) < Rank(I, k)
      BY <2>2, RankGrows
    <3>. QED
      BY <2>1, <3>1
  <2>3. ASSUME k < i PROVE FALSE
    <3>1. Rank(I, k) < Rank(I, i)
      BY <2>3, RankGrows
    <3>. QED
      BY <2>1, <3>1
  <2>. QED
    BY <2>2, <2>3
<1>3. i \in Nat /\ k \in Nat
  OBVIOUS
<1>. QED
  BY <1>2, <1>3

LEMMA RankExists ==
    ASSUME NEW I, IsFiniteSet(I), I \subseteq Nat, NEW n \in 1 .. Cardinality(I)
    PROVE  \E i \in I : Rank(I, i) = n
<1> DEFINE N == 1 .. Cardinality(I)
           f == [i \in I |-> Rank(I, i)]
<1>1. f \in [I -> N]
  BY RankRange
<1>2. \A i, k \in I : f[i] = f[k] => i = k
  BY RankUnique
<1>3. f \in Injection(I, N)
  BY <1>1, <1>2 DEF Injection, IsInjective
<1>4. IsFiniteSet(N) /\ Cardinality(N) = Cardinality(I)
  BY FS_CardinalityType, FS_Interval
<1>. HIDE DEF f, N
<1>5. f \in Surjection(I, N)
  BY <1>3, <1>4, FS_Injection
<1>. QED
  BY <1>5 DEF Surjection, f, N

LEMMA MinFacts ==
    ASSUME NEW I, I \subseteq Nat, IsFiniteSet(I), I # {}
    PROVE  Min(I) \in I
<1>1. Cardinality(I) \in Nat /\ Cardinality(I) # 0
  BY FS_CardinalityType, FS_EmptySet
<1>2. PICK i \in I : Rank(I, i) = 1
  <2>1. 1 \in 1 .. Cardinality(I)
    BY <1>1
  <2>. QED
    BY <2>1, RankExists
<1>3. ASSUME NEW k \in I, k < i PROVE FALSE
  <2>1. Rank(I, k) \in 1 .. Cardinality(I) /\ Rank(I, k) < 1
    BY <1>2, <1>3, RankRange, RankGrows
  <2>. QED
    BY <1>1, <2>1
<1>4. \A k \in I : i <= k
  BY <1>3
<1>. QED
  BY <1>4 DEF Min

-----------------------------------------------------------------------------
(* How often an attachable is in a list, when another list t has some of   *)
(* the entries of s: h says which.                                         *)

Count(s, x) == Cardinality({i \in DOMAIN s : s[i] = x})

LEMMA CountFacts ==
    ASSUME NEW S, NEW s \in Seq(S), NEW x
    PROVE  /\ IsFiniteSet({i \in DOMAIN s : s[i] = x}) /\ Count(s, x) \in Nat
           /\ Contains(s, x) <=> Count(s, x) # 0
<1> DEFINE I == {i \in DOMAIN s : s[i] = x}
<1>1. DOMAIN s = 1 .. Len(s) /\ Len(s) \in Nat
  OBVIOUS
<1>2. IsFiniteSet(1 .. Len(s)) /\ I \in SUBSET (1 .. Len(s))
  BY <1>1, FS_Interval
<1>3. IsFiniteSet(I)
  BY <1>2, FS_Subset
<1>4. Contains(s, x) <=> I # {}
  BY <1>1 DEF Contains
<1>. HIDE DEF I
<1>5. Cardinality(I) \in Nat /\ (Cardinality(I) = 0 <=> I = {})
  BY <1>3, FS_CardinalityType, FS_EmptySet
<1>. QED
  BY <1>3, <1>4, <1>5 DEF Count, I

Picks(t, s, h) ==
    /\ h \in [1 .. Len(t) -> 1 .. Len(s)]
    /\ \A i, j \in 1 .. Len(t) : h[i] = h[j] => i = j
    /\ \A i \in 1 .. Len(t) : t[i] = s[h[i]]

LEMMA PicksCount ==
    ASSUME NEW S, NEW s \in Seq(S), NEW t \in Seq(S), NEW h, Picks(t, s, h), NEW y
    PROVE  Count(t, y) =
             Cardinality({i \in DOMAIN s : s[i] = y /\ \E j \in 1 .. Len(t) : h[j] = i})
<1> DEFINE A == {i \in DOMAIN t : t[i] = y}
           B == {i \in DOMAIN s : s[i] = y /\ \E j \in 1 .. Len(t) : h[j] = i}
           f == [i \in A |-> h[i]]
<1>1. DOMAIN t = 1 .. Len(t) /\ DOMAIN s = 1 .. Len(s)
  OBVIOUS
<1>2. \A i \in A : h[i] \in B
  BY <1>1 DEF Picks
<1>3. f \in [A -> B]
  BY <1>2
<1>4. \A i, j \in A : f[i] = f[j] => i = j
  BY <1>1 DEF Picks
<1>5. \A k \in B : \E i \in A : f[i] = k
  BY <1>1 DEF Picks
<1>6. IsFiniteSet(A)
  BY CountFacts
<1>. HIDE DEF A, B, f
<1>7. f \in Injection(A, B)
  BY <1>3, <1>4 DEF Injection, IsInjective
<1>8. f \in Surjection(A, B)
  BY <1>3, <1>5 DEF Surjection
<1>9. Cardinality(B) = Cardinality(A)
  BY <1>6, <1>7, <1>8, FS_Surjection
<1>. QED
  BY <1>9 DEF Count, A, B

(* Nothing but x is left out. *)
LEMMA PicksAllBut ==
    ASSUME NEW S, NEW s \in Seq(S), NEW t \in Seq(S), NEW h, Picks(t, s, h), NEW y,
           \A i \in 1 .. Len(s) : s[i] = y => \E j \in 1 .. Len(t) : h[j] = i
    PROVE  Count(t, y) = Count(s, y)
<1>1. {i \in DOMAIN s : s[i] = y /\ \E j \in 1 .. Len(t) : h[j] = i} = {i \in DOMAIN s : s[i] = y}
  OBVIOUS
<1>2. Count(t, y) = Cardinality({i \in DOMAIN s : s[i] = y /\ \E j \in 1 .. Len(t) : h[j] = i})
  BY PicksCount
<1>. QED
  BY <1>1, <1>2 DEF Count

(* t is s without its k-th entry. *)
Drops(t, s, k) ==
    /\ Len(t) = Len(s) - 1
    /\ \A i \in 1 .. k - 1 : t[i] = s[i]
    /\ \A i \in k .. Len(s) - 1 : t[i] = s[i + 1]

LEMMA DropsCount ==
    ASSUME NEW S, NEW s \in Seq(S), NEW t \in Seq(S), NEW k \in 1 .. Len(s), Drops(t, s, k), NEW y
    PROVE  Count(t, y) = Count(s, y) - (IF s[k] = y THEN 1 ELSE 0)
<1> DEFINE h == [i \in 1 .. Len(t) |-> IF i < k THEN i ELSE i + 1]
           I == {i \in DOMAIN s : s[i] = y}
<1>1. Len(s) \in Nat /\ Len(t) = Len(s) - 1 /\ k \in Nat /\ DOMAIN s = 1 .. Len(s)
  BY DEF Drops
<1>2. Picks(t, s, h)
  <2>1. h \in [1 .. Len(t) -> 1 .. Len(s)]
    BY <1>1
  <2>2. \A i, j \in 1 .. Len(t) : h[i] = h[j] => i = j
    BY <1>1
  <2>3. ASSUME NEW i \in 1 .. Len(t) PROVE t[i] = s[h[i]]
    <3>1. CASE i < k
      BY <1>1, <3>1 DEF Drops
    <3>2. CASE ~(i < k)
      <4>1. i \in k .. Len(s) - 1 /\ h[i] = i + 1
        BY <1>1, <3>2
      <4>. QED
        BY <4>1 DEF Drops
    <3>. QED
      BY <3>1, <3>2
  <2>. QED
    BY <2>1, <2>2, <2>3 DEF Picks
<1>3. ASSUME NEW i \in 1 .. Len(s)
      PROVE  (\E j \in 1 .. Len(t) : h[j] = i) <=> i # k
  <2>1. ASSUME i < k PROVE i \in 1 .. Len(t) /\ h[i] = i
    BY <1>1, <2>1
  <2>2. ASSUME i > k PROVE i - 1 \in 1 .. Len(t) /\ h[i - 1] = i
    BY <1>1, <2>2
  <2>3. ASSUME NEW j \in 1 .. Len(t) PROVE h[j] # k
    BY <1>1
  <2>4. i < k \/ i > k \/ i = k
    BY <1>1
  <2>. QED
    BY <2>1, <2>2, <2>3, <2>4
<1>. HIDE DEF h
<1>4. {i \in DOMAIN s : s[i] = y /\ \E j \in 1 .. Len(t) : h[j] = i} = I \ {k}
  BY <1>1, <1>3
<1>5. Count(t, y) = Cardinality(I \ {k})
  BY <1>2, <1>4, PicksCount
<1>6. IsFiniteSet(I) /\ Cardinality(I) = Count(s, y) /\ Cardinality(I) \in Nat
  BY CountFacts DEF Count
<1>7. k \in I <=> s[k] = y
  BY <1>1
<1>. HIDE DEF I
<1>8. Cardinality(I \ {k}) = IF k \in I THEN Cardinality(I) - 1 ELSE Cardinality(I)
  BY <1>6, FS_RemoveElement
<1>. QED
  BY <1>5, <1>6, <1>7, <1>8

-----------------------------------------------------------------------------
(* The lists of attachables *)

LEMMA WithoutPicks ==
    ASSUME NEW S, NEW s \in Seq(S), NEW x
    PROVE  /\ Without(s, x) \in Seq(S)
           /\ \E h : /\ Picks(Without(s, x), s, h)
                     /\ \A i \in 1 .. Len(s) :
                           s[i] # x <=> \E j \in 1 .. Len(Without(s, x)) : h[j] = i
<1> DEFINE kept == {i \in DOMAIN s : s[i] # x}
           Nth(n) == CHOOSE i \in kept : Rank(kept, i) = n
           h == [n \in 1 .. Cardinality(kept) |-> Nth(n)]
           t == [n \in 1 .. Cardinality(kept) |-> s[Nth(n)]]
<1>1. Without(s, x) = t
  BY DEF Without, Rank
<1>2. kept \subseteq 1 .. Len(s) /\ kept \subseteq Nat /\ IsFiniteSet(kept) /\ Cardinality(kept) \in Nat
  <2>1. DOMAIN s = 1 .. Len(s) /\ Len(s) \in Nat
    OBVIOUS
  <2>2. IsFiniteSet(1 .. Len(s)) /\ kept \in SUBSET (1 .. Len(s))
    BY <2>1, FS_Interval
  <2>3. IsFiniteSet(kept)
    BY <2>2, FS_Subset
  <2>. QED
    BY <2>1, <2>2, <2>3, FS_CardinalityType
<1>3. \A i \in 1 .. Len(s) : i \in kept <=> s[i] # x
  OBVIOUS
<1>4. \A i \in kept : s[i] \in S
  OBVIOUS
<1> HIDE DEF kept
<1>5. ASSUME NEW n \in 1 .. Cardinality(kept) PROVE Nth(n) \in kept /\ Rank(kept, Nth(n)) = n
  BY <1>2, RankExists
<1> DEFINE N == Cardinality(kept)
<1>6. \A n \in 1 .. N : s[Nth(n)] \in S
  BY <1>4, <1>5
<1>7. t \in Seq(S) /\ Len(t) = N
  <2>. HIDE DEF Nth, N
  <2>1. N \in Nat
    BY <1>2 DEF N
  <2>2. t = [n \in 1 .. N |-> s[Nth(n)]]
    BY DEF N
  <2>. HIDE DEF t
  <2>3. t \in Seq(S)
    BY <1>6, <2>1, <2>2
  <2>4. Len(t) = N
    BY <2>1, <2>2
  <2>. QED
    BY <2>3, <2>4
<1>8. h \in [1 .. N -> kept] /\ \A n \in 1 .. N : Rank(kept, h[n]) = n /\ t[n] = s[h[n]]
  BY <1>5
<1>. HIDE DEF h, t, Nth
<1>9. Picks(t, s, h)
  <2>1. h \in [1 .. Len(t) -> 1 .. Len(s)]
    BY <1>2, <1>7, <1>8
  <2>2. \A i, j \in 1 .. N : h[i] = h[j] => i = j
    BY <1>8
  <2>. QED
    BY <1>7, <1>8, <2>1, <2>2 DEF Picks
<1>10. ASSUME NEW k \in kept PROVE \E j \in 1 .. N : h[j] = k
  <2> DEFINE n == Rank(kept, k)
  <2>1. n \in 1 .. N
    BY <1>2, RankRange
  <2>2. h[n] \in kept /\ Rank(kept, h[n]) = Rank(kept, k)
    BY <1>8, <2>1
  <2>3. h[n] = k
    BY <1>2, <2>2, RankUnique
  <2>. QED
    BY <2>1, <2>3
<1>11. \A j \in 1 .. N : h[j] \in kept
  BY <1>8
<1>12. \A i \in 1 .. Len(s) : s[i] # x <=> \E j \in 1 .. N : h[j] = i
  BY <1>3, <1>10, <1>11
<1>. QED
  BY <1>1, <1>7, <1>9, <1>12

LEMMA WithoutFacts ==
    ASSUME NEW S, NEW s \in Seq(S), NEW x
    PROVE  /\ Without(s, x) \in Seq(S)
           /\ s = << >> => Without(s, x) = << >>
           /\ \A y : y # x => Count(Without(s, x), y) = Count(s, y)
           /\ \A y : y # x /\ Contains(s, y) => Contains(Without(s, x), y)
<1> DEFINE t == Without(s, x)
<1>1. t \in Seq(S)
  BY WithoutPicks
<1>2. PICK h : Picks(t, s, h) /\ \A i \in 1 .. Len(s) : s[i] # x <=> \E j \in 1 .. Len(t) : h[j] = i
  BY WithoutPicks
<1>. HIDE DEF t
<1>3. ASSUME NEW y, y # x PROVE Count(t, y) = Count(s, y)
  <2>1. \A i \in 1 .. Len(s) : s[i] = y => \E j \in 1 .. Len(t) : h[j] = i
    BY <1>2, <1>3
  <2>. QED
    BY <1>1, <1>2, <2>1, PicksAllBut
<1>4. ASSUME NEW y, y # x, Contains(s, y) PROVE Contains(t, y)
  BY <1>1, <1>3, <1>4, CountFacts
<1>5. s = << >> => t = << >>
  <2>1. Len(t) \in Nat /\ \A i \in 1 .. Len(t) : h[i] \in 1 .. Len(s)
    BY <1>1, <1>2 DEF Picks
  <2>2. s = << >> => Len(t) = 0
    <3>1. s = << >> => \A i \in 1 .. Len(t) : FALSE
      BY <2>1
    <3>2. Len(t) > 0 => Len(t) \in 1 .. Len(t)
      BY <2>1
    <3>. QED
      BY <2>1, <3>1, <3>2
  <2>. QED
    BY <1>1, <2>2, EmptySeq
<1>. QED
  BY <1>1, <1>3, <1>4, <1>5 DEF t

LEMMA RemoveFirstDrops ==
    ASSUME NEW S, NEW s \in Seq(S), NEW x, Contains(s, x)
    PROVE  /\ RemoveFirst(s, x) \in Seq(S)
           /\ \E k \in 1 .. Len(s) : s[k] = x /\ Drops(RemoveFirst(s, x), s, k)
<1> DEFINE I == {i \in 1 .. Len(s) : s[i] = x}
           k == Min(I)
           p == SubSeq(s, 1, k - 1)
           q == SubSeq(s, k + 1, Len(s))
           t == p \o q
<1>1. I # {} /\ I \subseteq Nat /\ IsFiniteSet(I)
  <2>1. I \in SUBSET (1 .. Len(s)) /\ IsFiniteSet(1 .. Len(s))
    BY FS_Interval
  <2>. QED
    BY <2>1, FS_Subset DEF Contains
<1>2. RemoveFirst(s, x) = t
  <2>1. \E i \in 1 .. Len(s) : s[i] = x
    BY DEF Contains
  <2>. QED
    BY <1>1, <2>1 DEF RemoveFirst, RemoveAt, SelectInSeq
<1>3. k \in I
  BY <1>1, MinFacts
<1>4. k \in 1 .. Len(s) /\ s[k] = x /\ Len(s) \in Nat
  BY <1>3
<1>. HIDE DEF I, k
<1>5. p \in Seq(S) /\ Len(p) = k - 1 /\ \A i \in 1 .. k - 1 : p[i] = s[i]
  BY <1>4
<1>6. q \in Seq(S) /\ Len(q) = Len(s) - k /\ \A i \in 1 .. Len(s) - k : q[i] = s[i + k]
  BY <1>4
<1>. HIDE DEF p, q
<1>7. /\ t \in Seq(S) /\ Len(t) = Len(s) - 1
      /\ \A i \in 1 .. k - 1 : t[i] = s[i]
      /\ \A i \in k .. Len(s) - 1 : t[i] = s[i + 1]
  <2>1. /\ t \in Seq(S) /\ Len(t) = Len(p) + Len(q)
        /\ \A i \in 1 .. Len(p) + Len(q) :
              t[i] = IF i <= Len(p) THEN p[i] ELSE q[i - Len(p)]
    BY <1>5, <1>6, ConcatProperties
  <2>2. ASSUME NEW i \in 1 .. k - 1 PROVE t[i] = s[i]
    <3>1. i \in 1 .. Len(p) + Len(q) /\ i <= Len(p)
      <4>1. i \in Nat /\ 1 <= i /\ i <= k - 1 /\ Len(p) = k - 1 /\ Len(q) = Len(s) - k
        BY <1>4, <1>5, <1>6
      <4>2. k \in Nat /\ k <= Len(s) /\ Len(s) \in Nat
        BY <1>4
      <4>. QED
        BY ONLY <4>1, <4>2
    <3>. QED
      BY <1>5, <2>1, <3>1
  <2>3. ASSUME NEW i \in k .. Len(s) - 1 PROVE t[i] = s[i + 1]
    <3>1. /\ i - (k - 1) \in 1 .. Len(s) - k /\ i - (k - 1) + k = i + 1
          /\ i \in 1 .. Len(p) + Len(q) /\ ~(i <= Len(p)) /\ i - Len(p) = i - (k - 1)
      BY <1>4, <1>5, <1>6
    <3>2. t[i] = q[i - (k - 1)]
      BY <2>1, <3>1
    <3>3. q[i - (k - 1)] = s[i - (k - 1) + k]
      BY <1>6, <3>1
    <3>. QED
      BY <3>1, <3>2, <3>3
  <2>4. Len(t) = Len(s) - 1
    BY <1>4, <1>5, <1>6, <2>1
  <2>. QED
    BY <2>1, <2>2, <2>3, <2>4
<1>. HIDE DEF t
<1>8. Drops(t, s, k)
  BY <1>7 DEF Drops
<1>. QED
  BY <1>2, <1>4, <1>7, <1>8

LEMMA RemoveFirstFacts ==
    ASSUME NEW S, NEW s \in Seq(S), NEW x
    PROVE  /\ RemoveFirst(s, x) \in Seq(S)
           /\ s = << >> => RemoveFirst(s, x) = << >>
           /\ \A y : y # x => Count(RemoveFirst(s, x), y) = Count(s, y)
           /\ Count(s, x) # 0 => Count(RemoveFirst(s, x), x) = Count(s, x) - 1
           /\ \A y : y # x /\ Contains(s, y) => Contains(RemoveFirst(s, x), y)
<1>1. CASE ~Contains(s, x)
  <2>1. RemoveFirst(s, x) = s
    BY <1>1 DEF RemoveFirst, Contains
  <2>2. Count(s, x) = 0
    BY <1>1, CountFacts
  <2>. QED
    BY <2>1, <2>2
<1>2. CASE Contains(s, x)
  <2> DEFINE t == RemoveFirst(s, x)
  <2>1. t \in Seq(S)
    BY <1>2, RemoveFirstDrops
  <2>2. PICK k \in 1 .. Len(s) : s[k] = x /\ Drops(t, s, k)
    BY <1>2, RemoveFirstDrops
  <2>. HIDE DEF t
  <2>3. \A y : Count(t, y) = Count(s, y) - (IF s[k] = y THEN 1 ELSE 0)
    BY <2>1, <2>2, DropsCount
  <2>4. \A y : Count(s, y) \in Nat
    BY CountFacts
  <2>5. \A y : y # x => Count(t, y) = Count(s, y)
    BY <2>2, <2>3, <2>4
  <2>6. Count(t, x) = Count(s, x) - 1
    BY <2>2, <2>3, <2>4
  <2>7. \A y : y # x /\ Contains(s, y) => Contains(t, y)
    BY <2>1, <2>5, CountFacts
  <2>8. s # << >>
    BY <2>2
  <2>. QED
    BY <2>1, <2>5, <2>6, <2>7, <2>8 DEF t
<1>. QED
  BY <1>1, <1>2

LEMMA PrependFacts ==
    ASSUME NEW S, NEW s \in Seq(S), NEW x \in S
    PROVE  /\ <<x>> \o s \in Seq(S)
           /\ Contains(<<x>> \o s, x)
           /\ \A y : Count(<<x>> \o s, y) = Count(s, y) + (IF x = y THEN 1 ELSE 0)
           /\ \A y : Contains(s, y) => Contains(<<x>> \o s, y)
<1> DEFINE t == <<x>> \o s
<1>1. t \in Seq(S) /\ Len(t) = Len(s) + 1 /\ t[1] = x /\ \A i \in 1 .. Len(s) : t[i + 1] = s[i]
  OBVIOUS
<1>. HIDE DEF t
<1>2. Len(s) \in Nat /\ 1 \in 1 .. Len(t)
  BY <1>1
<1>3. Drops(s, t, 1)
  BY <1>1, <1>2 DEF Drops
<1>4. \A y : Count(s, y) = Count(t, y) - (IF t[1] = y THEN 1 ELSE 0)
  BY <1>1, <1>2, <1>3, DropsCount
<1>5. \A y : Count(s, y) \in Nat /\ Count(t, y) \in Nat
  BY <1>1, CountFacts
<1>6. \A y : Count(t, y) = Count(s, y) + (IF x = y THEN 1 ELSE 0)
  BY <1>1, <1>4, <1>5
<1>7. Count(t, x) # 0 /\ \A y : Count(s, y) # 0 => Count(t, y) # 0
  BY <1>5, <1>6
<1>8. Contains(t, x) /\ \A y : Contains(s, y) => Contains(t, y)
  BY <1>1, <1>7, CountFacts
<1>. QED
  BY <1>1, <1>6, <1>8 DEF t

LEMMA TailFacts ==
    ASSUME NEW S, NEW s \in Seq(S), s # << >>
    PROVE  /\ Head(s) \in S /\ Tail(s) \in Seq(S)
           /\ \A y : y # Head(s) /\ Contains(s, y) => Contains(Tail(s), y)
<1>1. /\ Head(s) \in S /\ Tail(s) \in Seq(S) /\ Head(s) = s[1] /\ Len(Tail(s)) = Len(s) - 1
      /\ Len(s) \in Nat /\ \A i \in 1 .. Len(s) - 1 : Tail(s)[i] = s[i + 1]
  OBVIOUS
<1>2. ASSUME NEW y, y # Head(s), Contains(s, y) PROVE Contains(Tail(s), y)
  <2>1. PICK i \in 1 .. Len(s) : s[i] = y
    BY <1>2 DEF Contains
  <2>2. i # 1
    BY <1>1, <1>2, <2>1
  <2>3. i - 1 \in 1 .. Len(Tail(s)) /\ Tail(s)[i - 1] = y
    BY <1>1, <2>1, <2>2
  <2>. QED
    BY <2>3 DEF Contains
<1>. QED
  BY <1>1, <1>2

-----------------------------------------------------------------------------
(* The inductive invariant *)

Ending == {"close", "deregister", "notify", "cleanup", "walk", "dead"}
Ended == {"notify", "cleanup", "walk", "dead"}

Observer(a) ==
    {LinkTo(b) : b \in Actor \ {a}} \cup {MonitorOf(b) : b \in Actor \ {a}} \cup {EraseId}
Mail(a) == {<<"exit", b>> : b \in Actor \ {a}} \cup {<<"down", b>> : b \in Actor \ {a}}

Domains ==
    /\ DOMAIN att = Actor /\ DOMAIN head = Actor /\ DOMAIN inbox = Actor
    /\ DOMAIN terminated = Actor /\ DOMAIN cleaned_up = Actor /\ DOMAIN closed = Actor
    /\ DOMAIN verdict = Actor
    /\ DOMAIN pc = Actor \cup {Program} /\ DOMAIN other = Actor \cup {Program}

Lists == \A a \in Actor :
    /\ att[a] \in Seq(Observer(a)) /\ head[a] \in Seq(Observer(a)) /\ inbox[a] \in Seq(Mail(a))
    /\ pc[a] \in {"backlink", "attach"} => other[a] \in Actor \ {a}

(* The flags and the lists say the same of an actor's end as its position. *)
Flags == \A a \in Actor :
    /\ terminated[a] <=> pc[a] \in Ending
    /\ cleaned_up[a] <=> pc[a] \in {"walk", "dead"}
    /\ cleaned_up[a] => att[a] = << >>
    /\ ~cleaned_up[a] => head[a] = << >>
    /\ closed[a] => inbox[a] = << >>
    /\ pc[a] = "exit" => verdict[a] # "none"

Counted == running = Cardinality({a \in Actor : pc[a] \notin Ended})

Pending(a) == pc[Program] = "functor" /\ other[Program] = a

(* Whoever is registered will be erased, by a functor or by put itself.    *)
Registered ==
    /\ entries \subseteq Actor
    /\ \A a \in entries : Contains(att[a], EraseId) \/ Contains(head[a], EraseId) \/ Pending(a)

IInv == Domains /\ Lists /\ Flags /\ Counted /\ Registered

LEMMA Implied == IInv => TypeOK /\ NoLateObserver /\ DeadAreUnregistered
<1>. SUFFICES ASSUME IInv PROVE TypeOK /\ NoLateObserver /\ DeadAreUnregistered
  OBVIOUS
<1>1. NoLateObserver
  BY DEF IInv, Flags, NoLateObserver
<1>2. DeadAreUnregistered
  <2>1. ~Contains(<< >>, EraseId)
    BY DEF Contains
  <2>. QED
    BY <2>1 DEF IInv, Flags, Registered, Pending, DeadAreUnregistered
<1>3. ASSUME NEW a \in Actor
      PROVE  ToSet(att[a]) \cup ToSet(head[a]) \subseteq Observer(a)
  <2>1. att[a] \in Seq(Observer(a)) /\ head[a] \in Seq(Observer(a))
    BY DEF IInv, Lists
  <2>. QED
    BY <2>1 DEF ToSet
<1>4. TypeOK
  BY <1>3 DEF IInv, Flags, Counted, Registered, TypeOK, Observer, Ending, Ended
<1>. QED
  BY <1>1, <1>2, <1>4

LEMMA InitIInv == Init => IInv
<1>. SUFFICES ASSUME Init PROVE IInv
  OBVIOUS
<1>. USE LifecycleAssumption DEF Init
<1>1. Domains
  BY DEF Domains
<1>2. Lists
  BY DEF Lists
<1>3. Flags
  BY DEF Flags, Ending
<1>4. Counted
  <2>1. {a \in Actor : pc[a] \notin Ended} = Actor
    BY DEF Ended
  <2>. QED
    BY <2>1 DEF Counted
<1>5. Registered
  BY DEF Registered
<1>. QED
  BY <1>1, <1>2, <1>3, <1>4, <1>5 DEF IInv

(* Steps that leave the count and who is counted alone. *)
LEMMA CountKept ==
    ASSUME Counted, running' = running,
           \A a \in Actor : pc'[a] \in Ended <=> pc[a] \in Ended
    PROVE  Counted'
<1>1. {a \in Actor : pc'[a] \notin Ended} = {a \in Actor : pc[a] \notin Ended}
  OBVIOUS
<1>. QED
  BY <1>1 DEF Counted

LEMMA ToldFacts ==
    ASSUME Domains, Lists, Flags, NEW a \in Actor, NEW x \in Mail(a), inbox' = Told(inbox, a, x)
    PROVE  /\ DOMAIN inbox' = Actor
           /\ \A b \in Actor : inbox'[b] \in Seq(Mail(b)) /\ (closed[b] => inbox'[b] = << >>)
BY DEF Domains, Lists, Flags, Told

-----------------------------------------------------------------------------
(* Links and monitors: they change lists of attachables and positions      *)
(* before the end.                                                         *)

LEMMA LinkStep ==
    ASSUME IInv, NEW a \in Actor, NEW b \in Actor \ {a}, Link(a, b)
    PROVE  IInv'
<1>. USE LifecycleAssumption DEF Link, Start, Goto, actors, mailbox, registry
<1>1. Domains' /\ Lists'
  BY DEF IInv, Domains, Lists
<1>2. Flags'
  BY DEF IInv, Domains, Flags, Ending
<1>3. Counted'
  BY CountKept DEF IInv, Domains, Ended
<1>4. Registered'
  BY DEF IInv, Domains, Registered, Pending
<1>. QED
  BY <1>1, <1>2, <1>3, <1>4 DEF IInv

LEMMA BacklinkStep ==
    ASSUME IInv, NEW a \in Actor, Backlink(a)
    PROVE  IInv'
<1> DEFINE b == other[a]
<1>. USE LifecycleAssumption DEF Backlink, Goto, mailbox, registry
<1>1. b \in Actor /\ b # a /\ pc[a] = "backlink"
  BY DEF IInv, Lists
<1>2. <<"exit", b>> \in Mail(a) /\ LinkTo(a) \in Observer(b)
  BY <1>1 DEF Mail, Observer
<1>3. /\ \A c \in Actor : att'[c] \in Seq(Observer(c))
      /\ \A c \in Actor : Contains(att[c], EraseId) => Contains(att'[c], EraseId)
      /\ \A c \in Actor : terminated[c] => att'[c] = att[c]
      /\ DOMAIN att' = Actor
  <2>1. CASE UNCHANGED att
    BY <2>1 DEF IInv, Domains, Lists
  <2>2. CASE ~Refuses(b) /\ att' = [att EXCEPT ![b] = <<LinkTo(a)>> \o @]
    BY <1>1, <1>2, <2>2, PrependFacts DEF IInv, Domains, Lists, Refuses
  <2>. QED
    BY <2>1, <2>2
<1>4. /\ DOMAIN inbox' = Actor
      /\ \A c \in Actor : inbox'[c] \in Seq(Mail(c)) /\ (closed[c] => inbox'[c] = << >>)
  <2>1. CASE UNCHANGED inbox
    BY <2>1 DEF IInv, Domains, Lists, Flags
  <2>2. CASE inbox' = Told(inbox, a, <<"exit", b>>)
    BY <1>2, <2>2, ToldFacts DEF IInv
  <2>. QED
    BY <2>1, <2>2
<1>5. /\ DOMAIN pc' = Actor \cup {Program} /\ pc'[a] \in {"idle", "attach"}
      /\ \A t \in Actor \cup {Program} : t # a => pc'[t] = pc[t]
  BY DEF IInv, Domains
<1>6. Domains' /\ Lists'
  BY <1>1, <1>3, <1>4, <1>5 DEF IInv, Domains, Lists
<1>7. Flags'
  BY <1>1, <1>3, <1>4, <1>5 DEF IInv, Flags, Ending
<1>8. Counted'
  BY <1>1, <1>5, CountKept DEF IInv, Ended
<1>9. Registered'
  BY <1>3, <1>5 DEF IInv, Registered, Pending
<1>. QED
  BY <1>6, <1>7, <1>8, <1>9 DEF IInv

LEMMA AttachLinkStep ==
    ASSUME IInv, NEW a \in Actor, AttachLink(a)
    PROVE  IInv'
<1>. USE LifecycleAssumption DEF AttachLink, Goto, mailbox, registry
<1>1. pc[a] = "attach" /\ other[a] \in Actor \ {a} /\ ~terminated[a]
  BY DEF IInv, Lists, Flags, Ending
<1>2. LinkTo(other[a]) \in Observer(a)
  BY <1>1 DEF Observer
<1>3. /\ att'[a] \in Seq(Observer(a))
      /\ Contains(att[a], EraseId) => Contains(att'[a], EraseId)
  BY <1>2, PrependFacts DEF IInv, Domains, Lists
<1>4. Domains' /\ Lists'
  BY <1>3 DEF IInv, Domains, Lists
<1>5. Flags'
  BY <1>1 DEF IInv, Domains, Flags, Ending
<1>6. Counted'
  BY <1>1, CountKept DEF IInv, Domains, Ended
<1>7. Registered'
  BY <1>3 DEF IInv, Domains, Registered, Pending
<1>. QED
  BY <1>4, <1>5, <1>6, <1>7 DEF IInv

LEMMA RemoveLinkFacts ==
    ASSUME Domains, Lists, NEW a \in Actor, NEW b, NEW after, RemoveLink(a, b, after)
    PROVE  /\ DOMAIN att' = Actor /\ DOMAIN other' = Actor \cup {Program}
           /\ DOMAIN pc' = Actor \cup {Program} /\ pc'[a] \in {"unlink", after}
           /\ \A t \in Actor \cup {Program} : t # a => pc'[t] = pc[t] /\ other'[t] = other[t]
           /\ att'[a] \in Seq(Observer(a))
           /\ Contains(att[a], EraseId) => Contains(att'[a], EraseId)
           /\ \A c \in Actor : c # a => att'[c] = att[c]
<1>1. LinkTo(b) # EraseId
  BY DEF LinkTo, EraseId
<1>2. att[a] \in Seq(Observer(a))
  BY DEF Lists
<1>3. CASE UNCHANGED att
  BY <1>2, <1>3 DEF Domains, RemoveLink, Goto
<1>4. CASE att' = [att EXCEPT ![a] = RemoveFirst(@, LinkTo(b))]
  BY <1>1, <1>2, <1>4, RemoveFirstFacts DEF Domains, RemoveLink, Goto
<1>. QED
  BY <1>3, <1>4 DEF RemoveLink

LEMMA UnlinkStep ==
    ASSUME IInv, NEW a \in Actor, NEW b \in Actor \ {a}, Unlink(a, b)
    PROVE  IInv'
<1>. USE LifecycleAssumption DEF Unlink, Start, mailbox, registry
<1>1. pc[a] = "idle" /\ RemoveLink(a, b, "idle") /\ ~cleaned_up[a]
  BY DEF IInv, Flags
<1>2. Domains' /\ Lists'
  BY <1>1, RemoveLinkFacts DEF IInv, Domains, Lists
<1>3. Flags'
  BY <1>1, RemoveLinkFacts DEF IInv, Flags, Ending
<1>4. Counted'
  BY <1>1, RemoveLinkFacts, CountKept DEF IInv, Ended
<1>5. Registered'
  BY <1>1, RemoveLinkFacts DEF IInv, Registered, Pending
<1>. QED
  BY <1>2, <1>3, <1>4, <1>5 DEF IInv

LEMMA RemoveBacklinkStep ==
    ASSUME IInv, NEW a \in Actor, RemoveBacklink(a)
    PROVE  IInv'
<1> DEFINE b == other[a]
<1>. USE LifecycleAssumption DEF RemoveBacklink, Goto, mailbox, registry
<1>1. pc[a] = "unlink" /\ LinkTo(a) # EraseId
  BY DEF LinkTo, EraseId
<1>2. /\ DOMAIN att' = Actor
      /\ \A c \in Actor : /\ att'[c] \in Seq(Observer(c))
                          /\ Contains(att[c], EraseId) => Contains(att'[c], EraseId)
                          /\ att[c] = << >> => att'[c] = << >>
  <2>1. ASSUME NEW c \in Actor
        PROVE  /\ att'[c] \in Seq(Observer(c))
               /\ Contains(att[c], EraseId) => Contains(att'[c], EraseId)
               /\ att[c] = << >> => att'[c] = << >>
    <3>1. att[c] \in Seq(Observer(c))
      BY DEF IInv, Lists
    <3>2. att'[c] = att[c] \/ att'[c] = RemoveFirst(att[c], LinkTo(a))
      BY DEF IInv, Domains
    <3>. QED
      BY <1>1, <3>1, <3>2, RemoveFirstFacts
  <2>. QED
    BY <2>1 DEF IInv, Domains
<1>3. /\ DOMAIN pc' = Actor \cup {Program}
      /\ \A t \in Actor \cup {Program} : t # a => pc'[t] = pc[t]
      /\ pc'[a] = IF verdict[a] = "none" THEN "idle" ELSE "exit"
  BY DEF IInv, Domains
<1>4. Domains' /\ Lists'
  BY <1>2, <1>3 DEF IInv, Domains, Lists
<1>5. Flags'
  BY <1>1, <1>2, <1>3 DEF IInv, Flags, Ending
<1>6. Counted'
  BY <1>1, <1>3, CountKept DEF IInv, Ended
<1>7. Registered'
  BY <1>2, <1>3 DEF IInv, Registered, Pending
<1>. QED
  BY <1>4, <1>5, <1>6, <1>7 DEF IInv

LEMMA ReadMessageStep ==
    ASSUME IInv, NEW a \in Actor, ReadMessage(a)
    PROVE  IInv'
<1>. USE LifecycleAssumption DEF ReadMessage, registry
<1>1. pc[a] = "idle" /\ inbox[a] # << >> /\ ~cleaned_up[a]
  BY DEF IInv, Flags
<1>2. Head(inbox[a]) \in Mail(a) /\ Tail(inbox[a]) \in Seq(Mail(a))
  BY <1>1, TailFacts DEF IInv, Lists
<1>3. /\ DOMAIN inbox' = Actor /\ inbox'[a] \in Seq(Mail(a))
      /\ \A c \in Actor : c # a => inbox'[c] = inbox[c]
  BY <1>2 DEF IInv, Domains
<1>4. closed[a] => inbox'[a] = << >>
  BY <1>1 DEF IInv, Flags
<1>5. CASE /\ RemoveLink(a, Head(inbox[a])[2], "exit")
           /\ \E v \in {"stay", "leave"} : verdict' = [verdict EXCEPT ![a] = v]
  <2>1. /\ DOMAIN verdict' = Actor /\ verdict'[a] # "none"
        /\ \A c \in Actor : c # a => verdict'[c] = verdict[c]
    BY <1>5 DEF IInv, Domains
  <2>2. Domains' /\ Lists'
    <3>1. /\ DOMAIN att' = Actor /\ DOMAIN other' = Actor \cup {Program}
          /\ DOMAIN pc' = Actor \cup {Program} /\ pc'[a] \in {"unlink", "exit"}
          /\ \A t \in Actor \cup {Program} : t # a => pc'[t] = pc[t] /\ other'[t] = other[t]
          /\ att'[a] \in Seq(Observer(a)) /\ \A c \in Actor : c # a => att'[c] = att[c]
      BY <1>5, RemoveLinkFacts DEF IInv
    <3>2. Domains'
      BY <1>3, <2>1, <3>1 DEF IInv, Domains
    <3>3. Lists'
      BY <1>3, <3>1 DEF IInv, Lists
    <3>. QED
      BY <3>2, <3>3
  <2>3. Flags'
    BY <1>1, <1>3, <1>4, <1>5, <2>1, RemoveLinkFacts DEF IInv, Flags, Ending
  <2>4. Counted'
    BY <1>1, <1>5, RemoveLinkFacts, CountKept DEF IInv, Ended
  <2>5. Registered'
    BY <1>1, <1>5, RemoveLinkFacts DEF IInv, Registered, Pending
  <2>. QED
    BY <2>2, <2>3, <2>4, <2>5 DEF IInv
<1>6. CASE UNCHANGED <<att, other, verdict, pc>>
  <2>1. Domains' /\ Lists'
    BY <1>3, <1>6 DEF IInv, Domains, Lists
  <2>2. Flags'
    BY <1>3, <1>4, <1>6 DEF IInv, Flags
  <2>3. Counted'
    BY <1>6 DEF IInv, Counted
  <2>4. Registered'
    BY <1>6 DEF IInv, Registered, Pending
  <2>. QED
    BY <2>1, <2>2, <2>3, <2>4 DEF IInv
<1>. QED
  BY <1>5, <1>6

LEMMA MonitorStep ==
    ASSUME IInv, NEW a \in Actor, NEW b \in Actor \ {a}, Monitor(a, b)
    PROVE  IInv'
<1>. USE LifecycleAssumption DEF Monitor, Start, registry
<1>1. <<"down", b>> \in Mail(a) /\ MonitorOf(a) \in Observer(b)
  BY DEF Mail, Observer
<1>2. /\ DOMAIN att' = Actor
      /\ \A c \in Actor : /\ att'[c] \in Seq(Observer(c))
                          /\ Contains(att[c], EraseId) => Contains(att'[c], EraseId)
                          /\ terminated[c] => att'[c] = att[c]
  <2>1. CASE UNCHANGED att
    BY <2>1 DEF IInv, Domains, Lists
  <2>2. CASE ~Refuses(b) /\ att' = [att EXCEPT ![b] = <<MonitorOf(a)>> \o @]
    BY <1>1, <2>2, PrependFacts DEF IInv, Domains, Lists, Refuses
  <2>. QED
    BY <2>1, <2>2
<1>3. /\ DOMAIN inbox' = Actor
      /\ \A c \in Actor : inbox'[c] \in Seq(Mail(c)) /\ (closed[c] => inbox'[c] = << >>)
  <2>1. CASE UNCHANGED inbox
    BY <2>1 DEF IInv, Domains, Lists, Flags
  <2>2. CASE inbox' = Told(inbox, a, <<"down", b>>)
    BY <1>1, <2>2, ToldFacts DEF IInv
  <2>. QED
    BY <2>1, <2>2
<1>4. Domains' /\ Lists'
  BY <1>2, <1>3 DEF IInv, Domains, Lists
<1>5. Flags'
  BY <1>2, <1>3 DEF IInv, Flags, Ending
<1>6. Counted'
  BY DEF IInv, Counted
<1>7. Registered'
  BY <1>2 DEF IInv, Registered, Pending
<1>. QED
  BY <1>4, <1>5, <1>6, <1>7 DEF IInv

LEMMA DemonitorStep ==
    ASSUME IInv, NEW a \in Actor, NEW b \in Actor \ {a}, Demonitor(a, b)
    PROVE  IInv'
<1>. USE LifecycleAssumption DEF Demonitor, Start, mailbox, registry
<1>1. MonitorOf(a) # EraseId
  BY DEF MonitorOf, EraseId
<1>2. att[b] \in Seq(Observer(b))
  BY DEF IInv, Lists
<1>3. /\ DOMAIN att' = Actor /\ att'[b] = Without(att[b], MonitorOf(a))
      /\ \A c \in Actor : c # b => att'[c] = att[c]
  BY DEF IInv, Domains
<1>4. /\ att'[b] \in Seq(Observer(b)) /\ (att[b] = << >> => att'[b] = << >>)
      /\ Contains(att[b], EraseId) => Contains(att'[b], EraseId)
  BY <1>1, <1>2, <1>3, WithoutFacts
<1>5. Domains' /\ Lists'
  BY <1>3, <1>4 DEF IInv, Domains, Lists
<1>6. Flags'
  BY <1>3, <1>4 DEF IInv, Flags
<1>7. Counted'
  BY DEF IInv, Counted
<1>8. Registered'
  BY <1>3, <1>4 DEF IInv, Registered, Pending
<1>. QED
  BY <1>5, <1>6, <1>7, <1>8 DEF IInv

-----------------------------------------------------------------------------
(* The end of an actor *)

LEMMA ExitHandlerStep ==
    ASSUME IInv, NEW a \in Actor, ExitHandler(a)
    PROVE  IInv'
<1>. USE LifecycleAssumption DEF ExitHandler, Goto, mailbox, registry
<1>1. Domains' /\ Lists'
  BY DEF IInv, Domains, Lists
<1>2. Flags'
  BY DEF IInv, Domains, Flags, Ending
<1>3. Counted'
  BY CountKept DEF IInv, Domains, Ended
<1>4. Registered'
  BY DEF IInv, Domains, Registered, Pending
<1>. QED
  BY <1>1, <1>2, <1>3, <1>4 DEF IInv

LEMMA QuitStep ==
    ASSUME IInv, NEW a \in Actor, Quit(a)
    PROVE  IInv'
<1>. USE LifecycleAssumption DEF Quit, Goto, mailbox, registry
<1>1. Domains' /\ Lists'
  BY DEF IInv, Domains, Lists
<1>2. Flags'
  BY DEF IInv, Domains, Flags, Ending
<1>3. Counted'
  BY CountKept DEF IInv, Domains, Ended
<1>4. Registered'
  BY DEF IInv, Domains, Registered, Pending
<1>. QED
  BY <1>1, <1>2, <1>3, <1>4 DEF IInv

LEMMA CloseStep ==
    ASSUME IInv, NEW a \in Actor, Close(a)
    PROVE  IInv'
<1>. USE LifecycleAssumption DEF Close, Goto, actors, registry
<1>1. Domains' /\ Lists'
  BY DEF IInv, Domains, Lists
<1>2. Flags'
  BY DEF IInv, Domains, Flags, Ending
<1>3. Counted'
  BY CountKept DEF IInv, Domains, Ended
<1>4. Registered'
  BY DEF IInv, Domains, Registered, Pending
<1>. QED
  BY <1>1, <1>2, <1>3, <1>4 DEF IInv

LEMMA DeregisterStep ==
    ASSUME IInv, NEW a \in Actor, Deregister(a)
    PROVE  IInv'
<1>. USE LifecycleAssumption DEF Deregister, Goto, actors, mailbox
<1>1. /\ DOMAIN pc' = Actor \cup {Program} /\ pc'[a] \in {"notify", "cleanup"}
      /\ \A t \in Actor \cup {Program} : t # a => pc'[t] = pc[t]
  BY DEF IInv, Domains
<1>2. Domains' /\ Lists'
  BY <1>1 DEF IInv, Domains, Lists
<1>3. Flags'
  BY <1>1 DEF IInv, Flags, Ending
<1>4. Counted'
  <2> DEFINE S == {c \in Actor : pc[c] \notin Ended}
             T == {c \in Actor : pc'[c] \notin Ended}
  <2>1. S \in SUBSET Actor /\ a \in S
    BY DEF Ended
  <2>2. T = S \ {a}
    BY <1>1 DEF Ended
  <2>3. IsFiniteSet(S)
    BY <2>1, FS_Subset
  <2>. HIDE DEF S
  <2>4. Cardinality(S \ {a}) = Cardinality(S) - 1
    BY <2>1, <2>3, FS_RemoveElement
  <2>5. running' = Cardinality(T)
    BY <2>2, <2>4 DEF IInv, Counted, S
  <2>. QED
    BY <2>5 DEF Counted
<1>5. Registered'
  BY <1>1 DEF IInv, Registered, Pending
<1>. QED
  BY <1>2, <1>3, <1>4, <1>5 DEF IInv

LEMMA NotifyStep ==
    ASSUME IInv, NEW a \in Actor, Notify(a)
    PROVE  IInv'
<1>. USE LifecycleAssumption DEF Notify, Woken, actors, mailbox, registry
<1>1. /\ DOMAIN pc' = Actor \cup {Program} /\ pc'[a] = "cleanup"
      /\ \A c \in Actor : c # a => pc'[c] = pc[c]
      /\ pc'[Program] = "functor" <=> pc[Program] = "functor"
  BY DEF IInv, Domains
<1>2. Domains' /\ Lists'
  BY <1>1 DEF IInv, Domains, Lists
<1>3. Flags'
  BY <1>1 DEF IInv, Flags, Ending
<1>4. Counted'
  BY <1>1, CountKept DEF IInv, Ended
<1>5. Registered'
  BY <1>1 DEF IInv, Registered, Pending
<1>. QED
  BY <1>2, <1>3, <1>4, <1>5 DEF IInv

LEMMA CleanupStep ==
    ASSUME IInv, NEW a \in Actor, Cleanup(a)
    PROVE  IInv'
<1>. USE LifecycleAssumption DEF Cleanup, Goto, mailbox, registry
<1>1. ~cleaned_up[a] /\ head[a] = << >> /\ ~Contains(<< >>, EraseId)
  BY DEF IInv, Flags, Contains
<1>2. << >> \in Seq(Observer(a))
  OBVIOUS
<1>3. Domains' /\ Lists'
  BY <1>2 DEF IInv, Domains, Lists
<1>4. Flags'
  BY DEF IInv, Domains, Flags, Ending
<1>5. Counted'
  BY CountKept DEF IInv, Domains, Ended
<1>6. Registered'
  BY <1>1 DEF IInv, Domains, Registered, Pending
<1>. QED
  BY <1>3, <1>4, <1>5, <1>6 DEF IInv

LEMMA WalkStep ==
    ASSUME IInv, NEW a \in Actor, Walk(a)
    PROVE  IInv'
<1>. USE LifecycleAssumption DEF Walk, Goto
<1>1. pc[a] = "walk" /\ cleaned_up[a] /\ head[a] \in Seq(Observer(a))
  BY DEF IInv, Flags, Lists
<1>2. CASE head[a] = << >>
  <2>. USE <1>2
  <2>1. Domains' /\ Lists'
    BY DEF IInv, Domains, Lists
  <2>2. Flags'
    BY <1>1 DEF IInv, Domains, Flags, Ending
  <2>3. Counted'
    BY CountKept DEF IInv, Domains, Ended
  <2>4. Registered'
    BY DEF IInv, Domains, Registered, Pending
  <2>. QED
    BY <2>1, <2>2, <2>3, <2>4 DEF IInv
<1>3. CASE head[a] # << >>
  <2> DEFINE x == Head(head[a])
  <2>1. /\ x \in Observer(a) /\ Tail(head[a]) \in Seq(Observer(a))
        /\ x # EraseId /\ Contains(head[a], EraseId) => Contains(Tail(head[a]), EraseId)
    BY <1>1, <1>3, TailFacts
  <2>2. /\ DOMAIN head' = Actor /\ head'[a] = Tail(head[a])
        /\ \A c \in Actor : c # a => head'[c] = head[c]
    BY <1>3 DEF IInv, Domains
  <2>3. /\ DOMAIN inbox' = Actor
        /\ \A c \in Actor : inbox'[c] \in Seq(Mail(c)) /\ (closed[c] => inbox'[c] = << >>)
    <3>1. ASSUME NEW b \in Actor \ {a}, x = LinkTo(b)
          PROVE  inbox' = Told(inbox, b, <<"exit", a>>) /\ <<"exit", a>> \in Mail(b)
      BY <1>3, <3>1 DEF Exited, LinkTo, Mail
    <3>2. ASSUME NEW b \in Actor \ {a}, x = MonitorOf(b)
          PROVE  inbox' = Told(inbox, b, <<"down", a>>) /\ <<"down", a>> \in Mail(b)
      BY <1>3, <3>2 DEF Exited, MonitorOf, Mail
    <3>3. CASE x = EraseId
      <4>1. inbox' = inbox
        BY <1>3, <3>3 DEF Exited, EraseId
      <4>. QED
        BY <4>1 DEF IInv, Domains, Lists, Flags
    <3>4. CASE \E b \in Actor \ {a} : x = LinkTo(b)
      BY <3>1, <3>4, ToldFacts DEF IInv
    <3>5. CASE \E b \in Actor \ {a} : x = MonitorOf(b)
      BY <3>2, <3>5, ToldFacts DEF IInv
    <3>. QED
      BY <2>1, <3>3, <3>4, <3>5 DEF Observer
  <2>4. /\ UNCHANGED pc
        /\ entries' = IF x = EraseId THEN entries \ {a} ELSE entries
    BY <1>3 DEF Erased
  <2>5. Domains' /\ Lists'
    BY <2>1, <2>2, <2>3, <2>4 DEF IInv, Domains, Lists
  <2>6. Flags'
    BY <1>1, <2>2, <2>3, <2>4 DEF IInv, Flags
  <2>7. Counted'
    BY <2>4 DEF IInv, Counted
  <2>8. Registered'
    BY <2>1, <2>2, <2>4 DEF IInv, Registered, Pending
  <2>. QED
    BY <2>5, <2>6, <2>7, <2>8 DEF IInv
<1>. QED
  BY <1>2, <1>3

-----------------------------------------------------------------------------
(* The program *)

LEMMA PutIdStep ==
    ASSUME IInv, NEW a \in Actor, PutId(a)
    PROVE  IInv'
<1>. USE LifecycleAssumption DEF PutId, Start, Goto, actors, mailbox
<1>1. Domains' /\ Lists'
  BY DEF IInv, Domains, Lists
<1>2. Flags'
  BY DEF IInv, Domains, Flags
<1>3. Counted'
  BY CountKept DEF IInv, Domains
<1>4. Registered'
  BY DEF IInv, Domains, Registered, Pending
<1>. QED
  BY <1>1, <1>2, <1>3, <1>4 DEF IInv

LEMMA AttachEraserStep ==
    ASSUME IInv, AttachEraser
    PROVE  IInv'
<1> DEFINE a == other[Program]
<1>. USE LifecycleAssumption DEF AttachEraser, Goto, mailbox
<1>1. /\ DOMAIN pc' = Actor \cup {Program} /\ pc'[Program] = "idle"
      /\ \A c \in Actor : pc'[c] = pc[c]
  BY DEF IInv, Domains
<1>2. /\ DOMAIN att' = Actor
      /\ \A c \in Actor : /\ att'[c] \in Seq(Observer(c))
                          /\ Contains(att[c], EraseId) => Contains(att'[c], EraseId)
                          /\ terminated[c] => att'[c] = att[c]
                          /\ c = a /\ ~Refuses(a) => Contains(att'[c], EraseId)
  <2>1. CASE Refuses(a)
    BY <2>1 DEF IInv, Domains, Lists
  <2>2. CASE ~Refuses(a)
    <3>1. att' = [att EXCEPT ![a] = <<EraseId>> \o @]
      BY <2>2
    <3>2. \A c \in Actor : EraseId \in Observer(c) /\ att[c] \in Seq(Observer(c))
      BY DEF IInv, Lists, Observer
    <3>. QED
      BY <2>2, <3>1, <3>2, PrependFacts DEF IInv, Domains, Refuses
  <2>. QED
    BY <2>1, <2>2
<1>3. entries' = IF Refuses(a) THEN entries \ {a} ELSE entries
  BY DEF Erased
<1>4. Domains' /\ Lists'
  BY <1>1, <1>2 DEF IInv, Domains, Lists
<1>5. Flags'
  BY <1>1, <1>2 DEF IInv, Flags, Ending
<1>6. Counted'
  BY <1>1, CountKept DEF IInv
<1>7. Registered'
  BY <1>2, <1>3 DEF IInv, Registered, Pending
<1>. QED
  BY <1>4, <1>5, <1>6, <1>7 DEF IInv

LEMMA AwaitStep ==
    ASSUME IInv, BeginAwait \/ Await
    PROVE  IInv'
<1>. USE LifecycleAssumption DEF BeginAwait, Await, Start, Goto, actors, mailbox, registry
<1>1. /\ DOMAIN pc' = Actor \cup {Program} /\ pc[Program] # "functor"
      /\ \A c \in Actor : pc'[c] = pc[c]
  BY DEF IInv, Domains
<1>2. Domains' /\ Lists'
  BY <1>1 DEF IInv, Domains, Lists
<1>3. Flags'
  BY <1>1 DEF IInv, Flags
<1>4. Counted'
  BY <1>1, CountKept DEF IInv
<1>5. Registered'
  BY <1>1 DEF IInv, Registered, Pending
<1>. QED
  BY <1>2, <1>3, <1>4, <1>5 DEF IInv

-----------------------------------------------------------------------------

LEMMA NextIInv == IInv /\ [Next]_vars => IInv'
<1>. SUFFICES ASSUME IInv, [Next]_vars PROVE IInv'
  OBVIOUS
<1>1. CASE UNCHANGED vars
  <2>. USE <1>1 DEF vars, actors, mailbox, registry
  <2>1. Domains' /\ Lists' /\ Flags'
    BY DEF IInv, Domains, Lists, Flags
  <2>2. Counted' /\ Registered'
    BY DEF IInv, Counted, Registered, Pending
  <2>. QED
    BY <2>1, <2>2 DEF IInv
<1>2. ASSUME NEW a \in Actor, ActorBegins(a) PROVE IInv'
  BY <1>2, QuitStep, LinkStep, UnlinkStep, MonitorStep, DemonitorStep DEF ActorBegins
<1>3. ASSUME NEW a \in Actor, ActorGoesOn(a) PROVE IInv'
  BY <1>3, BacklinkStep, AttachLinkStep, RemoveBacklinkStep, ReadMessageStep, ExitHandlerStep,
     CloseStep, DeregisterStep, NotifyStep, CleanupStep, WalkStep DEF ActorGoesOn
<1>4. CASE ProgramBegins \/ ProgramGoesOn
  BY <1>4, PutIdStep, AttachEraserStep, AwaitStep DEF ProgramBegins, ProgramGoesOn
<1>. QED
  BY <1>1, <1>2, <1>3, <1>4 DEF Next

LEMMA Invariance == Spec => []IInv
BY InitIInv, NextIInv, PTL DEF Spec

(* Flags, lists, mailboxes and the count of running actors keep the values *)
(* the code can give them, with any number of actors.                      *)
THEOREM LifecycleTyped == Spec => []TypeOK
BY Invariance, Implied, PTL

(* monitorable_actor::attach and cleanup never leave an observer behind.   *)
THEOREM LifecycleNoLateObserver == Spec => []NoLateObserver
BY Invariance, Implied, PTL

(* actor_registry::put and cleanup together never leave a dead actor in    *)
(* the registry.                                                           *)
THEOREM LifecycleDeadAreUnregistered == Spec => []DeadAreUnregistered
BY Invariance, Implied, PTL

-----------------------------------------------------------------------------
(* Links are symmetric.  Two actors that run have promised each other the  *)
(* same: the links they have, and those link_to is still to attach, less   *)
(* those unlink_from is still to take away.                                *)

Bit(p) == IF p THEN 1 ELSE 0
Attaching(a, b) == pc[a] = "attach" /\ other[a] = b
Unlinking(a, b) == pc[a] = "unlink" /\ other[a] = b
Promised(a, b) == Links(a, b) + Bit(Attaching(a, b)) - Bit(Unlinking(b, a))

Balanced(a, b) == Promised(a, b) = Promised(b, a) /\ Promised(a, b) \in {0, 1}
Paired(a, b) == ~terminated[a] /\ ~terminated[b] /\ ~Rivals(a, b)

AllBalanced == \A a \in Actor : \A b \in Actor \ {a} : Paired(a, b) => Balanced(a, b)

(* Exit messages come from actors that have ended ... *)
EndedMail(a) == {m \in Mail(a) : m[1] = "exit" => terminated[m[2]]}
ExitsFromEnded == \A a \in Actor : inbox[a] \in Seq(EndedMail(a))

(* ... so that a link to an actor that runs is taken away by unlink_from. *)
OwnUnlinks == \A a \in Actor :
    pc[a] = "unlink" => other[a] \in Actor \ {a} /\ (a \in Unlinker \/ terminated[other[a]])

LInv == IInv /\ AllBalanced /\ ExitsFromEnded /\ OwnUnlinks

EndIsFinal == \A a \in Actor : terminated[a] => terminated'[a]
Kept(a, b) ==
    /\ Links(a, b)' = Links(a, b)
    /\ Attaching(a, b)' = Attaching(a, b) /\ Unlinking(a, b)' = Unlinking(a, b)

LEMMA LinksCounted ==
    ASSUME IInv, NEW a \in Actor, NEW b
    PROVE  /\ Links(a, b) = Count(att[a], LinkTo(b)) /\ Links(a, b) \in Nat
           /\ Contains(att[a], LinkTo(b)) <=> Links(a, b) # 0
<1>1. att[a] \in Seq(Observer(a))
  BY DEF IInv, Lists
<1>2. Links(a, b) = Count(att[a], LinkTo(b))
  BY DEF Links, Count
<1>. QED
  BY <1>1, <1>2, CountFacts

LEMMA LImplied == LInv => LinksAgree
<1>. SUFFICES ASSUME LInv, NEW a \in Actor, NEW b \in Actor, a # b, ~Rivals(a, b), Quiet(a, b)
              PROVE  Links(a, b) = Links(b, a) /\ Links(a, b) <= 1
  BY DEF LinksAgree
<1>1. pc[a] = "idle" /\ pc[b] = "idle"
  BY DEF Quiet
<1>2. ~terminated[a] /\ ~terminated[b]
  BY <1>1 DEF LInv, IInv, Flags, Ending
<1>3. Balanced(a, b)
  BY <1>2 DEF LInv, AllBalanced, Paired
<1>4. Promised(a, b) = Links(a, b) + 0 - 0 /\ Promised(b, a) = Links(b, a) + 0 - 0
  BY <1>1 DEF Promised, Bit, Attaching, Unlinking
<1>5. PICK m \in Nat, n \in Nat : m = Links(a, b) /\ n = Links(b, a)
  BY LinksCounted DEF LInv
<1>6. m + 0 - 0 = n + 0 - 0 /\ m + 0 - 0 \in {0, 1}
  BY <1>3, <1>4, <1>5 DEF Balanced
<1>7. m = n /\ m <= 1
  BY ONLY <1>6, m \in Nat, n \in Nat
<1>. QED
  BY <1>5, <1>7

LEMMA LInit == Init => LInv
<1>. SUFFICES ASSUME Init PROVE LInv
  OBVIOUS
<1>1. IInv
  BY InitIInv
<1>2. \A a \in Actor : pc[a] = "idle" /\ inbox[a] = << >> /\ att[a] = << >>
  BY DEF Init
<1>3. \A a, b \in Actor : Links(a, b) = 0
  <2>1. ASSUME NEW a \in Actor, NEW b \in Actor PROVE Links(a, b) = 0
    <3>1. ~Contains(att[a], LinkTo(b))
      BY <1>2 DEF Contains
    <3>. QED
      BY <1>1, <3>1, LinksCounted
  <2>. QED
    BY <2>1
<1>4. AllBalanced
  <2>1. ASSUME NEW a \in Actor, NEW b \in Actor PROVE Promised(a, b) = 0
    BY <1>2, <1>3 DEF Promised, Bit, Attaching, Unlinking
  <2>. QED
    BY <2>1 DEF AllBalanced, Balanced
<1>5. ExitsFromEnded
  <2>1. \A S : << >> \in Seq(S)
    OBVIOUS
  <2>. QED
    BY <1>2, <2>1 DEF ExitsFromEnded
<1>6. OwnUnlinks
  BY <1>2 DEF OwnUnlinks
<1>. QED
  BY <1>1, <1>4, <1>5, <1>6 DEF LInv

(* A step that changes nothing about any two actors, or only about a and b. *)
LEMMA KeptBalanced ==
    ASSUME NEW a, NEW b, Kept(a, b), Kept(b, a), Balanced(a, b)
    PROVE  Balanced(a, b)'
BY DEF Kept, Balanced, Promised

LEMMA PairedBefore ==
    ASSUME EndIsFinal, NEW a \in Actor, NEW b \in Actor, Paired(a, b)'
    PROVE  Paired(a, b) /\ Paired(b, a)'
BY DEF EndIsFinal, Paired, Rivals

LEMMA OnePair ==
    ASSUME AllBalanced, EndIsFinal, NEW a \in Actor, NEW b \in Actor \ {a},
           \A x \in Actor : \A y \in Actor \ {x} :
               Paired(x, y)' /\ {x, y} # {a, b} => Kept(x, y),
           Paired(a, b)' => Balanced(a, b)'
    PROVE  AllBalanced'
<1>. SUFFICES ASSUME NEW x \in Actor, NEW y \in Actor \ {x}, Paired(x, y)'
              PROVE  Balanced(x, y)'
  BY DEF AllBalanced
<1>1. Paired(x, y) /\ Paired(y, x)'
  BY PairedBefore
<1>2. CASE {x, y} # {a, b}
  <2>1. Kept(x, y) /\ Kept(y, x)
    <3>1. x \in Actor \ {y} /\ {y, x} # {a, b}
      BY <1>2
    <3>. QED
      BY <1>1, <1>2, <3>1
  <2>2. Balanced(x, y)
    BY <1>1 DEF AllBalanced
  <2>. QED
    BY <2>1, <2>2, KeptBalanced
<1>3. CASE x = a /\ y = b
  BY <1>3
<1>4. CASE x = b /\ y = a
  <2>1. Balanced(a, b)'
    BY <1>1, <1>4
  <2>. QED
    BY <1>4, <2>1 DEF Balanced
<1>. QED
  BY <1>2, <1>3, <1>4

LEMMA NoPair ==
    ASSUME AllBalanced, EndIsFinal,
           \A x \in Actor : \A y \in Actor \ {x} : Paired(x, y)' => Kept(x, y)
    PROVE  AllBalanced'
<1>. SUFFICES ASSUME NEW x \in Actor, NEW y \in Actor \ {x}, Paired(x, y)'
              PROVE  Balanced(x, y)'
  BY DEF AllBalanced
<1>1. Paired(x, y) /\ Paired(y, x)'
  BY PairedBefore
<1>2. Kept(x, y) /\ Kept(y, x)
  BY <1>1
<1>3. Balanced(x, y)
  BY <1>1 DEF AllBalanced
<1>. QED
  BY <1>2, <1>3, KeptBalanced


(* Exit messages when a step sends one, reads one or sends none. *)
LEMMA EndedMailGrows ==
    ASSUME EndIsFinal, NEW a \in Actor, NEW s \in Seq(EndedMail(a))
    PROVE  s \in Seq(EndedMail(a)')
<1>1. EndedMail(a) \subseteq EndedMail(a)'
  <2>1. ASSUME NEW m \in Mail(a), m[1] = "exit" PROVE m[2] \in Actor
    BY <2>1 DEF Mail
  <2>. QED
    BY <2>1 DEF EndedMail, EndIsFinal, Mail
<1>. QED
  BY <1>1

LEMMA MailKept ==
    ASSUME ExitsFromEnded, EndIsFinal,
           \A a \in Actor : inbox'[a] = inbox[a] \/ inbox'[a] \in Seq(EndedMail(a))
    PROVE  ExitsFromEnded'
<1>1. ASSUME NEW a \in Actor PROVE inbox'[a] \in Seq(EndedMail(a)')
  <2>1. inbox'[a] \in Seq(EndedMail(a))
    BY DEF ExitsFromEnded
  <2>. QED
    BY <2>1, EndedMailGrows
<1>. QED
  BY <1>1 DEF ExitsFromEnded

LEMMA MailTold ==
    ASSUME IInv, ExitsFromEnded, EndIsFinal,
           NEW a \in Actor, NEW m \in EndedMail(a), inbox' = Told(inbox, a, m)
    PROVE  ExitsFromEnded'
<1>1. ASSUME NEW x \in Actor PROVE inbox'[x] = inbox[x] \/ inbox'[x] \in Seq(EndedMail(x))
  <2>1. inbox[a] \in Seq(EndedMail(a))
    BY DEF ExitsFromEnded
  <2>2. Append(inbox[a], m) \in Seq(EndedMail(a))
    BY <2>1
  <2>. QED
    BY <2>2 DEF IInv, Domains, Told
<1>. QED
  BY <1>1, MailKept

(* Nobody's links change, and nobody begins or ends to attach or to remove *)
(* one: what most steps do.                                                *)
SameLinks ==
    \A a \in Actor : ~terminated'[a] =>
        /\ \A b \in Actor \ {a} : Links(a, b)' = Links(a, b)
        /\ pc'[a] \in {"attach", "unlink"} \/ pc[a] \in {"attach", "unlink"} =>
              pc'[a] = pc[a] /\ other'[a] = other[a]

LEMMA SameLinksKept ==
    ASSUME AllBalanced, EndIsFinal, SameLinks
    PROVE  AllBalanced'
<1>1. ASSUME NEW x \in Actor, NEW y \in Actor \ {x}, Paired(x, y)' PROVE Kept(x, y)
  <2>1. ~terminated'[x]
    BY <1>1 DEF Paired
  <2>. QED
    BY <2>1 DEF SameLinks, Kept, Attaching, Unlinking
<1>. QED
  BY <1>1, NoPair

LEMMA OwnUnlinksKept ==
    ASSUME OwnUnlinks, EndIsFinal,
           \A a \in Actor : pc'[a] = "unlink" => pc[a] = "unlink" /\ other'[a] = other[a]
    PROVE  OwnUnlinks'
BY DEF OwnUnlinks, EndIsFinal


LEMMA SameAtt ==
    ASSUME NEW a \in Actor, NEW b, att'[a] = att[a]
    PROVE  Links(a, b)' = Links(a, b)
BY DEF Links

(* The steps of an end change no list of one that still runs. *)
LEMMA EndingBalanced ==
    ASSUME LInv, NEW a \in Actor,
           ExitHandler(a) \/ Quit(a) \/ Close(a) \/ Deregister(a) \/ Notify(a) \/ Cleanup(a) \/ Walk(a)
    PROVE  AllBalanced' /\ OwnUnlinks'
<1>. USE LifecycleAssumption DEF ExitHandler, Quit, Close, Deregister, Notify, Woken, Cleanup, Walk,
     Goto, actors, mailbox, registry
<1>1. /\ pc[a] \in {"exit", "idle"} \cup Ending /\ pc'[a] \in {"idle"} \cup Ending
      /\ \A x \in Actor : x # a => pc'[x] = pc[x]
      /\ UNCHANGED other
  BY DEF LInv, IInv, Domains, Ending
<1>2. EndIsFinal
  BY DEF LInv, IInv, Domains, EndIsFinal
<1>3. \A x \in Actor : att'[x] = att[x] \/ terminated'[x]
  BY DEF LInv, IInv, Domains, Flags, Ending
<1>4. SameLinks
  BY <1>1, <1>3, SameAtt DEF SameLinks, Ending
<1>5. AllBalanced'
  BY <1>2, <1>4, SameLinksKept DEF LInv
<1>6. OwnUnlinks'
  BY <1>1, <1>2, OwnUnlinksKept DEF LInv, Ending
<1>. QED
  BY <1>5, <1>6

LEMMA EndingMail ==
    ASSUME LInv, NEW a \in Actor,
           ExitHandler(a) \/ Quit(a) \/ Close(a) \/ Deregister(a) \/ Notify(a) \/ Cleanup(a)
    PROVE  ExitsFromEnded'
<1>. USE LifecycleAssumption DEF ExitHandler, Quit, Close, Deregister, Notify, Cleanup,
     Goto, actors, mailbox, registry
<1>1. EndIsFinal
  BY DEF LInv, IInv, Domains, EndIsFinal
<1>2. << >> \in Seq(EndedMail(a))
  OBVIOUS
<1>3. \A x \in Actor : inbox'[x] = inbox[x] \/ inbox'[x] \in Seq(EndedMail(x))
  BY <1>2 DEF LInv, IInv, Domains
<1>. QED
  BY <1>1, <1>3, MailKept DEF LInv

LEMMA WalkMail ==
    ASSUME LInv, NEW a \in Actor, Walk(a)
    PROVE  ExitsFromEnded'
<1>. USE DEF Walk
<1>1. EndIsFinal /\ terminated[a]
  BY DEF LInv, IInv, Flags, Ending, EndIsFinal
<1>2. CASE inbox' = inbox
  BY <1>1, <1>2, MailKept DEF LInv
<1>3. CASE head[a] # << >>
  <2> DEFINE x == Head(head[a])
  <2>1. x \in Observer(a)
    BY <1>3, TailFacts DEF LInv, IInv, Lists
  <2>2. inbox' = Exited(a, x)
    BY <1>3
  <2>3. ASSUME NEW b \in Actor \ {a}, x = LinkTo(b) PROVE ExitsFromEnded'
    <3>1. inbox' = Told(inbox, b, <<"exit", a>>)
      BY <2>2, <2>3 DEF Exited, LinkTo
    <3>2. <<"exit", a>> \in EndedMail(b)
      BY <1>1 DEF EndedMail, Mail
    <3>. QED
      BY <1>1, <3>1, <3>2, MailTold DEF LInv
  <2>4. ASSUME NEW b \in Actor \ {a}, x = MonitorOf(b) PROVE ExitsFromEnded'
    <3>1. inbox' = Told(inbox, b, <<"down", a>>)
      BY <2>2, <2>4 DEF Exited, MonitorOf
    <3>2. <<"down", a>> \in EndedMail(b)
      BY DEF EndedMail, Mail
    <3>. QED
      BY <1>1, <3>1, <3>2, MailTold DEF LInv
  <2>5. ASSUME x = EraseId PROVE inbox' = inbox
    BY <2>2, <2>5 DEF Exited, EraseId
  <2>. QED
    BY <1>2, <2>1, <2>3, <2>4, <2>5 DEF Observer
<1>. QED
  BY <1>2, <1>3

(* So do those of the program, and what an actor does to monitor another.  *)
LEMMA AwayFromLinks ==
    ASSUME LInv, BeginAwait \/ Await \/ AttachEraser \/ (\E a \in Actor : PutId(a)) \/ UNCHANGED vars
    PROVE  AllBalanced' /\ OwnUnlinks' /\ ExitsFromEnded'
<1>. USE LifecycleAssumption DEF BeginAwait, Await, AttachEraser, PutId, Start, Goto, vars, actors,
     mailbox, registry
<1>1. /\ \A x \in Actor : pc'[x] = pc[x] /\ other'[x] = other[x]
      /\ UNCHANGED <<terminated, inbox>>
  BY DEF LInv, IInv, Domains
<1>2. EndIsFinal
  BY <1>1 DEF EndIsFinal
<1>3. ASSUME NEW x \in Actor, NEW y \in Actor PROVE Links(x, y)' = Links(x, y)
  <2>1. CASE att'[x] = att[x]
    BY <2>1, SameAtt
  <2>2. CASE att'[x] = <<EraseId>> \o att[x]
    <3>1. att[x] \in Seq(Observer(x)) /\ EraseId \in Observer(x) /\ EraseId # LinkTo(y)
      BY DEF LInv, IInv, Lists, Observer, EraseId, LinkTo
    <3>2. Count(att'[x], LinkTo(y)) = Count(att[x], LinkTo(y)) + 0
      BY <2>2, <3>1, PrependFacts
    <3>3. Count(att[x], LinkTo(y)) \in Nat
      BY <3>1, CountFacts
    <3>4. Count(att'[x], LinkTo(y)) = Count(att[x], LinkTo(y))
      BY <3>2, <3>3
    <3>. QED
      BY <3>4 DEF Links, Count
  <2>3. att'[x] = att[x] \/ att'[x] = <<EraseId>> \o att[x]
    BY DEF LInv, IInv, Domains
  <2>. QED
    BY <2>1, <2>2, <2>3
<1>4. SameLinks
  BY <1>1, <1>3 DEF SameLinks
<1>5. AllBalanced'
  BY <1>2, <1>4, SameLinksKept DEF LInv
<1>6. OwnUnlinks'
  BY <1>1, <1>2, OwnUnlinksKept DEF LInv
<1>7. ExitsFromEnded'
  BY <1>1, <1>2, MailKept DEF LInv
<1>. QED
  BY <1>5, <1>6, <1>7


LEMMA MonitoringAway ==
    ASSUME LInv, NEW a \in Actor, NEW b \in Actor \ {a},
           Link(a, b) \/ Monitor(a, b) \/ Demonitor(a, b)
    PROVE  AllBalanced' /\ OwnUnlinks' /\ ExitsFromEnded'
<1>. USE LifecycleAssumption DEF Link, Monitor, Demonitor, Start, Goto, actors, mailbox, registry
<1>1. /\ pc[a] = "idle" /\ pc'[a] \in {"idle", "backlink"}
      /\ \A x \in Actor : x # a => pc'[x] = pc[x] /\ other'[x] = other[x]
      /\ UNCHANGED terminated
  BY DEF LInv, IInv, Domains
<1>2. EndIsFinal
  BY <1>1 DEF EndIsFinal
<1>3. ASSUME NEW x \in Actor, NEW y \in Actor PROVE Links(x, y)' = Links(x, y)
  <2>1. /\ att[x] \in Seq(Observer(x)) /\ MonitorOf(a) # LinkTo(y)
        /\ Count(att[x], LinkTo(y)) \in Nat
    BY CountFacts DEF LInv, IInv, Lists, MonitorOf, LinkTo
  <2>2. CASE att'[x] = att[x]
    BY <2>2, SameAtt
  <2>3. CASE x = b /\ att'[x] = <<MonitorOf(a)>> \o att[x]
    <3>1. MonitorOf(a) \in Observer(x)
      BY <2>3 DEF Observer
    <3>2. Count(att'[x], LinkTo(y)) =
              Count(att[x], LinkTo(y)) + (IF MonitorOf(a) = LinkTo(y) THEN 1 ELSE 0)
      BY ONLY <2>1, <2>3, <3>1, PrependFacts
    <3>3. Count(att'[x], LinkTo(y)) = Count(att[x], LinkTo(y))
      BY <2>1, <3>2
    <3>. QED
      BY <3>3 DEF Links, Count
  <2>4. CASE att'[x] = Without(att[x], MonitorOf(a))
    <3>1. Count(att'[x], LinkTo(y)) = Count(att[x], LinkTo(y))
      BY <2>1, <2>4, WithoutFacts
    <3>. QED
      BY <3>1 DEF Links, Count
  <2>5. \/ att'[x] = att[x] \/ (x = b /\ att'[x] = <<MonitorOf(a)>> \o att[x])
        \/ att'[x] = Without(att[x], MonitorOf(a))
    BY DEF LInv, IInv, Domains
  <2>. QED
    BY <2>2, <2>3, <2>4, <2>5
<1>4. SameLinks
  BY <1>1, <1>3 DEF SameLinks
<1>5. AllBalanced'
  BY <1>2, <1>4, SameLinksKept DEF LInv
<1>6. OwnUnlinks'
  BY <1>1, <1>2, OwnUnlinksKept DEF LInv
<1>7. ExitsFromEnded'
  <2>1. CASE inbox' = inbox
    BY <1>2, <2>1, MailKept DEF LInv
  <2>2. CASE inbox' = Told(inbox, a, <<"down", b>>)
    <3>1. <<"down", b>> \in EndedMail(a)
      BY DEF EndedMail, Mail
    <3>. QED
      BY <1>2, <2>2, <3>1, MailTold DEF LInv
  <2>. QED
    BY <2>1, <2>2
<1>. QED
  BY <1>5, <1>6, <1>7

(* The other side of link_to is entered, and a promises to attach its own. *)
LEMMA BacklinkBalanced ==
    ASSUME LInv, NEW a \in Actor, Backlink(a)
    PROVE  AllBalanced' /\ OwnUnlinks' /\ ExitsFromEnded'
<1> DEFINE b == other[a]
<1>. USE LifecycleAssumption DEF Backlink, Goto, mailbox, registry
<1>1. b \in Actor \ {a} /\ pc[a] = "backlink" /\ ~Locked(b)
  BY DEF LInv, IInv, Lists
<1>2. /\ pc'[a] \in {"idle", "attach"}
      /\ \A x \in Actor : x # a => pc'[x] = pc[x]
      /\ UNCHANGED <<other, terminated>>
  BY DEF LInv, IInv, Domains
<1>3. EndIsFinal
  BY <1>2 DEF EndIsFinal
<1>4. OwnUnlinks'
  BY <1>1, <1>2, <1>3, OwnUnlinksKept DEF LInv
<1>5. ExitsFromEnded'
  <2>1. CASE inbox' = inbox
    BY <1>3, <2>1, MailKept DEF LInv
  <2>2. CASE Refuses(b) /\ inbox' = Told(inbox, a, <<"exit", b>>)
    <3>1. <<"exit", b>> \in EndedMail(a)
      BY <1>1, <2>2 DEF EndedMail, Mail, Refuses
    <3>. QED
      BY <1>3, <2>2, <3>1, MailTold DEF LInv
  <2>. QED
    BY <2>1, <2>2
<1>6. CASE pc'[a] = "idle" /\ UNCHANGED att
  <2>1. SameLinks
    BY <1>1, <1>2, <1>6, SameAtt DEF SameLinks
  <2>. QED
    BY <1>3, <1>4, <1>5, <2>1, SameLinksKept DEF LInv
<1>7. CASE /\ ~AlreadyLinked(b, a) /\ pc'[a] = "attach"
           /\ att' = [att EXCEPT ![b] = <<LinkTo(a)>> \o @]
  <2>1. /\ att[b] \in Seq(Observer(b)) /\ LinkTo(a) \in Observer(b)
        /\ att'[b] = <<LinkTo(a)>> \o att[b]
        /\ \A x \in Actor : x # b => att'[x] = att[x]
    BY <1>1, <1>7 DEF LInv, IInv, Domains, Lists, Observer
  <2>2. \A y \in Actor : Count(att'[b], LinkTo(y)) =
                             Count(att[b], LinkTo(y)) + (IF LinkTo(a) = LinkTo(y) THEN 1 ELSE 0)
    BY ONLY <2>1, PrependFacts
  <2>3. ASSUME NEW y \in Actor, y # a PROVE Links(b, y)' = Links(b, y)
    <3>1. LinkTo(a) # LinkTo(y) /\ Count(att[b], LinkTo(y)) \in Nat
      BY <2>1, <2>3, CountFacts DEF LinkTo
    <3>2. Count(att'[b], LinkTo(y)) = Count(att[b], LinkTo(y))
      BY <2>2, <3>1
    <3>. QED
      BY <3>2 DEF Links, Count
  <2>4. Links(b, a) = 0 /\ Links(b, a)' = 1
    <3>1. Count(att[b], LinkTo(a)) = 0
      BY <1>1, <1>7, <2>1, CountFacts DEF AlreadyLinked
    <3>2. Count(att'[b], LinkTo(a)) = 1
      BY <2>2, <3>1
    <3>. QED
      BY <3>1, <3>2 DEF Links, Count
  <2>5. Links(a, b)' = Links(a, b)
    BY <1>1, <2>1, SameAtt
  <2>6. ASSUME NEW x \in Actor, NEW y \in Actor \ {x}, {x, y} # {a, b} PROVE Kept(x, y)
    <3>1. Links(x, y)' = Links(x, y)
      BY <2>1, <2>3, <2>6, SameAtt
    <3>2. Attaching(x, y)' = Attaching(x, y) /\ Unlinking(x, y)' = Unlinking(x, y)
      <4>1. CASE x # a
        BY <1>2, <4>1 DEF Attaching, Unlinking
      <4>2. CASE x = a
        BY <1>1, <1>2, <1>7, <2>6, <4>2 DEF Attaching, Unlinking
      <4>. QED
        BY <4>1, <4>2
    <3>. QED
      BY <3>1, <3>2 DEF Kept
  <2>7. ASSUME Paired(a, b)' PROVE Balanced(a, b)'
    <3>1. Paired(a, b)
      BY <1>1, <1>3, <2>7, PairedBefore
    <3>2. Balanced(a, b)
      BY <1>1, <3>1 DEF LInv, AllBalanced
    <3>3. /\ ~Attaching(a, b) /\ ~Unlinking(a, b) /\ ~Attaching(b, a)
          /\ Attaching(a, b)' /\ ~Unlinking(a, b)' /\ ~Attaching(b, a)'
          /\ Unlinking(b, a)' = Unlinking(b, a)
      BY <1>1, <1>2, <1>7 DEF Attaching, Unlinking, Locked
    <3>4. PICK m \in Nat, u \in {0, 1} : m = Links(a, b) /\ u = Bit(Unlinking(b, a))
      BY LinksCounted DEF LInv, Bit
    <3>5. Promised(a, b) = m + 0 - u /\ Promised(b, a) = 0 + 0 - 0
      BY <2>4, <3>3, <3>4 DEF Promised, Bit
    <3>6. m + 0 - u = 0 + 0 - 0
      BY <3>2, <3>5 DEF Balanced
    <3>7. Promised(a, b)' = m + 1 - u /\ Promised(b, a)' = 1 + 0 - 0
      BY <2>4, <2>5, <3>3, <3>4 DEF Promised, Bit
    <3>8. m + 1 - u = 1 /\ 1 + 0 - 0 = 1
      BY ONLY <3>6, m \in Nat, u \in {0, 1}
    <3>. QED
      BY <3>7, <3>8 DEF Balanced
  <2>8. AllBalanced'
    BY <1>1, <1>3, <2>6, <2>7, OnePair DEF LInv
  <2>. QED
    BY <1>4, <1>5, <2>8
<1>. QED
  BY <1>2, <1>6, <1>7 DEF LInv, IInv, Domains


(* The promise is kept. *)
LEMMA AttachLinkBalanced ==
    ASSUME LInv, NEW a \in Actor, AttachLink(a)
    PROVE  AllBalanced' /\ OwnUnlinks' /\ ExitsFromEnded'
<1> DEFINE b == other[a]
<1>. USE LifecycleAssumption DEF AttachLink, Goto, mailbox, registry
<1>1. b \in Actor \ {a} /\ pc[a] = "attach"
  BY DEF LInv, IInv, Lists
<1>2. /\ pc'[a] = "idle"
      /\ \A x \in Actor : x # a => pc'[x] = pc[x]
      /\ UNCHANGED <<other, terminated, inbox>>
  BY DEF LInv, IInv, Domains
<1>3. EndIsFinal
  BY <1>2 DEF EndIsFinal
<1>4. OwnUnlinks'
  BY <1>1, <1>2, <1>3, OwnUnlinksKept DEF LInv
<1>5. ExitsFromEnded'
  BY <1>2, <1>3, MailKept DEF LInv
<1>6. /\ att[a] \in Seq(Observer(a)) /\ LinkTo(b) \in Observer(a)
      /\ att'[a] = <<LinkTo(b)>> \o att[a]
      /\ \A x \in Actor : x # a => att'[x] = att[x]
  BY <1>1 DEF LInv, IInv, Domains, Lists, Observer
<1>7. \A y \in Actor : Count(att'[a], LinkTo(y)) =
                         Count(att[a], LinkTo(y)) + (IF LinkTo(b) = LinkTo(y) THEN 1 ELSE 0)
  BY ONLY <1>6, PrependFacts
<1>8. ASSUME NEW y \in Actor, y # b PROVE Links(a, y)' = Links(a, y)
  <2>1. LinkTo(b) # LinkTo(y) /\ Count(att[a], LinkTo(y)) \in Nat
    BY <1>6, <1>8, CountFacts DEF LinkTo
  <2>2. Count(att'[a], LinkTo(y)) = Count(att[a], LinkTo(y))
    BY <1>7, <2>1
  <2>. QED
    BY <2>2 DEF Links, Count
<1>9. Links(a, b)' = Links(a, b) + 1
  <2>1. Count(att'[a], LinkTo(b)) = Count(att[a], LinkTo(b)) + 1
    BY <1>1, <1>7
  <2>. QED
    BY <2>1 DEF Links, Count
<1>10. ASSUME NEW x \in Actor, NEW y \in Actor \ {x}, {x, y} # {a, b} PROVE Kept(x, y)
  <2>1. Links(x, y)' = Links(x, y)
    BY <1>6, <1>8, <1>10, SameAtt
  <2>2. Attaching(x, y)' = Attaching(x, y) /\ Unlinking(x, y)' = Unlinking(x, y)
    <3>1. CASE x # a
      BY <1>2, <3>1 DEF Attaching, Unlinking
    <3>2. CASE x = a
      BY <1>1, <1>2, <1>10, <3>2 DEF Attaching, Unlinking
    <3>. QED
      BY <3>1, <3>2
  <2>. QED
    BY <2>1, <2>2 DEF Kept
<1>11. ASSUME Paired(a, b)' PROVE Balanced(a, b)'
  <2>1. Paired(a, b)
    BY <1>1, <1>3, <1>11, PairedBefore
  <2>2. Balanced(a, b)
    BY <1>1, <2>1 DEF LInv, AllBalanced
  <2>3. /\ Attaching(a, b) /\ ~Attaching(a, b)'
        /\ Unlinking(a, b)' = Unlinking(a, b)
        /\ Attaching(b, a)' = Attaching(b, a) /\ Unlinking(b, a)' = Unlinking(b, a)
    BY <1>1, <1>2 DEF Attaching, Unlinking
  <2>4. PICK m \in Nat, u \in {0, 1} : m = Links(a, b) /\ u = Bit(Unlinking(b, a))
    BY LinksCounted DEF LInv, Bit
  <2>5. Promised(a, b) = m + 1 - u /\ Promised(a, b)' = m + 1 + 0 - u
    BY <1>9, <2>3, <2>4 DEF Promised, Bit
  <2>6. m + 1 + 0 - u = m + 1 - u
    BY ONLY m \in Nat, u \in {0, 1}
  <2>7. Promised(b, a)' = Promised(b, a)
    BY <1>1, <1>6, <2>3, SameAtt DEF Promised
  <2>. QED
    BY <2>2, <2>5, <2>6, <2>7 DEF Balanced
<1>12. AllBalanced'
  BY <1>1, <1>3, <1>10, <1>11, OnePair DEF LInv
<1>. QED
  BY <1>4, <1>5, <1>12

(* The other side of unlink_from. *)
LEMMA RemoveBacklinkBalanced ==
    ASSUME LInv, NEW a \in Actor, RemoveBacklink(a)
    PROVE  AllBalanced' /\ OwnUnlinks' /\ ExitsFromEnded'
<1> DEFINE b == other[a]
<1>. USE LifecycleAssumption DEF RemoveBacklink, Goto, mailbox, registry
<1>1. b \in Actor \ {a} /\ pc[a] = "unlink" /\ ~Locked(b)
  BY DEF LInv, OwnUnlinks
<1>2. /\ pc'[a] \in {"idle", "exit"}
      /\ \A x \in Actor : x # a => pc'[x] = pc[x]
      /\ UNCHANGED <<other, terminated, inbox>>
  BY DEF LInv, IInv, Domains
<1>3. EndIsFinal
  BY <1>2 DEF EndIsFinal
<1>4. OwnUnlinks'
  BY <1>1, <1>2, <1>3, OwnUnlinksKept DEF LInv
<1>5. ExitsFromEnded'
  BY <1>2, <1>3, MailKept DEF LInv
<1>6. /\ att[b] \in Seq(Observer(b)) /\ att'[b] = RemoveFirst(att[b], LinkTo(a))
      /\ \A x \in Actor : x # b => att'[x] = att[x]
  BY <1>1 DEF LInv, IInv, Domains, Lists
<1>7. ASSUME NEW y \in Actor, y # a PROVE Links(b, y)' = Links(b, y)
  <2>1. LinkTo(a) # LinkTo(y)
    BY <1>7 DEF LinkTo
  <2>2. Count(att'[b], LinkTo(y)) = Count(att[b], LinkTo(y))
    BY ONLY <1>6, <2>1, RemoveFirstFacts
  <2>. QED
    BY <2>2 DEF Links, Count
<1>8. Links(b, a) # 0 => Links(b, a)' = Links(b, a) - 1
  <2>1. Count(att[b], LinkTo(a)) # 0 => Count(att'[b], LinkTo(a)) = Count(att[b], LinkTo(a)) - 1
    BY ONLY <1>6, RemoveFirstFacts
  <2>. QED
    BY <2>1 DEF Links, Count
<1>9. ASSUME NEW x \in Actor, NEW y \in Actor \ {x}, {x, y} # {a, b} PROVE Kept(x, y)
  <2>1. Links(x, y)' = Links(x, y)
    BY <1>6, <1>7, <1>9, SameAtt
  <2>2. Attaching(x, y)' = Attaching(x, y) /\ Unlinking(x, y)' = Unlinking(x, y)
    <3>1. CASE x # a
      BY <1>2, <3>1 DEF Attaching, Unlinking
    <3>2. CASE x = a
      BY <1>1, <1>2, <1>9, <3>2 DEF Attaching, Unlinking
    <3>. QED
      BY <3>1, <3>2
  <2>. QED
    BY <2>1, <2>2 DEF Kept
<1>10. ASSUME Paired(a, b)' PROVE Balanced(a, b)'
  <2>1. Paired(a, b)
    BY <1>1, <1>3, <1>10, PairedBefore
  <2>2. Balanced(a, b)
    BY <1>1, <2>1 DEF LInv, AllBalanced
  <2>3. /\ Unlinking(a, b) /\ ~Unlinking(a, b)' /\ ~Attaching(b, a) /\ ~Attaching(b, a)'
        /\ Attaching(a, b)' = Attaching(a, b) /\ Unlinking(b, a)' = Unlinking(b, a)
    BY <1>1, <1>2 DEF Attaching, Unlinking, Locked
  <2>4. PICK n \in Nat : n = Links(b, a)
    BY <1>1, LinksCounted DEF LInv
  <2>5. Promised(b, a) = n + 0 - 1
    BY <2>3, <2>4 DEF Promised, Bit
  <2>6. n # 0 /\ n + 0 - 1 = n - 1 + 0 - 0
    <3>1. n + 0 - 1 \in {0, 1}
      BY <2>2, <2>5 DEF Balanced
    <3>. QED
      BY ONLY <3>1, n \in Nat
  <2>7. Promised(b, a)' = n - 1 + 0 - 0
    BY <1>8, <2>3, <2>4, <2>6 DEF Promised, Bit
  <2>8. Promised(a, b)' = Promised(a, b)
    BY <1>1, <1>6, <2>3, SameAtt DEF Promised
  <2>. QED
    BY <2>2, <2>5, <2>6, <2>7, <2>8 DEF Balanced
<1>11. AllBalanced'
  BY <1>1, <1>3, <1>9, <1>10, OnePair DEF LInv
<1>. QED
  BY <1>4, <1>5, <1>11


(* The own side of a removal, and what the other side is then owed. *)
LEMMA RemoveLinkCounts ==
    ASSUME LInv, NEW a \in Actor, NEW b \in Actor \ {a}, NEW after, after \notin {"attach", "unlink"},
           pc[a] = "idle", RemoveLink(a, b, after)
    PROVE  /\ other'[a] = b
           /\ \A x \in Actor : x # a => pc'[x] = pc[x] /\ other'[x] = other[x] /\ att'[x] = att[x]
           /\ \A y \in Actor : y # b => Links(a, y)' = Links(a, y)
           /\ \/ pc'[a] = after /\ Links(a, b)' = Links(a, b)
              \/ pc'[a] = "unlink" /\ Links(a, b) # 0 /\ Links(a, b)' = Links(a, b) - 1
<1>1. att[a] \in Seq(Observer(a))
  BY DEF LInv, IInv, Lists
<1>2. /\ other'[a] = b
      /\ \A x \in Actor : x # a => pc'[x] = pc[x] /\ other'[x] = other[x] /\ att'[x] = att[x]
  BY LifecycleAssumption DEF LInv, IInv, Domains, RemoveLink, Goto
<1>3. CASE UNCHANGED att /\ Goto(a, after)
  BY <1>2, <1>3, SameAtt DEF LInv, IInv, Domains, Goto
<1>4. CASE /\ Contains(att[a], LinkTo(b)) /\ Goto(a, "unlink")
           /\ att' = [att EXCEPT ![a] = RemoveFirst(@, LinkTo(b))]
  <2>1. att'[a] = RemoveFirst(att[a], LinkTo(b)) /\ pc'[a] = "unlink"
    BY <1>4 DEF LInv, IInv, Domains, Goto
  <2>2. ASSUME NEW y \in Actor, y # b PROVE Links(a, y)' = Links(a, y)
    <3>1. LinkTo(b) # LinkTo(y)
      BY <2>2 DEF LinkTo
    <3>2. Count(att'[a], LinkTo(y)) = Count(att[a], LinkTo(y))
      BY ONLY <1>1, <2>1, <3>1, RemoveFirstFacts
    <3>. QED
      BY <3>2 DEF Links, Count
  <2>3. Count(att[a], LinkTo(b)) # 0
    BY <1>1, <1>4, CountFacts
  <2>4. Count(att'[a], LinkTo(b)) = Count(att[a], LinkTo(b)) - 1
    BY ONLY <1>1, <2>1, <2>3, RemoveFirstFacts
  <2>5. Links(a, b) # 0 /\ Links(a, b)' = Links(a, b) - 1
    BY <2>3, <2>4 DEF Links, Count
  <2>. QED
    BY <1>2, <2>1, <2>2, <2>5
<1>. QED
  BY <1>3, <1>4 DEF RemoveLink

LEMMA UnlinkBalanced ==
    ASSUME LInv, NEW a \in Actor, NEW b \in Actor \ {a}, Unlink(a, b)
    PROVE  AllBalanced' /\ OwnUnlinks' /\ ExitsFromEnded'
<1>. USE DEF Unlink, Start, mailbox, registry
<1>1. pc[a] = "idle" /\ a \in Unlinker /\ UNCHANGED <<terminated, inbox>> /\ "idle" \notin {"attach", "unlink"}
  OBVIOUS
<1>2. EndIsFinal
  BY <1>1 DEF EndIsFinal
<1>3. /\ other'[a] = b
      /\ \A x \in Actor : x # a => pc'[x] = pc[x] /\ other'[x] = other[x] /\ att'[x] = att[x]
      /\ \A y \in Actor : y # b => Links(a, y)' = Links(a, y)
  BY <1>1, RemoveLinkCounts
<1>4. \/ pc'[a] = "idle" /\ Links(a, b)' = Links(a, b)
      \/ pc'[a] = "unlink" /\ Links(a, b) # 0 /\ Links(a, b)' = Links(a, b) - 1
  BY <1>1, RemoveLinkCounts
<1>5. OwnUnlinks'
  <2>1. ASSUME NEW x \in Actor, pc'[x] = "unlink"
        PROVE  other'[x] \in Actor \ {x} /\ (x \in Unlinker \/ terminated'[other'[x]])
    BY <1>1, <1>3, <2>1 DEF LInv, OwnUnlinks
  <2>. QED
    BY <2>1 DEF OwnUnlinks
<1>6. ExitsFromEnded'
  BY <1>1, <1>2, MailKept DEF LInv
<1>7. ASSUME NEW x \in Actor, NEW y \in Actor \ {x}, {x, y} # {a, b} PROVE Kept(x, y)
  <2>1. CASE x # a
    BY <1>3, <2>1, SameAtt DEF Kept, Attaching, Unlinking
  <2>2. CASE x = a
    <3>1. y # b
      BY <1>7, <2>2
    <3>2. Attaching(x, y)' = Attaching(x, y) /\ Unlinking(x, y)' = Unlinking(x, y)
      BY <1>1, <1>3, <1>4, <2>2, <3>1 DEF Attaching, Unlinking
    <3>. QED
      BY <1>3, <2>2, <3>1, <3>2 DEF Kept
  <2>. QED
    BY <2>1, <2>2
<1>8. ASSUME Paired(a, b)' PROVE Balanced(a, b)'
  <2>1. Paired(a, b)
    BY <1>2, <1>8, PairedBefore
  <2>2. Balanced(a, b)
    BY <2>1 DEF LInv, AllBalanced
  <2>3. ~Unlinking(b, a)
    BY <1>1, <2>1 DEF LInv, OwnUnlinks, Unlinking, Paired, Rivals
  <2>4. /\ ~Attaching(a, b) /\ ~Attaching(a, b)' /\ ~Unlinking(a, b) /\ ~Unlinking(b, a)'
        /\ Attaching(b, a)' = Attaching(b, a) /\ Links(b, a)' = Links(b, a)
    BY <1>1, <1>3, <1>4, <2>3, SameAtt DEF Attaching, Unlinking
  <2>5. PICK m \in Nat, n \in Nat, u \in {0, 1} :
            m = Links(a, b) /\ n = Links(b, a) /\ u = Bit(Attaching(b, a))
    BY LinksCounted DEF LInv, Bit
  <2>6. Promised(a, b) = m + 0 - 0 /\ Promised(b, a) = n + u - 0
    BY <2>3, <2>4, <2>5 DEF Promised, Bit
  <2>7. m + 0 - 0 = n + u - 0 /\ m + 0 - 0 \in {0, 1}
    BY <2>2, <2>6 DEF Balanced
  <2>8. CASE pc'[a] = "idle" /\ Links(a, b)' = Links(a, b)
    <3>1. ~Unlinking(a, b)'
      BY <2>8 DEF Unlinking
    <3>2. Promised(a, b)' = m + 0 - 0 /\ Promised(b, a)' = n + u - 0
      BY <2>4, <2>5, <2>8, <3>1 DEF Promised, Bit
    <3>. QED
      BY <2>7, <3>2 DEF Balanced
  <2>9. CASE pc'[a] = "unlink" /\ Links(a, b) # 0 /\ Links(a, b)' = Links(a, b) - 1
    <3>1. Unlinking(a, b)' /\ m # 0
      BY <1>3, <2>5, <2>9 DEF Unlinking
    <3>2. Promised(a, b)' = m - 1 + 0 - 0 /\ Promised(b, a)' = n + u - 1
      BY <2>4, <2>5, <2>9, <3>1 DEF Promised, Bit
    <3>3. m - 1 + 0 - 0 = n + u - 1 /\ m - 1 + 0 - 0 \in {0, 1}
      BY ONLY <2>7, <3>1, m \in Nat, n \in Nat, u \in {0, 1}
    <3>. QED
      BY <3>2, <3>3 DEF Balanced
  <2>. QED
    BY <1>4, <2>8, <2>9
<1>9. AllBalanced'
  BY <1>2, <1>7, <1>8, OnePair DEF LInv
<1>. QED
  BY <1>5, <1>6, <1>9

(* What an exit message takes away is a link to an actor that has ended. *)
LEMMA ReadMessageBalanced ==
    ASSUME LInv, NEW a \in Actor, ReadMessage(a)
    PROVE  AllBalanced' /\ OwnUnlinks' /\ ExitsFromEnded'
<1> DEFINE m == Head(inbox[a])
<1>. USE DEF ReadMessage, registry
<1>1. pc[a] = "idle" /\ inbox[a] # << >> /\ UNCHANGED terminated /\ "exit" \notin {"attach", "unlink"}
  OBVIOUS
<1>2. EndIsFinal
  BY <1>1 DEF EndIsFinal
<1>3. m \in EndedMail(a) /\ Tail(inbox[a]) \in Seq(EndedMail(a))
  BY <1>1, TailFacts DEF LInv, ExitsFromEnded
<1>4. ExitsFromEnded'
  <2>1. \A x \in Actor : inbox'[x] = inbox[x] \/ inbox'[x] \in Seq(EndedMail(x))
    BY <1>3 DEF LInv, IInv, Domains
  <2>. QED
    BY <1>2, <2>1, MailKept DEF LInv
<1>5. CASE m[1] # "exit"
  <2>1. UNCHANGED <<att, other, pc>>
    BY <1>5
  <2>2. SameLinks
    BY <2>1, SameAtt DEF SameLinks
  <2>3. OwnUnlinks'
    BY <1>2, <2>1, OwnUnlinksKept DEF LInv
  <2>. QED
    BY <1>2, <1>4, <2>2, <2>3, SameLinksKept DEF LInv
<1>6. CASE m[1] = "exit"
  <2> DEFINE b == m[2]
  <2>1. b \in Actor \ {a} /\ terminated[b] /\ RemoveLink(a, b, "exit")
    BY <1>3, <1>6 DEF EndedMail, Mail
  <2>. HIDE DEF b
  <2>2. /\ other'[a] = b
        /\ \A x \in Actor : x # a => pc'[x] = pc[x] /\ other'[x] = other[x] /\ att'[x] = att[x]
        /\ \A y \in Actor : y # b => Links(a, y)' = Links(a, y)
    BY <1>1, <2>1, RemoveLinkCounts
  <2>3. pc'[a] \in {"exit", "unlink"}
    BY <1>1, <2>1, RemoveLinkCounts
  <2>4. OwnUnlinks'
    <3>1. ASSUME NEW x \in Actor, pc'[x] = "unlink"
          PROVE  other'[x] \in Actor \ {x} /\ (x \in Unlinker \/ terminated'[other'[x]])
      BY <1>1, <2>1, <2>2, <3>1 DEF LInv, OwnUnlinks
    <3>. QED
      BY <3>1 DEF OwnUnlinks
  <2>5. ASSUME NEW x \in Actor, NEW y \in Actor \ {x}, Paired(x, y)' PROVE Kept(x, y)
    <3>1. CASE x # a
      BY <2>2, <3>1, SameAtt DEF Kept, Attaching, Unlinking
    <3>2. CASE x = a
      <4>1. y # b
        BY <1>1, <2>1, <2>5 DEF Paired
      <4>2. Attaching(x, y)' = Attaching(x, y) /\ Unlinking(x, y)' = Unlinking(x, y)
        BY <1>1, <2>2, <2>3, <3>2, <4>1 DEF Attaching, Unlinking
      <4>. QED
        BY <2>2, <3>2, <4>1, <4>2 DEF Kept
    <3>. QED
      BY <3>1, <3>2
  <2>6. AllBalanced'
    BY <1>2, <2>5, NoPair DEF LInv
  <2>. QED
    BY <1>4, <2>4, <2>6
<1>. QED
  BY <1>5, <1>6

LEMMA LNext == LInv /\ [Next]_vars => LInv'
<1>. SUFFICES ASSUME LInv, [Next]_vars PROVE LInv'
  OBVIOUS
<1>1. IInv'
  BY NextIInv DEF LInv
<1>2. CASE ProgramBegins \/ ProgramGoesOn \/ UNCHANGED vars
  BY <1>1, <1>2, AwayFromLinks DEF ProgramBegins, ProgramGoesOn, LInv
<1>3. ASSUME NEW a \in Actor, ActorBegins(a) PROVE LInv'
  BY <1>1, <1>3, EndingBalanced, EndingMail, MonitoringAway, UnlinkBalanced DEF ActorBegins, LInv
<1>4. ASSUME NEW a \in Actor, ActorGoesOn(a) PROVE LInv'
  BY <1>1, <1>4, BacklinkBalanced, AttachLinkBalanced, RemoveBacklinkBalanced, ReadMessageBalanced,
     EndingBalanced, EndingMail, WalkMail DEF ActorGoesOn, LInv
<1>. QED
  BY <1>2, <1>3, <1>4 DEF Next

(* monitorable_actor's link_to and unlink_from: whatever calls of two      *)
(* actors cross, once both are at rest each has one link to the other or   *)
(* neither has, unless both unlink on their own account.                   *)
THEOREM LifecycleLinksAgree == Spec => []LinksAgree
<1>1. LInv /\ [Next]_vars => LInv'
  BY LNext
<1>. QED
  BY <1>1, LInit, LImplied, PTL DEF Spec
=============================================================================
