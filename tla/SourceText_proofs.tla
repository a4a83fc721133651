-------------------------- MODULE SourceText_proofs --------------------------
(***************************************************************************)
(* Theorems of SourceText and Grounding, for pages and quotes of any       *)
(* length, any letters and any caps.                                       *)
(***************************************************************************)
EXTENDS SourceText, FiniteSetTheorems, SequenceTheorems, TLAPS

----------------------------------------------------------------------------
(* Numbers and sets of numbers *)

\* A set of natural numbers that is not empty has a least one.
LEMMA LeastNumber ==
    ASSUME NEW S \in SUBSET Nat, S # {}
    PROVE  \E m \in S : \A x \in S : m <= x
<1>1. \E m \in S : \A x \in S : ~(<<x, m>> \in OpToRel(<, Nat))
  BY NatLessThanWellFounded, WFMin
<1>2. PICK m \in S : \A x \in S : ~(<<x, m>> \in OpToRel(<, Nat))
  BY <1>1
<1>3. \A x \in S : ~(x < m)
  BY <1>2 DEF OpToRel
<1> QED BY <1>3

\* Min is the least number of a set.
LEMMA MinProperties ==
    ASSUME NEW S \in SUBSET Nat, S # {}
    PROVE  Min(S) \in S /\ \A x \in S : Min(S) <= x
BY LeastNumber DEF Min

\* And Max the greatest one, if the set has a bound.
LEMMA MaxProperties ==
    ASSUME NEW n \in Nat, NEW S \in SUBSET (0..n), S # {}
    PROVE  Max(S) \in S /\ \A x \in S : x <= Max(S)
<1> DEFINE D == {n - x : x \in S}
<1>1. D \in SUBSET Nat /\ D # {}
  <2>1. \A x \in S : n - x \in Nat
    OBVIOUS
  <2>2. \E x \in S : TRUE
    OBVIOUS
  <2> QED BY <2>1, <2>2
<1>2. PICK m \in D : \A x \in D : m <= x
  BY <1>1, LeastNumber
<1>3. PICK y \in S : m = n - y
  BY <1>2
<1>6. \A x \in S : n - y <= n - x
  BY <1>2, <1>3
<1>4. \E z \in S : \A x \in S : z >= x
  BY <1>6
<1>5. Max(S) \in S /\ \A x \in S : Max(S) >= x
  BY <1>4 DEF Max
<1> QED BY <1>5

\* The place of p in a set of numbers, from the least one.
Rank(S, p) == Cardinality({q \in S : q <= p})

\* Nth numbers a finite set from its least number on, without gaps.
LEMMA NthProperties ==
    ASSUME NEW n \in Nat, NEW S \in SUBSET (0..n)
    PROVE  /\ IsFiniteSet(S) /\ Cardinality(S) \in Nat
           /\ \A p \in S : Rank(S, p) \in 1..Cardinality(S)
                              /\ Nth(S, Rank(S, p)) = p
           /\ \A k \in 1..Cardinality(S) : Nth(S, k) \in S
                                              /\ Rank(S, Nth(S, k)) = k
           /\ \A p, q \in S : p < q <=> Rank(S, p) < Rank(S, q)
<1>0. \A x \in S : x \in Nat
  OBVIOUS
<1>1. IsFiniteSet(S) /\ Cardinality(S) \in Nat
  <2>1. IsFiniteSet(0..n)
    BY FS_Interval
  <2>2. IsFiniteSet(S)
    BY <2>1, FS_Subset
  <2> QED BY <2>2, FS_CardinalityType
<1>2. ASSUME NEW p \in S
      PROVE  IsFiniteSet({q \in S : q <= p}) /\ Rank(S, p) \in 1..Cardinality(S)
  <2> DEFINE below == {q \in S : q <= p}
  <2>1. below \in SUBSET S /\ p \in below
    BY <1>0
  <2>2. IsFiniteSet(below) /\ Cardinality(below) <= Cardinality(S)
    BY <1>1, <2>1, FS_Subset
  <2>3. Cardinality(below) \in Nat /\ Cardinality(below) # 0
    BY <2>1, <2>2, FS_CardinalityType, FS_EmptySet
  <2> QED BY <1>1, <2>2, <2>3 DEF Rank
<1>8. \A p \in S : Rank(S, p) \in Nat
  <2> SUFFICES ASSUME NEW p \in S
               PROVE  Rank(S, p) \in Nat
    OBVIOUS
  <2>1. Rank(S, p) \in 1..Cardinality(S)
    BY <1>2
  <2> QED BY <1>1, <2>1
<1>3. ASSUME NEW p \in S, NEW q \in S, p < q
      PROVE  Rank(S, p) < Rank(S, q)
  <2> DEFINE low == {z \in S : z <= p}
             high == {z \in S : z <= q}
  <2>1. low \in SUBSET high /\ q \in high /\ q \notin low
    <3>1. \A z \in S : z <= p => z <= q
      BY <1>0, <1>3
    <3>2. q <= q /\ ~(q <= p)
      BY <1>0, <1>3
    <3> QED BY <3>1, <3>2
  <2>2. Cardinality(low) <= Cardinality(high) /\ Cardinality(low) # Cardinality(high)
    BY <1>2, <2>1, FS_Subset
  <2>3. Cardinality(low) \in Nat /\ Cardinality(high) \in Nat
    BY <1>2, FS_CardinalityType
  <2> QED BY <2>2, <2>3 DEF Rank
<1>4. \A p, q \in S : p < q <=> Rank(S, p) < Rank(S, q)
  <2> SUFFICES ASSUME NEW p \in S, NEW q \in S
               PROVE  p < q <=> Rank(S, p) < Rank(S, q)
    OBVIOUS
  <2>1. p < q \/ p = q \/ q < p
    BY <1>0
  <2>2. Rank(S, p) \in Nat /\ Rank(S, q) \in Nat
    BY <1>8
  <2>3. CASE p < q
    BY <1>3, <2>3
  <2>4. CASE p = q
    BY <2>2, <2>4
  <2>5. CASE q < p
    <3>1. Rank(S, q) < Rank(S, p)
      BY <1>3, <2>5
    <3> QED BY <1>0, <2>2, <2>5, <3>1
  <2> QED BY <2>1, <2>3, <2>4, <2>5
<1>5. ASSUME NEW k \in 1..Cardinality(S)
      PROVE  \E p \in S : Rank(S, p) = k
  <2> DEFINE f == [p \in S |-> Rank(S, p)]
             places == 1..Cardinality(S)
  <2>1. f \in [S -> places]
    BY <1>2
  <2>2. \A a, b \in S : f[a] = f[b] => a = b
    <3> SUFFICES ASSUME NEW a \in S, NEW b \in S, a # b
                 PROVE  f[a] # f[b]
      OBVIOUS
    <3>1. a < b \/ b < a
      BY <1>0
    <3>2. Rank(S, a) < Rank(S, b) \/ Rank(S, b) < Rank(S, a)
      BY <1>4, <3>1
    <3>3. Rank(S, a) \in Nat /\ Rank(S, b) \in Nat
      BY <1>8
    <3> QED BY <3>2, <3>3
  <2>3. f \in Injection(S, places)
    BY <2>1, <2>2 DEF Injection, IsInjective
  <2>4. IsFiniteSet(places) /\ Cardinality(places) = Cardinality(S)
    BY <1>1, FS_Interval
  <2>5. f \in Surjection(S, places)
    BY <2>3, <2>4, FS_Injection
  <2> QED BY <2>5 DEF Surjection
<1>6. ASSUME NEW k \in 1..Cardinality(S)
      PROVE  Nth(S, k) \in S /\ Rank(S, Nth(S, k)) = k
  BY <1>5 DEF Nth, Rank
<1>7. ASSUME NEW p \in S
      PROVE  Nth(S, Rank(S, p)) = p
  <2> DEFINE z == Nth(S, Rank(S, p))
  <2>1. z \in S /\ Rank(S, z) = Rank(S, p)
    BY <1>2, <1>6
  <2>2. ~(z < p) /\ ~(p < z)
    <3>1. Rank(S, p) \in Nat
      BY <1>8
    <3>2. ~(Rank(S, p) < Rank(S, p))
      BY <3>1
    <3> HIDE DEF z
    <3> QED BY <1>4, <2>1, <3>2
  <2>3. z \in Nat /\ p \in Nat
    BY <1>0, <2>1
  <2> QED BY <2>2, <2>3
<1> QED BY <1>1, <1>2, <1>4, <1>6, <1>7
----------------------------------------------------------------------------
(* Selections *)

\* A property of numbers that 0 has and n + 1 has whenever n does, given as
\* the set of the numbers that have it, is a property of every number.
LEMMA Climb ==
    ASSUME NEW top \in Nat, NEW S, 0 \in S,
           \A n \in 0..top : n \in S /\ n < top => n + 1 \in S
    PROVE  \A n \in 0..top : n \in S
<1> SUFFICES ASSUME NEW m \in 0..top, m \notin S
             PROVE  FALSE
  OBVIOUS
<1> DEFINE missed == {n \in 0..top : n \notin S}
<1>1. missed \in SUBSET Nat /\ missed # {}
  OBVIOUS
<1>2. PICK least \in missed : \A x \in missed : least <= x
  BY <1>1, LeastNumber
<1>3. least \in 0..top /\ least # 0 /\ least \notin S
  BY <1>2
<1>4. least - 1 \in 0..top /\ least - 1 < top /\ least - 1 \notin missed
  BY <1>2, <1>3
<1>5. least - 1 \in S
  BY <1>4
<1>6. least - 1 + 1 \in S
  BY <1>4, <1>5
<1> QED BY <1>3, <1>6

\* f lists the numbers of a set in order.
Lists(f, m, S) ==
    /\ f \in [1..m -> S]
    /\ \A p \in S : \E k \in 1..m : f[k] = p
    /\ \A k, l \in 1..m : k < l => f[k] < f[l]

\* Nth lists a set, ...
LEMMA NthLists ==
    ASSUME NEW n \in Nat, NEW S \in SUBSET (0..n)
    PROVE  /\ Cardinality(S) \in Nat
           /\ Lists([k \in 1..Cardinality(S) |-> Nth(S, k)], Cardinality(S), S)
<1> DEFINE c == Cardinality(S)
           f == [k \in 1..c |-> Nth(S, k)]
<1>1. /\ c \in Nat
      /\ \A p \in S : Rank(S, p) \in 1..c /\ Nth(S, Rank(S, p)) = p
      /\ \A k \in 1..c : Nth(S, k) \in S /\ Rank(S, Nth(S, k)) = k
      /\ \A p, q \in S : p < q <=> Rank(S, p) < Rank(S, q)
  BY NthProperties
<1>2. f \in [1..c -> S]
  BY <1>1
<1>3. \A p \in S : \E k \in 1..c : f[k] = p
  BY <1>1
<1>4. \A k, l \in 1..c : k < l => f[k] < f[l]
  BY <1>1
<1> QED BY <1>1, <1>2, <1>3, <1>4 DEF Lists

\* ... and nothing else does.
LEMMA ListsIsNth ==
    ASSUME NEW n \in Nat, NEW S \in SUBSET (0..n), NEW m \in Nat, NEW f,
           Lists(f, m, S)
    PROVE  Cardinality(S) = m /\ \A k \in 1..m : Nth(S, k) = f[k]
<1>0. /\ f \in [1..m -> S]
      /\ \A p \in S : \E k \in 1..m : f[k] = p
      /\ \A k, l \in 1..m : k < l => f[k] < f[l]
  BY DEF Lists
<1>1. \A k \in 1..m : f[k] \in S /\ f[k] \in 0..n
  BY <1>0
<1>2. \A k, l \in 1..m : f[k] <= f[l] => k <= l
  <2> SUFFICES ASSUME NEW k \in 1..m, NEW l \in 1..m, l < k
               PROVE  ~(f[k] <= f[l])
    OBVIOUS
  <2>1. f[l] < f[k]
    BY <1>0
  <2> QED BY <1>1, <2>1
<1>3. \A k, l \in 1..m : f[k] = f[l] => k = l
  <2> SUFFICES ASSUME NEW k \in 1..m, NEW l \in 1..m, f[k] = f[l]
               PROVE  k = l
    OBVIOUS
  <2>1. f[k] <= f[l] /\ f[l] <= f[k]
    BY <1>1
  <2>2. k <= l /\ l <= k
    BY <1>2, <2>1
  <2> QED BY <2>2
<1>4. ASSUME NEW k \in 0..m
      PROVE  Cardinality({q \in S : \E l \in 1..k : f[l] = q}) = k
  <2> DEFINE T == {q \in S : \E l \in 1..k : f[l] = q}
             g == [l \in 1..k |-> f[l]]
  <2>1. g \in [1..k -> T]
    BY <1>1
  <2>2. \A a, b \in 1..k : g[a] = g[b] => a = b
    BY <1>3
  <2>3. \A q \in T : \E l \in 1..k : g[l] = q
    OBVIOUS
  <2>4. g \in Bijection(1..k, T)
    BY <2>1, <2>2, <2>3 DEF Bijection, Injection, Surjection, IsInjective
  <2>5. IsFiniteSet(1..k) /\ Cardinality(1..k) = k
    BY FS_Interval
  <2>6. ExistsBijection(1..k, T)
    BY <2>4 DEF ExistsBijection
  <2>7. Cardinality(T) = Cardinality(1..k)
    BY <2>5, <2>6, FS_SameCardinalityBij, FS_Bijection
  <2> QED BY <2>5, <2>7
<1>5. Cardinality(S) = m
  <2>1. {q \in S : \E l \in 1..m : f[l] = q} = S
    BY <1>0
  <2>2. m \in 0..m
    OBVIOUS
  <2> QED BY <1>4, <2>1, <2>2
<1>6. ASSUME NEW k \in 1..m
      PROVE  Nth(S, k) = f[k]
  <2>1. {q \in S : q <= f[k]} = {q \in S : \E l \in 1..k : f[l] = q}
    <3>1. ASSUME NEW q \in S, q <= f[k]
          PROVE  \E l \in 1..k : f[l] = q
      <4>1. PICK l \in 1..m : f[l] = q
        BY <1>0
      <4>2. l <= k
        BY <1>2, <3>1, <4>1
      <4> QED BY <4>1, <4>2
    <3>2. ASSUME NEW q \in S, NEW l \in 1..k, f[l] = q
          PROVE  q <= f[k]
      <4>1. l = k \/ l < k
        OBVIOUS
      <4>2. l \in 1..m
        OBVIOUS
      <4> QED BY <1>0, <1>1, <3>2, <4>1, <4>2
    <3> QED BY <3>1, <3>2
  <2>2. k \in 0..m
    OBVIOUS
  <2>3. Rank(S, f[k]) = k
    BY <1>4, <2>1, <2>2 DEF Rank
  <2>4. f[k] \in S
    BY <1>1
  <2>5. Nth(S, Rank(S, f[k])) = f[k]
    BY <2>4, NthProperties
  <2> QED BY <2>3, <2>5
<1> QED BY <1>5, <1>6

\* A selection of a text: the symbols at the numbers that some f lists.
LEMMA SelectedType ==
    ASSUME NEW X, NEW s \in Seq(X), NEW S \in SUBSET (1..Len(s))
    PROVE  LET m == Len(Selected(s, S))
           IN  /\ Selected(s, S) \in Seq(X)
               /\ m \in Nat /\ m = Cardinality(S)
               /\ \E f : Lists(f, m, S)
                            /\ \A k \in 1..m : Selected(s, S)[k] = s[f[k]]
               /\ \A k \in 1..m : Nth(S, k) \in S /\ Selected(s, S)[k] = s[Nth(S, k)]
<1> DEFINE c == Cardinality(S)
           f == [k \in 1..c |-> Nth(S, k)]
<1>1. Len(s) \in Nat /\ \A p \in 1..Len(s) : s[p] \in X
  BY LenProperties, ElementOfSeq
<1>2. S \in SUBSET (0..Len(s))
  BY <1>1
<1>3. c \in Nat /\ Lists(f, c, S)
  BY <1>1, <1>2, NthLists
<1>4. \A k \in 1..c : Nth(S, k) \in S
  BY <1>3 DEF Lists
<1>5. Selected(s, S) = [k \in 1..c |-> s[Nth(S, k)]]
  BY DEF Selected
<1>6. Selected(s, S) \in Seq(X) /\ Len(Selected(s, S)) = c
  <2>1. \A k \in 1..c : s[Nth(S, k)] \in X
    BY <1>1, <1>4
  <2> HIDE DEF c
  <2> QED BY <1>3, <1>5, <2>1
<1>7. \A k \in 1..c : Selected(s, S)[k] = s[f[k]]
  BY <1>5
<1> QED BY <1>3, <1>4, <1>5, <1>6, <1>7

\* Two texts are equal that are so symbol by symbol.
LEMMA SameText ==
    ASSUME NEW X, NEW s \in Seq(X), NEW t \in Seq(X), Len(s) = Len(t),
           \A k \in 1..Len(s) : s[k] = t[k]
    PROVE  s = t
BY SeqEqual

\* A text that has the symbols at the numbers that f lists is the selection.
LEMMA SelectionIs ==
    ASSUME NEW X, NEW s \in Seq(X), NEW S \in SUBSET (1..Len(s)),
           NEW t \in Seq(X), NEW f, Lists(f, Len(t), S),
           \A k \in 1..Len(t) : t[k] = s[f[k]]
    PROVE  Selected(s, S) = t
<1>1. Len(s) \in Nat /\ Len(t) \in Nat
  BY LenProperties
<1>2. S \in SUBSET (0..Len(s))
  BY <1>1
<1>3. Cardinality(S) = Len(t) /\ \A k \in 1..Len(t) : Nth(S, k) = f[k]
  <2> DEFINE n == Len(s)
             m == Len(t)
  <2>1. n \in Nat /\ m \in Nat
    BY <1>1
  <2>2. S \in SUBSET (0..n) /\ Lists(f, m, S)
    BY <1>2
  <2> HIDE DEF n, m
  <2>3. Cardinality(S) = m /\ \A k \in 1..m : Nth(S, k) = f[k]
    BY <2>1, <2>2, ListsIsNth, ZenonT(30)
  <2> QED BY <2>3 DEF m
<1>4. /\ Selected(s, S) \in Seq(X) /\ Len(Selected(s, S)) = Cardinality(S)
      /\ \A k \in 1..Len(Selected(s, S)) : Selected(s, S)[k] = s[Nth(S, k)]
  BY SelectedType, SMTT(30)
<1>5. \A k \in 1..Len(t) : Selected(s, S)[k] = t[k]
  BY <1>3, <1>4
<1> QED BY <1>3, <1>4, <1>5, SameText

\* All of a text.
LEMMA SelectedAll ==
    ASSUME NEW X, NEW s \in Seq(X)
    PROVE  Selected(s, 1..Len(s)) = s
<1> DEFINE f == [k \in 1..Len(s) |-> k]
<1>1. Lists(f, Len(s), 1..Len(s)) /\ \A k \in 1..Len(s) : s[k] = s[f[k]]
  BY LenProperties DEF Lists
<1> HIDE DEF f
<1> QED BY <1>1, SelectionIs

\* The symbols of a text that is joined of two.
LEMMA ConcatSymbols ==
    ASSUME NEW X, NEW a \in Seq(X), NEW b \in Seq(X)
    PROVE  /\ a \o b \in Seq(X)
           /\ Len(a) \in Nat /\ Len(b) \in Nat /\ Len(a \o b) = Len(a) + Len(b)
           /\ \A k \in 1..Len(a) : (a \o b)[k] = a[k]
           /\ \A k \in 1..Len(b) : (a \o b)[Len(a) + k] = b[k]
<1>1. /\ Len(a) \in Nat /\ Len(b) \in Nat /\ Len(a \o b) = Len(a) + Len(b)
      /\ a \o b \in Seq(X)
      /\ \A k \in 1..(Len(a) + Len(b)) :
            (a \o b)[k] = IF k <= Len(a) THEN a[k] ELSE b[k - Len(a)]
  BY LenProperties, ConcatProperties
<1>2. \A k \in 1..Len(b) : /\ Len(a) + k \in 1..(Len(a) + Len(b))
                           /\ ~(Len(a) + k <= Len(a)) /\ Len(a) + k - Len(a) = k
  BY <1>1
<1>3. \A k \in 1..Len(a) : k \in 1..(Len(a) + Len(b)) /\ k <= Len(a)
  BY <1>1
<1> QED BY <1>1, <1>2, <1>3

\* The symbols of a part of a text.
LEMMA PartSymbols ==
    ASSUME NEW X, NEW s \in Seq(X), NEW a \in 1..Len(s) + 1, NEW b \in 0..Len(s)
    PROVE  /\ SubSeq(s, a, b) \in Seq(X) /\ Len(s) \in Nat
           /\ Len(SubSeq(s, a, b)) = IF a <= b THEN b - a + 1 ELSE 0
           /\ \A k \in 1..b - a + 1 : SubSeq(s, a, b)[k] = s[a + k - 1]
           /\ \A p \in a..b : SubSeq(s, a, b)[p - a + 1] = s[p]
<1>1. Len(s) \in Nat /\ \A p \in 1..Len(s) : s[p] \in X
  BY LenProperties
<1>2. \A p \in a..b : s[p] \in X
  BY <1>1
<1>3. /\ SubSeq(s, a, b) \in Seq(X)
      /\ Len(SubSeq(s, a, b)) = IF a <= b THEN b - a + 1 ELSE 0
      /\ \A k \in 1..b - a + 1 : SubSeq(s, a, b)[k] = s[a + k - 1]
  BY <1>1, <1>2, SubSeqProperties
<1>4. \A p \in a..b : p - a + 1 \in 1..b - a + 1 /\ a + (p - a + 1) - 1 = p
  BY <1>1
<1> QED BY <1>1, <1>3, <1>4

\* The positions S of two texts of m and n symbols that are joined are A in
\* the first and B in the second.
Joint(S, m, A, n, B) ==
    /\ S \in SUBSET (1..m + n) /\ A \in SUBSET (1..m) /\ B \in SUBSET (1..n)
    /\ \A p \in 1..m : p \in S <=> p \in A
    /\ \A q \in 1..n : m + q \in S <=> q \in B

\* A selection of two texts that are joined.
LEMMA SelectedConcat ==
    ASSUME NEW X, NEW a \in Seq(X), NEW b \in Seq(X), NEW A, NEW B, NEW S,
           Joint(S, Len(a), A, Len(b), B)
    PROVE  Selected(a \o b, S) = Selected(a, A) \o Selected(b, B)
<1>0. /\ S \in SUBSET (1..Len(a) + Len(b))
      /\ A \in SUBSET (1..Len(a)) /\ B \in SUBSET (1..Len(b))
      /\ \A p \in 1..Len(a) : p \in S <=> p \in A
      /\ \A q \in 1..Len(b) : Len(a) + q \in S <=> q \in B
  BY DEF Joint
<1> DEFINE sa == Selected(a, A)
           sb == Selected(b, B)
           m == Len(sa)
<1>1. /\ a \o b \in Seq(X)
      /\ Len(a) \in Nat /\ Len(b) \in Nat /\ Len(a \o b) = Len(a) + Len(b)
      /\ \A k \in 1..Len(a) : (a \o b)[k] = a[k]
      /\ \A k \in 1..Len(b) : (a \o b)[Len(a) + k] = b[k]
  BY ConcatSymbols
<1>2. /\ sa \in Seq(X) /\ m \in Nat
      /\ \E f : Lists(f, m, A) /\ \A k \in 1..m : sa[k] = a[f[k]]
  BY <1>0, SelectedType
<1>3. /\ sb \in Seq(X) /\ Len(sb) \in Nat
      /\ \E f : Lists(f, Len(sb), B) /\ \A k \in 1..Len(sb) : sb[k] = b[f[k]]
  BY <1>0, SelectedType
<1>4. PICK f : Lists(f, m, A) /\ \A k \in 1..m : sa[k] = a[f[k]]
  BY <1>2
<1>5. PICK g : Lists(g, Len(sb), B) /\ \A k \in 1..Len(sb) : sb[k] = b[g[k]]
  BY <1>3
<1> DEFINE h == [k \in 1..(m + Len(sb)) |-> IF k <= m THEN f[k] ELSE Len(a) + g[k - m]]
<1>6. \A k \in 1..m : f[k] \in A /\ f[k] \in 1..Len(a)
  BY <1>0, <1>4 DEF Lists
<1>7. \A k \in 1..Len(sb) : g[k] \in B /\ g[k] \in 1..Len(b)
  BY <1>0, <1>5 DEF Lists
<1> HIDE DEF m, sa, sb
<1>8. \A k \in 1..(m + Len(sb)) :
         \/ k \in 1..m /\ h[k] = f[k]
         \/ k - m \in 1..Len(sb) /\ k > m /\ h[k] = Len(a) + g[k - m]
  BY <1>2, <1>3
<1>9. Lists(h, m + Len(sb), S)
  <2>1. \A k \in 1..(m + Len(sb)) : h[k] \in S
    BY <1>0, <1>1, <1>6, <1>7, <1>8
  <2>2. ASSUME NEW p \in A
        PROVE  \E k \in 1..(m + Len(sb)) : h[k] = p
    <3>1. PICK k \in 1..m : f[k] = p
      BY <1>4 DEF Lists
    <3>2. k \in 1..(m + Len(sb)) /\ k <= m
      BY <1>2, <1>3
    <3> QED BY <3>1, <3>2
  <2>3. ASSUME NEW q \in B
        PROVE  \E k \in 1..(m + Len(sb)) : h[k] = Len(a) + q
    <3>1. PICK k \in 1..Len(sb) : g[k] = q
      BY <1>5 DEF Lists
    <3>2. m + k \in 1..(m + Len(sb)) /\ ~(m + k <= m) /\ m + k - m = k
      BY <1>2, <1>3
    <3>3. h[m + k] = Len(a) + g[k]
      <4> DEFINE x == m + k
      <4>1. x \in 1..(m + Len(sb)) /\ ~(x \in 1..m) /\ x - m = k
        BY <1>2, <1>3, <3>2
      <4> HIDE DEF h, x
      <4>2. h[x] = Len(a) + g[x - m]
        BY <1>8, <4>1
      <4> QED BY <4>1, <4>2 DEF x
    <3> HIDE DEF h
    <3> QED BY <3>1, <3>2, <3>3
  <2>4. ASSUME NEW k \in 1..(m + Len(sb)), NEW l \in 1..(m + Len(sb)), k < l
        PROVE  h[k] < h[l]
    <3>1. \A x, y \in 1..m : x < y => f[x] < f[y]
      BY <1>4 DEF Lists
    <3>2. \A x, y \in 1..Len(sb) : x < y => g[x] < g[y]
      BY <1>5 DEF Lists
    <3>3. CASE l \in 1..m
      <4>1. k \in 1..m
        BY <1>2, <2>4, <3>3
      <4> QED BY <1>2, <2>4, <3>1, <3>3, <4>1
    <3>4. CASE l \notin 1..m /\ k \in 1..m
      <4>1. l - m \in 1..Len(sb) /\ h[l] = Len(a) + g[l - m]
        BY <1>8, <3>4
      <4>2. h[k] = f[k] /\ f[k] <= Len(a)
        <5>1. k \in 1..m /\ k <= m
          BY <1>2, <3>4
        <5>2. h[k] = f[k]
          BY <5>1
        <5> HIDE DEF h
        <5>3. f[k] \in 1..Len(a)
          BY <1>6, <5>1
        <5> QED BY <1>1, <5>2, <5>3
      <4>3. g[l - m] \in 1..Len(b)
        BY <1>7, <4>1
      <4> HIDE DEF h
      <4> QED BY <1>1, <1>6, <3>4, <4>1, <4>2, <4>3
    <3>5. CASE k \notin 1..m
      <4>1. l - m \in 1..Len(sb) /\ k - m \in 1..Len(sb)
               /\ h[k] = Len(a) + g[k - m] /\ h[l] = Len(a) + g[l - m]
        BY <1>2, <1>3, <1>8, <2>4, <3>5
      <4>2. k - m < l - m
        BY <1>2, <1>3, <2>4
      <4>3. g[k - m] < g[l - m] /\ g[k - m] \in Nat /\ g[l - m] \in Nat
        BY <1>7, <3>2, <4>1, <4>2
      <4> HIDE DEF h
      <4> QED BY <1>1, <4>1, <4>3
    <3> QED BY <3>3, <3>4, <3>5
  <2>5. h \in [1..(m + Len(sb)) -> S]
    BY <2>1
  <2>6. ASSUME NEW p \in S
        PROVE  \E k \in 1..(m + Len(sb)) : h[k] = p
    <3> HIDE DEF h
    <3>1. CASE p \in 1..Len(a)
      BY <1>0, <2>2, <3>1
    <3>2. CASE p \notin 1..Len(a)
      <4> DEFINE q == p - Len(a)
      <4>1. q \in 1..Len(b) /\ Len(a) + q = p
        BY <1>0, <1>1, <3>2
      <4> HIDE DEF q
      <4>2. q \in B
        BY <1>0, <4>1
      <4> QED BY <2>3, <4>1, <4>2
    <3> QED BY <3>1, <3>2
  <2> HIDE DEF h
  <2> QED BY <2>4, <2>5, <2>6 DEF Lists
<1>10. S \in SUBSET (1..Len(a \o b))
  BY <1>0, <1>1
<1>12. /\ sa \o sb \in Seq(X) /\ Len(sa \o sb) = m + Len(sb)
       /\ \A k \in 1..m : (sa \o sb)[k] = sa[k]
       /\ \A k \in 1..Len(sb) : (sa \o sb)[m + k] = sb[k]
  BY <1>2, <1>3, ConcatSymbols DEF m
<1>13. \A k \in 1..(m + Len(sb)) : (a \o b)[h[k]] = (sa \o sb)[k]
  <2> SUFFICES ASSUME NEW k \in 1..(m + Len(sb))
               PROVE  (a \o b)[h[k]] = (sa \o sb)[k]
    OBVIOUS
  <2>1. CASE k \in 1..m
    <3>1. h[k] = f[k]
      BY <1>2, <1>8, <2>1
    <3> QED BY <1>1, <1>4, <1>6, <1>12, <2>1, <3>1
  <2>2. CASE k \notin 1..m
    <3>1. k - m \in 1..Len(sb) /\ h[k] = Len(a) + g[k - m] /\ m + (k - m) = k
      BY <1>2, <1>3, <1>8, <2>2
    <3>2. (a \o b)[Len(a) + g[k - m]] = b[g[k - m]]
      BY <1>1, <1>7, <3>1
    <3>3. (sa \o sb)[m + (k - m)] = sb[k - m]
      BY <1>12, <3>1
    <3> QED BY <1>5, <3>1, <3>2, <3>3
  <2> QED BY <2>1, <2>2
<1> HIDE DEF h
<1>14. Selected(a \o b, S) = sa \o sb
  <2> DEFINE t == a \o b
             u == sa \o sb
  <2>1. /\ t \in Seq(X) /\ S \in SUBSET (1..Len(t)) /\ u \in Seq(X)
        /\ Lists(h, Len(u), S) /\ \A k \in 1..Len(u) : u[k] = t[h[k]]
    BY <1>1, <1>9, <1>10, <1>12, <1>13
  <2> HIDE DEF t, u
  <2>2. Selected(t, S) = u
    BY <2>1, SelectionIs
  <2> QED BY <2>2 DEF t, u
<1> QED BY <1>14 DEF sa, sb

\* The positions S of a text are T in its part from a to b.
Shifted(T, a, b, S) ==
    /\ S \in SUBSET (a..b) /\ T \in SUBSET (1..b - a + 1)
    /\ \A p \in a..b : p - a + 1 \in T <=> p \in S

\* A selection of a part of a text.
LEMMA SelectedOfPart ==
    ASSUME NEW X, NEW s \in Seq(X), NEW a \in 1..Len(s) + 1, NEW b \in 0..Len(s),
           NEW S, NEW T, Shifted(T, a, b, S)
    PROVE  Selected(SubSeq(s, a, b), T) = Selected(s, S)
<1>0. /\ S \in SUBSET (a..b) /\ T \in SUBSET (1..b - a + 1)
      /\ \A p \in a..b : p - a + 1 \in T <=> p \in S
  BY DEF Shifted
<1> DEFINE part == SubSeq(s, a, b)
           t == Selected(s, S)
<1>1. /\ part \in Seq(X) /\ Len(s) \in Nat
      /\ Len(part) = IF a <= b THEN b - a + 1 ELSE 0
      /\ \A p \in a..b : part[p - a + 1] = s[p]
  BY PartSymbols
<1>2. a \in Nat /\ b \in Nat /\ S \in SUBSET (1..Len(s))
  BY <1>0, <1>1
<1>3. T \in SUBSET (1..Len(part))
  <2> HIDE DEF part
  <2> QED BY <1>0, <1>1, <1>2
<1>4. /\ t \in Seq(X) /\ Len(t) \in Nat
      /\ \E f : Lists(f, Len(t), S) /\ \A k \in 1..Len(t) : t[k] = s[f[k]]
  BY <1>2, SelectedType
<1>5. PICK f : Lists(f, Len(t), S) /\ \A k \in 1..Len(t) : t[k] = s[f[k]]
  BY <1>4
<1> DEFINE g == [k \in 1..Len(t) |-> f[k] - a + 1]
<1> HIDE DEF t, part
<1>6. \A k \in 1..Len(t) : f[k] \in S /\ f[k] \in a..b
  BY <1>0, <1>5 DEF Lists
<1>7. Lists(g, Len(t), T)
  <2>1. g \in [1..Len(t) -> T]
    BY <1>0, <1>6
  <2>2. ASSUME NEW p \in S
        PROVE  \E k \in 1..Len(t) : g[k] = p - a + 1
    <3>1. PICK k \in 1..Len(t) : f[k] = p
      BY <1>5 DEF Lists
    <3> QED BY <3>1
  <2>3. ASSUME NEW q \in T
        PROVE  \E k \in 1..Len(t) : g[k] = q
    <3> DEFINE p == q + a - 1
    <3>1. p \in a..b /\ p - a + 1 = q
      BY <1>0, <1>2
    <3> HIDE DEF g, p
    <3>2. p \in S
      BY <1>0, <3>1
    <3> QED BY <2>2, <3>1, <3>2
  <2>4. ASSUME NEW k \in 1..Len(t), NEW l \in 1..Len(t), k < l
        PROVE  g[k] < g[l]
    <3>1. f[k] < f[l]
      BY <1>5, <2>4 DEF Lists
    <3> QED BY <1>2, <1>6, <3>1
  <2> HIDE DEF g
  <2> QED BY <2>1, <2>3, <2>4 DEF Lists
<1>8. \A k \in 1..Len(t) : t[k] = part[g[k]]
  <2> SUFFICES ASSUME NEW k \in 1..Len(t)
               PROVE  t[k] = part[f[k] - a + 1]
    OBVIOUS
  <2>1. part[f[k] - a + 1] = s[f[k]]
    BY <1>1, <1>6
  <2> QED BY <1>5, <2>1
<1> HIDE DEF g
<1>9. Selected(part, T) = t
  <2>1. part \in Seq(X) /\ T \in SUBSET (1..Len(part)) /\ t \in Seq(X)
    BY <1>1, <1>3, <1>4
  <2> QED BY <1>7, <1>8, <2>1, SelectionIs
<1> QED BY <1>9 DEF t, part

\* A selection in two sets of which one precedes the other.
LEMMA SelectedUnion ==
    ASSUME NEW X, NEW s \in Seq(X), NEW n \in 0..Len(s),
           NEW P \in SUBSET (1..n), NEW Q \in SUBSET (n + 1..Len(s))
    PROVE  Selected(s, P \cup Q) = Selected(s, P) \o Selected(s, Q)
<1> DEFINE a == SubSeq(s, 1, n)
           b == SubSeq(s, n + 1, Len(s))
           R == {r \in 1..Len(s) - n : n + r \in Q}
<1>1. Len(s) \in Nat /\ n \in Nat /\ n <= Len(s)
  BY LenProperties
<1>2. /\ 1 \in 1..Len(s) + 1 /\ n + 1 \in 1..Len(s) + 1
      /\ Len(s) \in 0..Len(s)
  BY <1>1
<1>3. /\ a \in Seq(X) /\ Len(a) = n /\ \A p \in 1..n : a[p - 1 + 1] = s[p]
  <2>1. Len(a) = IF 1 <= n THEN n - 1 + 1 ELSE 0
    BY <1>2, PartSymbols
  <2> QED BY <1>1, <1>2, <2>1, PartSymbols
<1>4. /\ b \in Seq(X) /\ Len(b) = Len(s) - n
      /\ \A p \in n + 1..Len(s) : b[p - (n + 1) + 1] = s[p]
  <2>1. Len(b) = IF n + 1 <= Len(s) THEN Len(s) - (n + 1) + 1 ELSE 0
    BY <1>2, PartSymbols
  <2> QED BY <1>1, <1>2, <2>1, PartSymbols
<1>5. \A p \in 1..n : p - 1 + 1 = p
  BY <1>1
<1>6. n - 1 + 1 = n /\ Len(s) - (n + 1) + 1 = Len(s) - n
  BY <1>1
<1>7. Selected(a, P) = Selected(s, P)
  <2>1. P \in SUBSET (1..n - 1 + 1) /\ n \in 0..Len(s)
    BY <1>6
  <2>2. \A p \in 1..n : p - 1 + 1 \in P <=> p \in P
    BY <1>5
  <2>3. Shifted(P, 1, n, P)
    BY <2>1, <2>2 DEF Shifted
  <2> QED BY <1>2, <2>1, <2>3, SelectedOfPart
<1>8. Selected(b, R) = Selected(s, Q)
  <2>1. R \in SUBSET (1..Len(s) - (n + 1) + 1)
    BY <1>6
  <2>2. ASSUME NEW p \in n + 1..Len(s)
        PROVE  p - (n + 1) + 1 \in R <=> p \in Q
    <3>1. p - (n + 1) + 1 \in 1..Len(s) - n /\ n + (p - (n + 1) + 1) = p
      BY <1>1
    <3> QED BY <3>1
  <2> HIDE DEF R
  <2>3. Shifted(R, n + 1, Len(s), Q)
    BY <2>1, <2>2 DEF Shifted
  <2> QED BY <1>2, <2>3, SelectedOfPart
<1>10. R \in SUBSET (1..Len(b)) /\ P \in SUBSET (1..Len(a))
  BY <1>3, <1>4
<1>12. a \o b = s
  <2> HIDE DEF a, b
  <2>1. /\ a \o b \in Seq(X) /\ Len(a \o b) = Len(a) + Len(b)
        /\ \A k \in 1..Len(a) : (a \o b)[k] = a[k]
        /\ \A k \in 1..Len(b) : (a \o b)[Len(a) + k] = b[k]
    BY <1>3, <1>4, ConcatSymbols
  <2>2. Len(a \o b) = Len(s)
    BY <1>1, <1>3, <1>4, <2>1
  <2>3. ASSUME NEW k \in 1..Len(s)
        PROVE  (a \o b)[k] = s[k]
    <3>1. CASE k <= n
      BY <1>1, <1>3, <2>1, <3>1
    <3>2. CASE ~(k <= n)
      <4>1. k \in n + 1..Len(s) /\ k - (n + 1) + 1 \in 1..Len(b)
               /\ Len(a) + (k - (n + 1) + 1) = k
        BY <1>1, <1>3, <1>4, <3>2
      <4>2. (a \o b)[Len(a) + (k - (n + 1) + 1)] = b[k - (n + 1) + 1]
        BY <2>1, <4>1
      <4> QED BY <1>4, <4>1, <4>2
    <3> QED BY <3>1, <3>2
  <2> QED BY <2>1, <2>2, <2>3, SameText
<1> HIDE DEF a, b, R
<1>13. Selected(a \o b, P \cup Q) = Selected(a, P) \o Selected(b, R)
  <2> DEFINE S == P \cup Q
  <2>1. /\ a \in Seq(X) /\ b \in Seq(X)
        /\ P \in SUBSET (1..Len(a)) /\ R \in SUBSET (1..Len(b))
    BY <1>3, <1>4, <1>10
  <2>2. S \in SUBSET (1..Len(a) + Len(b))
    BY <1>1, <1>3, <1>4
  <2>3. \A p \in 1..Len(a) : p \in S <=> p \in P
    BY <1>1, <1>3
  <2>4. \A r \in 1..Len(b) : Len(a) + r \in S <=> r \in R
    <3> SUFFICES ASSUME NEW r \in 1..Len(b)
                 PROVE  n + r \in S <=> r \in R
      BY <1>3
    <3>1. r \in 1..Len(s) - n /\ n + r \notin P
      BY <1>1, <1>4
    <3> QED BY <3>1 DEF R
  <2> HIDE DEF S
  <2>5. Selected(a \o b, S) = Selected(a, P) \o Selected(b, R)
    <3>1. Joint(S, Len(a), P, Len(b), R)
      BY <2>1, <2>2, <2>3, <2>4 DEF Joint
    <3> QED BY <2>1, <3>1, SelectedConcat
  <2> QED BY <2>5 DEF S
<1> QED BY <1>7, <1>8, <1>12, <1>13

\* A selection of a selection.
LEMMA SelectedTwice ==
    ASSUME NEW X, NEW s \in Seq(X), NEW P \in SUBSET (1..Len(s)),
           NEW Q \in SUBSET (1..Len(Selected(s, P)))
    PROVE  Selected(Selected(s, P), Q) = Selected(s, {Nth(P, k) : k \in Q})
<1> DEFINE t == Selected(s, P)
           m == Len(t)
           u == Selected(t, Q)
           S == {Nth(P, k) : k \in Q}
<1>1. /\ t \in Seq(X) /\ m \in Nat /\ m = Cardinality(P)
      /\ \A k \in 1..m : Nth(P, k) \in P /\ t[k] = s[Nth(P, k)]
  BY SelectedType
<1>2. \A k, l \in 1..m : k < l => Nth(P, k) < Nth(P, l)
  <2> DEFINE f == [k \in 1..m |-> Nth(P, k)]
  <2>1. Len(s) \in Nat /\ P \in SUBSET (0..Len(s))
    BY LenProperties
  <2>2. Lists(f, m, P)
    <3>1. Lists([k \in 1..Cardinality(P) |-> Nth(P, k)], Cardinality(P), P)
      BY <2>1, NthLists
    <3> QED BY <1>1, <3>1
  <2>3. \A k, l \in 1..m : k < l => f[k] < f[l]
    <3> HIDE DEF f
    <3> QED BY <2>2 DEF Lists
  <2> QED BY <2>3
<1> HIDE DEF t
<1>3. /\ u \in Seq(X) /\ Len(u) \in Nat
      /\ \E g : Lists(g, Len(u), Q) /\ \A k \in 1..Len(u) : u[k] = t[g[k]]
  BY <1>1, SelectedType DEF t
<1>4. PICK g : Lists(g, Len(u), Q) /\ \A k \in 1..Len(u) : u[k] = t[g[k]]
  BY <1>3
<1> DEFINE h == [k \in 1..Len(u) |-> Nth(P, g[k])]
<1> HIDE DEF u
<1>5. \A k \in 1..Len(u) : g[k] \in Q /\ g[k] \in 1..m
  BY <1>4 DEF Lists, t
<1>6. Lists(h, Len(u), S)
  <2>1. h \in [1..Len(u) -> S]
    BY <1>5
  <2>2. ASSUME NEW q \in Q
        PROVE  \E k \in 1..Len(u) : h[k] = Nth(P, q)
    <3>1. PICK k \in 1..Len(u) : g[k] = q
      BY <1>4 DEF Lists
    <3> QED BY <3>1
  <2>3. \A p \in S : \E k \in 1..Len(u) : h[k] = p
    BY <2>2
  <2>4. ASSUME NEW k \in 1..Len(u), NEW l \in 1..Len(u), k < l
        PROVE  h[k] < h[l]
    <3>1. g[k] < g[l]
      BY <1>4, <2>4 DEF Lists
    <3> QED BY <1>2, <1>5, <3>1
  <2> HIDE DEF h, S
  <2> QED BY <2>1, <2>3, <2>4 DEF Lists
<1>7. \A k \in 1..Len(u) : u[k] = s[h[k]]
  BY <1>1, <1>4, <1>5
<1>8. S \in SUBSET (1..Len(s))
  BY <1>1 DEF t
<1> HIDE DEF h, S
<1>9. Selected(s, S) = u
  BY <1>3, <1>6, <1>7, <1>8, SelectionIs
<1> QED BY <1>9 DEF S, u, t

----------------------------------------------------------------------------
(* Prefixes and stripped texts *)

\* The symbols of a text.  They are strings, as the space is, which no prover
\* knows of a literal.
Symbol == STRING \cup {Space}

\* The prefix of a text of n symbols.
LEMMA PrefixSymbols ==
    ASSUME NEW X, NEW s \in Seq(X), NEW n \in 0..Len(s)
    PROVE  /\ SubSeq(s, 1, n) \in Seq(X) /\ Len(SubSeq(s, 1, n)) = n
           /\ n \in Nat /\ Len(s) \in Nat /\ n <= Len(s)
           /\ \A p \in 1..n : SubSeq(s, 1, n)[p] = s[p]
<1>1. Len(s) \in Nat /\ n \in Nat /\ n <= Len(s) /\ 1 \in 1..Len(s) + 1
  BY LenProperties
<1>2. /\ SubSeq(s, 1, n) \in Seq(X)
      /\ Len(SubSeq(s, 1, n)) = IF 1 <= n THEN n - 1 + 1 ELSE 0
      /\ \A k \in 1..n - 1 + 1 : SubSeq(s, 1, n)[k] = s[1 + k - 1]
  BY <1>1, PartSymbols
<1>3. n - 1 + 1 = n /\ \A k \in 1..n : 1 + k - 1 = k
  BY <1>1
<1> QED BY <1>1, <1>2, <1>3

\* A prefix of a prefix is a prefix.
LEMMA PrefixTwice ==
    ASSUME NEW X, NEW s \in Seq(X), NEW n \in 0..Len(s), NEW m \in 0..n
    PROVE  SubSeq(SubSeq(s, 1, n), 1, m) = SubSeq(s, 1, m)
<1> DEFINE t == SubSeq(s, 1, n)
           u == SubSeq(s, 1, m)
<1>1. /\ t \in Seq(X) /\ Len(t) = n /\ n \in Nat /\ Len(s) \in Nat /\ n <= Len(s)
      /\ \A p \in 1..n : t[p] = s[p]
  BY PrefixSymbols
<1>2. m \in 0..Len(s) /\ m \in 0..Len(t)
  BY <1>1
<1>3. u \in Seq(X) /\ Len(u) = m /\ \A p \in 1..m : u[p] = s[p]
  BY <1>2, PrefixSymbols
<1> HIDE DEF t, u
<1>4. /\ SubSeq(t, 1, m) \in Seq(X) /\ Len(SubSeq(t, 1, m)) = m
      /\ \A p \in 1..m : SubSeq(t, 1, m)[p] = t[p]
  BY <1>1, <1>2, PrefixSymbols
<1>5. \A p \in 1..m : SubSeq(t, 1, m)[p] = u[p]
  BY <1>1, <1>3, <1>4
<1>6. SubSeq(t, 1, m) = u
  BY <1>3, <1>4, <1>5, SameText
<1> QED BY <1>6 DEF t, u

\* All of a text, and none of it.
LEMMA PrefixAll ==
    ASSUME NEW X, NEW s \in Seq(X)
    PROVE  SubSeq(s, 1, Len(s)) = s /\ SubSeq(s, 1, 0) = << >>
<1>1. Len(s) \in Nat /\ Len(s) \in 0..Len(s) /\ 0 \in 0..Len(s)
  BY LenProperties
<1>2. /\ SubSeq(s, 1, Len(s)) \in Seq(X) /\ Len(SubSeq(s, 1, Len(s))) = Len(s)
      /\ \A p \in 1..Len(s) : SubSeq(s, 1, Len(s))[p] = s[p]
  BY <1>1, PrefixSymbols
<1>3. SubSeq(s, 1, Len(s)) = s
  BY <1>2, SameText
<1>4. SubSeq(s, 1, 0) \in Seq(X) /\ Len(SubSeq(s, 1, 0)) = 0
  BY <1>1, PrefixSymbols
<1> QED BY <1>3, <1>4, EmptySeq

\* UpTo takes the prefix that the cap allows.
LEMMA UpToIs ==
    ASSUME NEW X, NEW s \in Seq(X), NEW cap \in Nat
    PROVE  \E n \in 0..Len(s) :
              /\ UpTo(s, cap) = SubSeq(s, 1, n) /\ n <= cap
              /\ n = Len(s) \/ n = cap
              /\ Len(s) <= cap => n = Len(s)
<1>1. Len(s) \in Nat
  BY LenProperties
<1>2. {Len(s), cap} \in SUBSET Nat /\ {Len(s), cap} # {}
  BY <1>1
<1>3. Min({Len(s), cap}) \in {Len(s), cap} /\ \A x \in {Len(s), cap} : Min({Len(s), cap}) <= x
  BY <1>2, MinProperties
<1> DEFINE n == Min({Len(s), cap})
<1>4. n \in {Len(s), cap} /\ n <= Len(s) /\ n <= cap
  BY <1>3
<1>5. UpTo(s, cap) = SubSeq(s, 1, n)
  BY DEF UpTo
<1> HIDE DEF n
<1>6. n \in 0..Len(s) /\ (Len(s) <= cap => n = Len(s))
  BY <1>1, <1>4
<1> QED BY <1>4, <1>5, <1>6

\* A text without a space at either end.
Stripped(s) == s = <<>> \/ (s[1] # Space /\ s[Len(s)] # Space)

\* What Strip takes of a text that is not all spaces.
Ink(s, a, b) ==
    /\ a \in 1..Len(s) /\ b \in a..Len(s)
    /\ s[a] # Space /\ s[b] # Space
    /\ \A p \in 1..Len(s) : p < a \/ b < p => s[p] = Space
    /\ Strip(s) = SubSeq(s, a, b)

\* Strip takes away the spaces at both ends, and nothing else.
LEMMA StripIs ==
    ASSUME NEW X, NEW s \in Seq(X)
    PROVE  \/ Strip(s) = <<>> /\ \A p \in 1..Len(s) : s[p] = Space
           \/ \E a, b : Ink(s, a, b)
<1> DEFINE inked == {p \in DOMAIN s : s[p] # Space}
<1>1. Len(s) \in Nat /\ DOMAIN s = 1..Len(s)
  BY LenProperties
<1>2. CASE inked = {}
  <2>1. \A p \in 1..Len(s) : s[p] = Space
    BY <1>1, <1>2
  <2> QED BY <1>2, <2>1 DEF Strip
<1>3. CASE inked # {}
  <2>1. inked \in SUBSET Nat /\ inked \in SUBSET (0..Len(s))
    BY <1>1
  <2>2. Min(inked) \in inked /\ \A x \in inked : Min(inked) <= x
    <3> HIDE DEF inked
    <3> QED BY <1>3, <2>1, MinProperties
  <2>3. Max(inked) \in inked /\ \A x \in inked : x <= Max(inked)
    <3> HIDE DEF inked
    <3> QED BY <1>1, <1>3, <2>1, MaxProperties
  <2>4. Strip(s) = SubSeq(s, Min(inked), Max(inked))
    BY <1>3 DEF Strip
  <2> DEFINE a == Min(inked)
             b == Max(inked)
  <2>5. a \in inked /\ b \in inked /\ \A x \in inked : a <= x /\ x <= b
    BY <2>2, <2>3
  <2>6. Strip(s) = SubSeq(s, a, b)
    BY <2>4
  <2> HIDE DEF a, b
  <2>7. a \in 1..Len(s) /\ b \in 1..Len(s) /\ s[a] # Space /\ s[b] # Space
    BY <1>1, <2>5
  <2>8. b \in a..Len(s)
    BY <1>1, <2>5, <2>7
  <2>9. \A p \in 1..Len(s) : p < a \/ b < p => s[p] = Space
    <3> SUFFICES ASSUME NEW p \in 1..Len(s), p < a \/ b < p, s[p] # Space
                 PROVE  FALSE
      OBVIOUS
    <3>1. a <= p /\ p <= b
      BY <1>1, <2>5
    <3> QED BY <1>1, <2>7, <3>1
  <2>10. Ink(s, a, b)
    BY <2>6, <2>7, <2>8, <2>9 DEF Ink
  <2> QED BY <2>10
<1> QED BY <1>2, <1>3

\* Strip leaves no space at an end, ...
LEMMA StripType ==
    ASSUME NEW X, NEW s \in Seq(X)
    PROVE  Strip(s) \in Seq(X) /\ Stripped(Strip(s)) /\ Len(Strip(s)) <= Len(s)
<1>0. Len(s) \in Nat
  BY LenProperties
<1>1. CASE Strip(s) = <<>>
  <2>1. Len(<<>>) = 0 /\ << >> \in Seq(X)
    BY EmptySeq
  <2>2. Stripped(Strip(s))
    BY <1>1 DEF Stripped
  <2>3. Strip(s) \in Seq(X) /\ Len(Strip(s)) = 0
    BY <1>1, <2>1
  <2> QED BY <1>0, <2>2, <2>3
<1>2. CASE \E a, b : Ink(s, a, b)
  <2>1. PICK a, b : Ink(s, a, b)
    BY <1>2
  <2>2. a \in 1..Len(s) + 1 /\ b \in 0..Len(s) /\ a \in Nat /\ b \in Nat /\ a <= b
    BY <1>0, <2>1 DEF Ink
  <2>3. Strip(s) = SubSeq(s, a, b) /\ s[a] # Space /\ s[b] # Space
    BY <2>1 DEF Ink
  <2>4. /\ Strip(s) \in Seq(X) /\ Len(Strip(s)) = IF a <= b THEN b - a + 1 ELSE 0
        /\ \A p \in a..b : Strip(s)[p - a + 1] = s[p]
    BY <2>2, <2>3, PartSymbols
  <2>5. a - a + 1 = 1 /\ Len(Strip(s)) = b - a + 1 /\ a \in a..b /\ b \in a..b
    BY <2>2, <2>4
  <2>6. Strip(s)[1] = s[a] /\ Strip(s)[Len(Strip(s))] = s[b]
    BY <2>4, <2>5
  <2>7. Len(Strip(s)) <= Len(s)
    BY <1>0, <2>2, <2>5
  <2> QED BY <2>3, <2>4, <2>6, <2>7 DEF Stripped
<1> QED BY <1>1, <1>2, StripIs

\* ... leaves a text that has none as it is, ...
LEMMA StripKeeps ==
    ASSUME NEW X, NEW s \in Seq(X), Stripped(s)
    PROVE  Strip(s) = s
<1>0. Len(s) \in Nat /\ (s # <<>> => 1 \in 1..Len(s) /\ Len(s) \in 1..Len(s))
  BY LenProperties, EmptySeq
<1>1. CASE s = <<>>
  <2>1. Len(Strip(s)) <= 0 /\ Strip(s) \in Seq(X) /\ Len(Strip(s)) \in Nat
    BY <1>1, StripType, EmptySeq, LenProperties
  <2> QED BY <1>1, <2>1, EmptySeq
<1>2. CASE s # <<>>
  <2>1. s[1] # Space /\ s[Len(s)] # Space
    BY <1>2 DEF Stripped
  <2>2. ~(\A p \in 1..Len(s) : s[p] = Space)
    BY <1>0, <1>2, <2>1
  <2>3. PICK a, b : Ink(s, a, b)
    BY <2>2, StripIs
  <2>4. a = 1 /\ b = Len(s)
    BY <1>0, <1>2, <2>1, <2>3 DEF Ink
  <2>5. Strip(s) = SubSeq(s, 1, Len(s))
    BY <2>3, <2>4 DEF Ink
  <2> QED BY <2>5, PrefixAll
<1> QED BY <1>1, <1>2

\* ... and takes a prefix of a text that begins with none.
LEMMA StripPrefix ==
    ASSUME NEW X, NEW s \in Seq(X), s = <<>> \/ s[1] # Space
    PROVE  \E n \in 0..Len(s) : /\ Strip(s) = SubSeq(s, 1, n)
                                /\ \A p \in n + 1..Len(s) : s[p] = Space
<1>0. Len(s) \in Nat /\ (s # <<>> => 1 \in 1..Len(s) /\ Len(s) \in 1..Len(s))
  BY LenProperties, EmptySeq
<1>1. CASE s = <<>>
  <2>1. Strip(s) = s
    <3>1. Stripped(s)
      BY <1>1 DEF Stripped
    <3> QED BY <3>1, StripKeeps
  <2>2. 0 \in 0..Len(s) /\ Len(s) = 0 /\ SubSeq(s, 1, 0) = <<>>
    BY <1>0, <1>1, EmptySeq, PrefixAll
  <2>3. \A p \in 0 + 1..Len(s) : s[p] = Space
    BY <2>2
  <2> QED BY <1>1, <2>1, <2>2, <2>3
<1>2. CASE s # <<>>
  <2>1. s[1] # Space
    BY <1>2
  <2>2. ~(\A p \in 1..Len(s) : s[p] = Space)
    BY <1>0, <1>2, <2>1
  <2>3. PICK a, b : Ink(s, a, b)
    BY <2>2, StripIs
  <2>4. a = 1 /\ b \in 0..Len(s)
    BY <1>0, <1>2, <2>1, <2>3 DEF Ink
  <2>5. Strip(s) = SubSeq(s, 1, b)
    BY <2>3, <2>4 DEF Ink
  <2>6. \A p \in b + 1..Len(s) : s[p] = Space
    BY <1>0, <2>3, <2>4 DEF Ink
  <2> QED BY <2>4, <2>5, <2>6
<1> QED BY <1>1, <1>2

----------------------------------------------------------------------------
(* Joined words and notes *)

\* The positions that Joined keeps.
Joinable(s) ==
    {p \in 1..Len(s) :
        \/ s[p] # Space
        \/ p > 1 /\ s[p - 1] # Space /\ \E q \in p..Len(s) : s[q] # Space}

\* Joined keeps those, in order.
LEMMA JoinedIs ==
    ASSUME NEW X, NEW s \in Seq(X)
    PROVE  Joined(s) = Selected(s, Joinable(s)) /\ Joinable(s) \in SUBSET (1..Len(s))
<1>1. DOMAIN s = 1..Len(s)
  BY LenProperties
<1> QED BY <1>1 DEF Joined, Joinable

\* One space between two words, and none at an end.
Spaced(s) ==
    /\ Stripped(s)
    /\ \A p \in 1..Len(s) - 1 : ~(s[p] = Space /\ s[p + 1] = Space)

\* Joined leaves one space between two words, ...
LEMMA JoinedIsSpaced ==
    ASSUME NEW X, NEW s \in Seq(X)
    PROVE  /\ Joined(s) \in Seq(X) /\ Spaced(Joined(s))
           /\ \A k \in 1..Len(Joined(s)) : \E p \in 1..Len(s) : Joined(s)[k] = s[p]
<1> DEFINE P == Joinable(s)
           t == Joined(s)
<1>1. t = Selected(s, P) /\ P \in SUBSET (1..Len(s)) /\ Len(s) \in Nat
  BY JoinedIs, LenProperties
<1>2. \A p \in P : s[p] = Space =>
         p - 1 \in P /\ s[p - 1] # Space /\ \E q \in P : p < q /\ s[q] # Space
  <2> SUFFICES ASSUME NEW p \in 1..Len(s), p > 1, s[p - 1] # Space, s[p] = Space,
                      NEW q \in p..Len(s), s[q] # Space
               PROVE  p - 1 \in P /\ q \in P /\ p < q
    BY <1>1 DEF Joinable
  <2>1. p - 1 \in 1..Len(s) /\ q \in 1..Len(s)
    BY <1>1
  <2>2. p # q
    OBVIOUS
  <2>3. p < q
    BY <1>1, <2>2
  <2> QED BY <2>1, <2>3 DEF Joinable
<1> HIDE DEF P, t
<1>3. /\ t \in Seq(X) /\ Len(t) \in Nat
      /\ \E f : Lists(f, Len(t), P) /\ \A k \in 1..Len(t) : t[k] = s[f[k]]
  BY <1>1, SelectedType
<1>4. PICK f : Lists(f, Len(t), P) /\ \A k \in 1..Len(t) : t[k] = s[f[k]]
  BY <1>3
<1>5. /\ \A k \in 1..Len(t) : f[k] \in P /\ f[k] \in 1..Len(s) /\ f[k] \in Int
      /\ \A p \in P : \E k \in 1..Len(t) : f[k] = p
      /\ \A k, l \in 1..Len(t) : k < l => f[k] < f[l]
  <2>1. f \in [1..Len(t) -> P]
    BY <1>4 DEF Lists
  <2>2. \A k \in 1..Len(t) : f[k] \in P
    BY <2>1
  <2>3. \A p \in P : p \in 1..Len(s) /\ p \in Int
    BY <1>1
  <2>4. \A k \in 1..Len(t) : f[k] \in 1..Len(s) /\ f[k] \in Int
    BY <2>2, <2>3
  <2>5. /\ \A p \in P : \E k \in 1..Len(t) : f[k] = p
        /\ \A k, l \in 1..Len(t) : k < l => f[k] < f[l]
    BY <1>4 DEF Lists
  <2> QED BY <2>2, <2>4, <2>5
<1>6. ASSUME NEW k \in 1..Len(t), t[k] = Space
      PROVE  /\ k - 1 \in 1..Len(t) /\ t[k - 1] # Space
             /\ k + 1 \in 1..Len(t)
  <2>1. /\ f[k] - 1 \in P /\ s[f[k] - 1] # Space
        /\ \E q \in P : f[k] < q /\ s[q] # Space
    BY <1>2, <1>4, <1>5, <1>6
  <2>2. PICK l \in 1..Len(t) : f[l] = f[k] - 1
    BY <1>5, <2>1
  <2>3. PICK m \in 1..Len(t) : f[k] < f[m]
    BY <1>5, <2>1
  <2>4. f[l] < f[k] /\ f[l] \in Int /\ f[k] \in Int /\ f[m] \in Int
    BY <1>5, <2>2
  <2>5. ~(k <= l)
    <3>1. k = l \/ k < l \/ l < k
      BY <1>3
    <3>2. k < l => f[k] < f[l]
      BY <1>5
    <3> QED BY <1>3, <2>4, <3>1, <3>2
  <2>6. ~(m <= k)
    <3>1. m = k \/ m < k \/ k < m
      BY <1>3
    <3>2. m < k => f[m] < f[k]
      BY <1>5
    <3> QED BY <1>3, <2>3, <2>4, <3>1, <3>2
  <2>7. k - 1 \in 1..Len(t) /\ k + 1 \in 1..Len(t) /\ k - 1 < k
    BY <1>3, <2>5, <2>6
  <2>8. f[k - 1] < f[k] /\ f[k - 1] \in Int
    BY <1>5, <2>7
  <2>9. k - 1 = l \/ l < k - 1
    BY <1>3, <2>5
  <2>10. l < k - 1 => f[l] < f[k - 1]
    BY <1>5, <2>7
  <2>11. k - 1 = l
    BY <2>2, <2>4, <2>8, <2>9, <2>10
  <2> QED BY <1>4, <2>1, <2>2, <2>7, <2>11
<1>7. Stripped(t)
  <2> SUFFICES ASSUME t # <<>>
               PROVE  t[1] # Space /\ t[Len(t)] # Space
    BY DEF Stripped
  <2>1. 1 \in 1..Len(t) /\ Len(t) \in 1..Len(t)
    BY <1>3, EmptySeq
  <2>2. ~(1 - 1 \in 1..Len(t)) /\ ~(Len(t) + 1 \in 1..Len(t))
    BY <1>3
  <2> QED BY <1>6, <2>1, <2>2
<1>8. ASSUME NEW p \in 1..Len(t) - 1, t[p] = Space, t[p + 1] = Space
      PROVE  FALSE
  <2>1. p + 1 \in 1..Len(t) /\ p + 1 - 1 = p
    BY <1>3
  <2> QED BY <1>6, <1>8, <2>1
<1>9. \A k \in 1..Len(t) : \E p \in 1..Len(s) : t[k] = s[p]
  BY <1>4, <1>5
<1> QED BY <1>3, <1>7, <1>8, <1>9 DEF Spaced, t

\* ... and a text that has no more as it is.
LEMMA JoinedKeeps ==
    ASSUME NEW X, NEW s \in Seq(X), Spaced(s)
    PROVE  Joined(s) = s
<1>1. Len(s) \in Nat /\ (s # <<>> => Len(s) \in 1..Len(s) /\ 1 \in 1..Len(s))
  BY LenProperties, EmptySeq
<1>2. ASSUME NEW p \in 1..Len(s), s[p] = Space
      PROVE  p > 1 /\ s[p - 1] # Space /\ \E q \in p..Len(s) : s[q] # Space
  <2>1. s # <<>> /\ Stripped(s)
    BY <1>2, EmptySeq DEF Spaced
  <2>2. s[1] # Space /\ s[Len(s)] # Space
    BY <2>1 DEF Stripped
  <2>3. p > 1 /\ p - 1 \in 1..Len(s) - 1 /\ p - 1 + 1 = p
    BY <1>1, <1>2, <2>2
  <2>4. s[p - 1] # Space
    BY <1>2, <2>3 DEF Spaced
  <2>5. Len(s) \in p..Len(s)
    BY <1>1
  <2> QED BY <2>2, <2>3, <2>4, <2>5
<1>3. Joinable(s) = 1..Len(s)
  BY <1>2 DEF Joinable
<1> QED BY <1>3, JoinedIs, SelectedAll

\* A prefix of such a text is one too, once it is stripped.
LEMMA SpacedPrefix ==
    ASSUME NEW X, NEW s \in Seq(X), Spaced(s), NEW n \in 0..Len(s)
    PROVE  /\ Strip(SubSeq(s, 1, n)) \in Seq(X) /\ Spaced(Strip(SubSeq(s, 1, n)))
           /\ \E m \in 0..n : Strip(SubSeq(s, 1, n)) = SubSeq(s, 1, m)
<1> DEFINE t == SubSeq(s, 1, n)
<1>1. /\ t \in Seq(X) /\ Len(t) = n /\ n \in Nat /\ Len(s) \in Nat /\ n <= Len(s)
      /\ \A p \in 1..n : t[p] = s[p]
  BY PrefixSymbols
<1>2. t = <<>> \/ t[1] # Space
  <2>1. CASE n = 0
    BY <1>1, <2>1, EmptySeq
  <2>2. CASE n # 0
    <3>1. 1 \in 1..n /\ s # <<>>
      BY <1>1, <2>2, EmptySeq
    <3>2. s[1] # Space
      BY <3>1 DEF Spaced, Stripped
    <3>3. t[1] = s[1]
      BY <1>1, <3>1
    <3> HIDE DEF t
    <3> QED BY <3>2, <3>3
  <2> QED BY <2>1, <2>2
<1> HIDE DEF t
<1>3. PICK m \in 0..Len(t) : Strip(t) = SubSeq(t, 1, m)
  BY <1>1, <1>2, StripPrefix
<1>4. m \in 0..n /\ m \in 0..Len(s)
  BY <1>1
<1>5. Strip(t) = SubSeq(s, 1, m)
  <2>1. SubSeq(SubSeq(s, 1, n), 1, m) = SubSeq(s, 1, m)
    BY <1>4, PrefixTwice
  <2> QED BY <1>3, <2>1 DEF t
<1>6. /\ Strip(t) \in Seq(X) /\ Len(Strip(t)) = m /\ m \in Nat
      /\ \A p \in 1..m : Strip(t)[p] = s[p]
  BY <1>4, <1>5, PrefixSymbols
<1>7. Stripped(Strip(t))
  BY <1>1, StripType
<1>8. ASSUME NEW p \in 1..Len(Strip(t)) - 1,
             Strip(t)[p] = Space, Strip(t)[p + 1] = Space
      PROVE  FALSE
  <2>1. p \in 1..m /\ p + 1 \in 1..m /\ p \in 1..Len(s) - 1
    BY <1>1, <1>4, <1>6
  <2>2. s[p] = Space /\ s[p + 1] = Space
    BY <1>6, <1>8, <2>1
  <2> QED BY <2>1, <2>2 DEF Spaced
<1>9. Spaced(Strip(t))
  BY <1>7, <1>8 DEF Spaced
<1> QED BY <1>4, <1>5, <1>6, <1>9 DEF t

\* The note that a node keeps passes the gate.
LEMMA CleanedNote ==
    ASSUME NEW words \in Seq(Symbol)
    PROVE  CleanNote(words) \in Seq(Symbol) /\ ValidNote(CleanNote(words))
<1> DEFINE plain(s) == [p \in DOMAIN s |-> IF s[p] = Control THEN Space ELSE s[p]]
           line == OneLine(words)
           clean == CleanNote(words)
<1>1. Space \in Symbol /\ NOTE_CAP \in Nat /\ Space # Control
  BY QuoteCapsAssumption DEF Symbol, Space, Control
<1>2. /\ plain(words) \in Seq(Symbol)
      /\ \A p \in 1..Len(plain(words)) : plain(words)[p] # Control
  <2>1. /\ Len(words) \in Nat /\ DOMAIN words = 1..Len(words)
        /\ \A p \in 1..Len(words) : words[p] \in Symbol
    BY LenProperties
  <2> HIDE DEF Symbol
  <2>2. \A p \in 1..Len(words) :
           /\ (IF words[p] = Control THEN Space ELSE words[p]) \in Symbol
           /\ (IF words[p] = Control THEN Space ELSE words[p]) # Control
    BY <1>1, <2>1
  <2>3. plain(words) = [p \in 1..Len(words) |->
                           IF words[p] = Control THEN Space ELSE words[p]]
    BY <2>1
  <2>4. plain(words) \in Seq(Symbol) /\ Len(plain(words)) = Len(words)
    BY <2>1, <2>2, <2>3
  <2> QED BY <2>2, <2>3, <2>4
<1>3. line = Joined(plain(words))
  BY DEF OneLine
<1> HIDE DEF Symbol
<1>4. /\ line \in Seq(Symbol) /\ Spaced(line)
      /\ \A k \in 1..Len(line) : line[k] # Control
  <2> HIDE DEF plain
  <2> QED BY <1>2, <1>3, JoinedIsSpaced
<1>5. clean = Strip(UpTo(line, NOTE_CAP))
  BY DEF CleanNote
<1> HIDE DEF line, clean
<1>6. PICK n \in 0..Len(line) : UpTo(line, NOTE_CAP) = SubSeq(line, 1, n) /\ n <= NOTE_CAP
  BY <1>1, <1>4, UpToIs
<1>7. PICK m \in 0..n : clean = SubSeq(line, 1, m)
  BY <1>4, <1>5, <1>6, SpacedPrefix
<1>8. clean \in Seq(Symbol) /\ Spaced(clean)
  BY <1>4, <1>5, <1>6, SpacedPrefix
<1>9. m \in 0..Len(line) /\ Len(clean) = m /\ m <= NOTE_CAP
         /\ \A p \in 1..m : clean[p] = line[p]
  <2>1. Len(line) \in Nat
    BY <1>4, LenProperties
  <2>2. m \in 0..Len(line) /\ m <= NOTE_CAP
    BY <1>1, <1>6, <2>1
  <2> QED BY <1>4, <1>7, <2>2, PrefixSymbols
<1>10. \A p \in 1..Len(clean) : clean[p] # Control
  <2>1. Len(line) \in Nat
    BY <1>4, LenProperties
  <2> QED BY <1>4, <1>9, <2>1
<1>11. plain(clean) = clean
  <2>1. DOMAIN clean = 1..Len(clean) /\ clean = [p \in 1..Len(clean) |-> clean[p]]
    BY <1>8, LenProperties
  <2>2. \A p \in 1..Len(clean) :
           (IF clean[p] = Control THEN Space ELSE clean[p]) = clean[p]
    BY <1>10
  <2> QED BY <2>1, <2>2
<1>12. OneLine(clean) = clean
  <2>1. OneLine(clean) = Joined(plain(clean))
    BY DEF OneLine
  <2> HIDE DEF plain
  <2> QED BY <1>8, <1>11, <2>1, JoinedKeeps
<1>13. UpTo(clean, NOTE_CAP) = clean
  <2>1. PICK q \in 0..Len(clean) :
           /\ UpTo(clean, NOTE_CAP) = SubSeq(clean, 1, q)
           /\ Len(clean) <= NOTE_CAP => q = Len(clean)
    BY <1>1, <1>8, UpToIs
  <2>2. q = Len(clean)
    BY <1>9, <2>1
  <2> QED BY <1>8, <2>1, <2>2, PrefixAll
<1>14. Strip(clean) = clean
  BY <1>8, StripKeeps DEF Spaced
<1>15. CleanNote(clean) = clean
  BY <1>12, <1>13, <1>14 DEF CleanNote
<1>16. ValidNote(clean)
  BY <1>9, <1>15 DEF ValidNote
<1> QED BY <1>8, <1>16 DEF clean

----------------------------------------------------------------------------
(* Recursive functions, and the cuts of a quote *)

\* A function on 0..top that is given by its first value and a step.
Recursive(f, top, X, first, step) ==
    /\ f \in [0..top -> X]
    /\ f[0] = first /\ \A n \in 1..top : f[n] = step[<<n, f[n - 1]>>]

\* There is one.
LEMMA Recursion ==
    ASSUME NEW top \in Nat, NEW X, NEW first \in X,
           NEW step \in [(1..top) \X X -> X]
    PROVE  \E f : Recursive(f, top, X, first, step)
<1> DEFINE Upto(m, f) == f[0] = first /\ \A n \in 1..m : f[n] = step[<<n, f[n - 1]>>]
           S == {m \in 0..top : \E f \in [0..m -> X] : Upto(m, f)}
<1>1. 0 \in S
  <2> DEFINE f == [n \in 0..0 |-> first]
  <2>1. f \in [0..0 -> X] /\ f[0] = first /\ \A n \in 1..0 : FALSE
    OBVIOUS
  <2> HIDE DEF f
  <2>2. Upto(0, f)
    BY <2>1
  <2> HIDE DEF Upto
  <2> QED BY <2>1, <2>2
<1>2. ASSUME NEW m \in 0..top, m \in S, m < top
      PROVE  m + 1 \in S
  <2>1. PICK f \in [0..m -> X] : Upto(m, f)
    BY <1>2
  <2>2. <<m + 1, f[m]>> \in (1..top) \X X
    BY <1>2
  <2> DEFINE last == step[<<m + 1, f[m]>>]
             g == [n \in 0..m + 1 |-> IF n <= m THEN f[n] ELSE last]
  <2>3. last \in X
    BY <2>2
  <2> HIDE DEF last
  <2>4. g \in [0..m + 1 -> X]
    BY <2>1, <2>3
  <2>5. g[0] = first
    BY <2>1
  <2>6. ASSUME NEW n \in 1..m + 1
        PROVE  g[n] = step[<<n, g[n - 1]>>]
    <3>1. g[n - 1] = f[n - 1]
      BY <2>6
    <3>2. CASE n <= m
      <4>1. n \in 1..m /\ g[n] = f[n]
        BY <3>2
      <4>2. f[n] = step[<<n, f[n - 1]>>]
        BY <2>1, <4>1
      <4> HIDE DEF g
      <4> QED BY <3>1, <4>1, <4>2
    <3>3. CASE ~(n <= m)
      <4>1. n = m + 1 /\ n - 1 = m /\ g[n] = last
        BY <3>3
      <4> HIDE DEF g
      <4> QED BY <3>1, <4>1 DEF last
    <3> QED BY <3>2, <3>3
  <2> HIDE DEF g
  <2>7. Upto(m + 1, g)
    BY <2>5, <2>6
  <2>8. m + 1 \in 0..top
    BY <1>2
  <2> QED BY <2>4, <2>7, <2>8
<1> HIDE DEF S
<1>3. \A m \in 0..top : m \in S
  BY <1>1, <1>2, Climb
<1>4. top \in S
  BY <1>3
<1> QED BY <1>4 DEF S, Recursive

\* A cut of a quote that is not empty is a prefix, which ends where a word
\* does.
CutOf(quote, s) ==
    \/ s = <<>>
    \/ \E n \in 1..QUOTE_CAP : /\ n < Len(quote) /\ s = SubSeq(quote, 1, n)
                               /\ Stripped(s) /\ quote[n + 1] \notin Letters

\* What Strip leaves before a symbol that is no letter is a cut.
LEMMA CutBefore ==
    ASSUME NEW quote \in Seq(Symbol), Stripped(quote),
           NEW q \in 1..Len(quote), q <= QUOTE_CAP, quote[q] \notin Letters
    PROVE  LET s == Strip(SubSeq(quote, 1, q - 1))
           IN  /\ s \in Seq(Symbol) /\ CutOf(quote, s)
               /\ \E n \in 0..q - 1 : /\ s = SubSeq(quote, 1, n)
                                      /\ \A p \in n + 1..q - 1 : quote[p] = Space
<1> HIDE DEF Symbol
<1>0. Len(quote) \in Nat /\ QUOTE_CAP \in Nat /\ quote # <<>>
  BY LenProperties, EmptySeq, QuoteCapsAssumption
<1>1. quote[1] # Space
  BY <1>0 DEF Stripped
<1> DEFINE m == q - 1
           t == SubSeq(quote, 1, m)
<1>2. m \in 0..Len(quote) /\ m + 1 = q
  BY <1>0
<1> HIDE DEF m
<1>3. t \in Seq(Symbol) /\ Len(t) = m /\ \A p \in 1..m : t[p] = quote[p]
  BY <1>2, PrefixSymbols
<1>4. t = <<>> \/ t[1] # Space
  <2>1. m = 0 \/ 1 \in 1..m
    BY <1>0, <1>2
  <2> HIDE DEF t
  <2> QED BY <1>1, <1>3, <2>1, EmptySeq
<1>5. Strip(t) \in Seq(Symbol) /\ Stripped(Strip(t))
  <2> HIDE DEF t
  <2> QED BY <1>3, StripType
<1>6. PICK n \in 0..Len(t) : /\ Strip(t) = SubSeq(t, 1, n)
                             /\ \A p \in n + 1..Len(t) : t[p] = Space
  <2> HIDE DEF t
  <2> QED BY <1>3, <1>4, StripPrefix
<1>7. n \in 0..m
  BY <1>3
<1>8. Strip(t) = SubSeq(quote, 1, n)
  BY <1>2, <1>6, <1>7, PrefixTwice
<1>9. \A p \in n + 1..m : quote[p] = Space
  <2>1. \A p \in n + 1..m : p \in 1..m /\ t[p] = Space
    BY <1>2, <1>3, <1>6, <1>7
  <2> HIDE DEF t
  <2> QED BY <1>3, <2>1
<1> HIDE DEF t
<1>10. CutOf(quote, Strip(t))
  <2>1. CASE n = 0
    BY <1>8, <2>1, PrefixAll DEF CutOf
  <2>2. CASE n # 0
    <3>1. n \in 1..QUOTE_CAP /\ n < Len(quote) /\ (n + 1 \in n + 1..m \/ n + 1 = q)
      BY <1>0, <1>2, <1>7, <2>2
    <3>2. Space \notin Letters
      BY LettersAssumption
    <3>3. quote[n + 1] \notin Letters
      BY <1>9, <3>1, <3>2
    <3> QED BY <1>5, <1>8, <3>1, <3>3 DEF CutOf
  <2> QED BY <2>1, <2>2
<1> QED BY <1>5, <1>7, <1>8, <1>9, <1>10 DEF t, m

\* The first cut.
LEMMA FirstCutIs ==
    ASSUME NEW quote \in Seq(Symbol), Stripped(quote), Len(quote) > QUOTE_CAP
    PROVE  /\ FirstCut(quote) \in Seq(Symbol) /\ CutOf(quote, FirstCut(quote))
           /\ \A p \in 1..QUOTE_CAP : quote[p] = Space =>
                 \E q \in p..QUOTE_CAP :
                    /\ quote[q] = Space
                    /\ FirstCut(quote) = Strip(SubSeq(quote, 1, q - 1))
<1> HIDE DEF Symbol
<1> DEFINE spaces == {p \in 1..QUOTE_CAP : quote[p] = Space}
<1>0. Len(quote) \in Nat /\ QUOTE_CAP \in Nat
  BY LenProperties, QuoteCapsAssumption
<1>1. CASE spaces = {}
  <2>1. FirstCut(quote) = <<>> /\ << >> \in Seq(Symbol)
    BY <1>1, EmptySeq DEF FirstCut
  <2> QED BY <1>1, <2>1 DEF CutOf
<1>2. CASE spaces # {}
  <2>1. spaces \in SUBSET (0..QUOTE_CAP)
    BY <1>0
  <2>2. Max(spaces) \in spaces /\ \A x \in spaces : x <= Max(spaces)
    <3> HIDE DEF spaces
    <3> QED BY <1>0, <1>2, <2>1, MaxProperties
  <2>3. FirstCut(quote) = Strip(SubSeq(quote, 1, Max(spaces) - 1))
    BY <1>2 DEF FirstCut
  <2> DEFINE q == Max(spaces)
  <2>4. q \in 1..Len(quote) /\ q <= QUOTE_CAP /\ quote[q] \notin Letters
    <3>1. q \in 1..QUOTE_CAP /\ quote[q] = Space
      BY <2>2
    <3> HIDE DEF q
    <3> QED BY <1>0, <3>1, LettersAssumption
  <2>5. quote[q] = Space /\ \A p \in 1..QUOTE_CAP : quote[p] = Space => p <= q
    BY <2>2
  <2> HIDE DEF q
  <2>6. /\ FirstCut(quote) \in Seq(Symbol) /\ CutOf(quote, FirstCut(quote))
    BY <2>3, <2>4, CutBefore DEF q
  <2>7. \A p \in 1..QUOTE_CAP : quote[p] = Space => q \in p..QUOTE_CAP
    BY <1>0, <2>4, <2>5
  <2>8. FirstCut(quote) = Strip(SubSeq(quote, 1, q - 1))
    BY <2>3 DEF q
  <2> QED BY <2>5, <2>6, <2>7, <2>8
<1> QED BY <1>1, <1>2

\* And the next one.
LEMMA ShorterIs ==
    ASSUME NEW quote \in Seq(Symbol), Stripped(quote), Len(quote) > QUOTE_CAP,
           NEW s \in Seq(Symbol), CutOf(quote, s)
    PROVE  Shorter(s) \in Seq(Symbol) /\ CutOf(quote, Shorter(s))
<1> HIDE DEF Symbol
<1>0. Len(quote) \in Nat /\ QUOTE_CAP \in Nat /\ Len(s) \in Nat /\ DOMAIN s = 1..Len(s)
  BY LenProperties, QuoteCapsAssumption
<1> DEFINE at == {p \in DOMAIN s : \/ s[p] = Ellipsis
                                   \/ s[p] = Comma /\ p < Len(s) /\ s[p + 1] = Space}
<1>1. CASE LastSeparator(s) = NotFound
  <2>1. Shorter(s) = <<>> /\ << >> \in Seq(Symbol)
    BY <1>1, EmptySeq DEF Shorter
  <2> QED BY <2>1 DEF CutOf
<1>2. CASE LastSeparator(s) # NotFound
  <2>1. at # {} /\ LastSeparator(s) = Max(at)
    BY <1>2 DEF LastSeparator
  <2>2. at \in SUBSET (0..Len(s))
    BY <1>0
  <2>3. LastSeparator(s) \in at
    <3> HIDE DEF at
    <3> QED BY <1>0, <2>1, <2>2, MaxProperties
  <2> DEFINE q == LastSeparator(s)
  <2>4. q \in 1..Len(s) /\ s[q] \in {Ellipsis, Comma}
    BY <1>0, <2>3
  <2>5. Shorter(s) = Strip(SubSeq(s, 1, q - 1))
    BY <1>2 DEF Shorter
  <2> HIDE DEF q
  <2>6. s # <<>>
    BY <1>0, <2>4, EmptySeq
  <2>7. PICK n \in 1..QUOTE_CAP : n < Len(quote) /\ s = SubSeq(quote, 1, n)
    BY <2>6 DEF CutOf
  <2>8. n \in 0..Len(quote)
    BY <1>0
  <2>9. Len(s) = n /\ \A p \in 1..n : s[p] = quote[p]
    BY <2>7, <2>8, PrefixSymbols
  <2>10. /\ q \in 1..Len(quote) /\ q <= QUOTE_CAP /\ q - 1 \in 0..n
         /\ quote[q] \notin Letters
    <3>1. s[q] \notin Letters
      BY <2>4, LettersAssumption
    <3>2. s[q] = quote[q]
      BY <2>4, <2>9
    <3> QED BY <1>0, <2>4, <2>7, <2>9, <3>1, <3>2
  <2>11. SubSeq(s, 1, q - 1) = SubSeq(quote, 1, q - 1)
    <3> DEFINE m == q - 1
    <3>1. m \in 0..n
      BY <2>10
    <3> HIDE DEF m
    <3>2. SubSeq(SubSeq(quote, 1, n), 1, m) = SubSeq(quote, 1, m)
      BY <2>8, <3>1, PrefixTwice
    <3> QED BY <2>7, <3>2 DEF m
  <2> QED BY <2>5, <2>10, <2>11, CutBefore
<1> QED BY <1>1, <1>2

\* Every cut of an over-long quote is a prefix; the first one is the longest.
LEMMA CutsAre ==
    ASSUME NEW quote \in Seq(Symbol), Stripped(quote), Len(quote) > QUOTE_CAP
    PROVE  /\ Cuts(quote) \in Seq(Seq(Symbol))
           /\ \A k \in 1..Len(Cuts(quote)) :
                 CutOf(quote, Cuts(quote)[k]) /\ Len(Cuts(quote)[k]) >= QUOTE_MIN
           /\ Len(FirstCut(quote)) >= QUOTE_MIN =>
                 \E k \in 1..Len(Cuts(quote)) : Cuts(quote)[k] = FirstCut(quote)
<1> DEFINE L == Len(quote)
           X == {s \in Seq(Symbol) : CutOf(quote, s)}
           step == [a \in (1..L - 1) \X X |-> Shorter(a[2])]
           IsCut(f) == f = [n \in 1..L |-> IF n = 1 THEN FirstCut(quote)
                                           ELSE Shorter(f[n - 1])]
           cut == CHOOSE f : IsCut(f)
<1> HIDE DEF Symbol
<1>0. /\ L \in Nat /\ QUOTE_CAP \in Nat /\ L # 0 /\ L - 1 \in Nat
  BY LenProperties, QuoteCapsAssumption
<1>1. FirstCut(quote) \in X /\ \A s \in X : Shorter(s) \in X
  BY FirstCutIs, ShorterIs
<1> HIDE DEF L
<1>2. \E f : IsCut(f)
  <2> DEFINE top == L - 1
             first == FirstCut(quote)
  <2>1. step \in [(1..top) \X X -> X]
    BY <1>1
  <2>2. top \in Nat /\ first \in X
    BY <1>0, <1>1
  <2> HIDE DEF top, first, X, step
  <2>6. PICK g : Recursive(g, top, X, first, step)
    BY <2>1, <2>2, Recursion
  <2>3. /\ g \in [0..top -> X] /\ g[0] = first
        /\ \A n \in 1..top : g[n] = step[<<n, g[n - 1]>>]
    BY <2>6 DEF Recursive
  <2> DEFINE f == [n \in 1..L |-> g[n - 1]]
  <2>4. ASSUME NEW n \in 1..L
        PROVE  g[n - 1] = IF n = 1 THEN FirstCut(quote) ELSE Shorter(f[n - 1])
    <3>1. CASE n = 1
      BY <2>3, <3>1 DEF first
    <3>2. CASE n # 1
      <4>1. n - 1 \in 1..top /\ n - 1 \in 1..L /\ n - 1 - 1 \in 0..top
        BY <1>0, <3>2 DEF top
      <4>2. f[n - 1] = g[n - 1 - 1]
        BY <4>1
      <4> HIDE DEF f
      <4>3. g[n - 1] = step[<<n - 1, g[n - 1 - 1]>>] /\ g[n - 1 - 1] \in X
        BY <2>3, <4>1
      <4>4. <<n - 1, g[n - 1 - 1]>> \in (1..L - 1) \X X
        BY <4>1, <4>3 DEF top
      <4>5. step[<<n - 1, g[n - 1 - 1]>>] = Shorter(g[n - 1 - 1])
        BY <4>4 DEF step
      <4> QED BY <3>2, <4>2, <4>3, <4>5
    <3> QED BY <3>1, <3>2
  <2>5. IsCut(f)
    BY <2>4
  <2> HIDE DEF f, IsCut
  <2> QED BY <2>5
<1>3. IsCut(cut)
  <2> HIDE DEF IsCut
  <2> QED BY <1>2
<1>4. Cuts(quote) = Selected(cut, {n \in 1..L : Len(cut[n]) >= QUOTE_MIN})
  BY DEF Cuts, L
<1> HIDE DEF cut
<1>5. cut[1] = FirstCut(quote) /\ \A n \in 2..L : cut[n] = Shorter(cut[n - 1])
  BY <1>0, <1>3
<1> HIDE DEF IsCut, X
<1>6. \A n \in 1..L : cut[n] \in X
  <2> DEFINE S == {n \in 0..L : n = 0 \/ cut[n] \in X}
  <2>1. 0 \in S
    BY <1>0
  <2>2. ASSUME NEW n \in 0..L, n \in S, n < L
        PROVE  n + 1 \in S
    <3>1. CASE n = 0
      BY <1>0, <1>1, <1>5, <3>1
    <3>2. CASE n # 0
      <4>1. n + 1 \in 2..L /\ n + 1 - 1 = n /\ cut[n] \in X
        BY <1>0, <2>2, <3>2
      <4>2. cut[n + 1] = Shorter(cut[n])
        BY <1>5, <4>1
      <4> QED BY <1>0, <1>1, <4>1, <4>2
    <3> QED BY <3>1, <3>2
  <2> HIDE DEF S
  <2>3. \A n \in 0..L : n \in S
    BY <1>0, <2>1, <2>2, Climb
  <2> QED BY <1>0, <2>3 DEF S
<1> DEFINE P == {n \in 1..L : Len(cut[n]) >= QUOTE_MIN}
<1>7. cut \in Seq(Seq(Symbol)) /\ Len(cut) = L
  <2>1. \A n \in 1..L : cut[n] \in Seq(Symbol)
    BY <1>6 DEF X
  <2>2. cut = [n \in 1..L |-> cut[n]]
    BY <1>3 DEF IsCut
  <2> HIDE DEF P
  <2> QED BY <1>0, <2>1, <2>2
<1>8. /\ Cuts(quote) \in Seq(Seq(Symbol))
      /\ \E f : Lists(f, Len(Cuts(quote)), P)
                  /\ \A k \in 1..Len(Cuts(quote)) : Cuts(quote)[k] = cut[f[k]]
  <2>1. P \in SUBSET (1..Len(cut)) /\ Cuts(quote) = Selected(cut, P)
    BY <1>4, <1>7
  <2> HIDE DEF P
  <2> DEFINE cuts == Selected(cut, P)
  <2>2. /\ cuts \in Seq(Seq(Symbol))
        /\ \E f : Lists(f, Len(cuts), P) /\ \A k \in 1..Len(cuts) : cuts[k] = cut[f[k]]
    <3> DEFINE Y == Seq(Symbol)
    <3>1. cut \in Seq(Y) /\ P \in SUBSET (1..Len(cut))
      BY <1>7, <2>1
    <3> HIDE DEF Y
    <3>2. /\ cuts \in Seq(Y)
          /\ \E f : Lists(f, Len(cuts), P)
                       /\ \A k \in 1..Len(cuts) : cuts[k] = cut[f[k]]
      BY <3>1, SelectedType
    <3> QED BY <3>2 DEF Y
  <2> QED BY <2>1, <2>2
<1>9. PICK f : Lists(f, Len(Cuts(quote)), P)
                  /\ \A k \in 1..Len(Cuts(quote)) : Cuts(quote)[k] = cut[f[k]]
  BY <1>8
<1>10. /\ \A k \in 1..Len(Cuts(quote)) : f[k] \in P
       /\ \A p \in P : \E k \in 1..Len(Cuts(quote)) : f[k] = p
  <2> HIDE DEF P
  <2> QED BY <1>9 DEF Lists
<1>11. \A k \in 1..Len(Cuts(quote)) :
          CutOf(quote, Cuts(quote)[k]) /\ Len(Cuts(quote)[k]) >= QUOTE_MIN
  BY <1>6, <1>9, <1>10 DEF X
<1>12. Len(FirstCut(quote)) >= QUOTE_MIN => 1 \in P
  BY <1>0, <1>5
<1>13. Len(FirstCut(quote)) >= QUOTE_MIN =>
          \E k \in 1..Len(Cuts(quote)) : Cuts(quote)[k] = FirstCut(quote)
  <2> HIDE DEF P
  <2> QED BY <1>5, <1>9, <1>10, <1>12
<1> QED BY <1>8, <1>11, <1>13

\* Strip adds no symbol.
LEMMA StripSymbols ==
    ASSUME NEW X, NEW s \in Seq(X)
    PROVE  \A k \in 1..Len(Strip(s)) : \E p \in 1..Len(s) : Strip(s)[k] = s[p]
<1>1. CASE Strip(s) = <<>>
  BY <1>1, EmptySeq
<1>2. CASE \E a, b : Ink(s, a, b)
  <2>1. PICK a, b : Ink(s, a, b)
    BY <1>2
  <2>2. a \in 1..Len(s) + 1 /\ b \in 0..Len(s) /\ a <= b /\ a \in Nat /\ b \in Nat
    BY <2>1, LenProperties DEF Ink
  <2>3. Strip(s) = SubSeq(s, a, b)
    BY <2>1 DEF Ink
  <2>4. /\ Len(Strip(s)) = b - a + 1
        /\ \A k \in 1..b - a + 1 : Strip(s)[k] = s[a + k - 1]
    BY <2>2, <2>3, PartSymbols
  <2>5. \A k \in 1..b - a + 1 : a + k - 1 \in 1..Len(s)
    BY <2>2, LenProperties
  <2> QED BY <2>4, <2>5
<1> QED BY <1>1, <1>2, StripIs

\* What may be kept of a quote that is stripped.
Candidate(quote, s) ==
    /\ s \in Seq(Symbol) /\ Stripped(s) /\ Len(s) \in QUOTE_MIN..QUOTE_CAP
    /\ \E n \in 1..Len(quote) : /\ s = SubSeq(quote, 1, n)
                                /\ n < Len(quote) => quote[n + 1] \notin Letters

\* A quote that is kept may be, and the text shows it.
LEMMA KeptIsCandidate ==
    ASSUME NEW said \in Seq(Symbol), NEW page, KeepQuote(said, page) # Dropped
    PROVE  /\ ~Spliced(said) /\ Strip(said) \in Seq(Symbol) /\ Stripped(Strip(said))
           /\ Candidate(Strip(said), KeepQuote(said, page))
           /\ QuoteGrounded(KeepQuote(said, page), page)
<1> HIDE DEF Symbol
<1> DEFINE quote == Strip(said)
           cuts == IF Len(quote) > QUOTE_CAP THEN Cuts(quote) ELSE <<quote>>
           shown == {k \in DOMAIN cuts : QuoteGrounded(cuts[k], page)}
<1>1. ~Spliced(said) /\ KeepQuote(said, page) = GroundQuote(said, page)
  BY DEF KeepQuote
<1>2. /\ ~(Len(quote) < QUOTE_MIN) /\ shown # {}
      /\ GroundQuote(said, page) = cuts[Min(shown)]
  <2>1. GroundQuote(said, page) # Dropped
    BY <1>1
  <2> QED BY <2>1 DEF GroundQuote
<1>3. quote \in Seq(Symbol) /\ Stripped(quote) /\ Len(quote) \in Nat
  BY StripType, LenProperties
<1> HIDE DEF quote
<1>4. /\ cuts \in Seq(Seq(Symbol))
      /\ \A k \in 1..Len(cuts) : Candidate(quote, cuts[k])
  <2>0. QUOTE_MIN \in Nat /\ QUOTE_MIN # 0 /\ QUOTE_CAP \in Nat
    BY QuoteCapsAssumption
  <2>1. CASE Len(quote) > QUOTE_CAP
    <3>1. cuts = Cuts(quote)
      BY <2>1
    <3>2. /\ Cuts(quote) \in Seq(Seq(Symbol))
          /\ \A k \in 1..Len(Cuts(quote)) :
                CutOf(quote, Cuts(quote)[k]) /\ Len(Cuts(quote)[k]) >= QUOTE_MIN
      BY <1>3, <2>1, CutsAre
    <3> HIDE DEF cuts
    <3>3. ASSUME NEW k \in 1..Len(cuts)
          PROVE  Candidate(quote, cuts[k])
      <4> DEFINE s == cuts[k]
      <4>1. CutOf(quote, s) /\ Len(s) >= QUOTE_MIN /\ s \in Seq(Symbol)
        BY <3>1, <3>2, <3>3, ElementOfSeq
      <4> HIDE DEF s
      <4>2. s # <<>>
        BY <2>0, <4>1, EmptySeq
      <4>3. PICK n \in 1..QUOTE_CAP :
               /\ n < Len(quote) /\ s = SubSeq(quote, 1, n)
               /\ Stripped(s) /\ quote[n + 1] \notin Letters
        BY <4>1, <4>2 DEF CutOf
      <4>4. n \in 0..Len(quote) /\ n \in 1..Len(quote)
        BY <1>3, <2>0, <4>3
      <4>5. Len(s) = n
        BY <1>3, <4>3, <4>4, PrefixSymbols
      <4>6. Len(s) \in QUOTE_MIN..QUOTE_CAP
        BY <2>0, <4>1, <4>5
      <4> QED BY <4>1, <4>3, <4>4, <4>6 DEF Candidate, s
    <3> QED BY <3>1, <3>2, <3>3
  <2>2. CASE ~(Len(quote) > QUOTE_CAP)
    <3>1. cuts = <<quote>>
      BY <2>2
    <3> HIDE DEF cuts
    <3>2. cuts \in Seq(Seq(Symbol)) /\ Len(cuts) = 1 /\ cuts[1] = quote
      <4> DEFINE Y == Seq(Symbol)
      <4>1. quote \in Y
        BY <1>3
      <4> HIDE DEF Y
      <4>2. <<quote>> \in Seq(Y) /\ Len(<<quote>>) = 1 /\ <<quote>>[1] = quote
        BY <4>1
      <4> QED BY <3>1, <4>2 DEF Y
    <3>3. Len(quote) \in QUOTE_MIN..QUOTE_CAP /\ Len(quote) \in 1..Len(quote)
      BY <1>2, <1>3, <2>0, <2>2
    <3>4. quote = SubSeq(quote, 1, Len(quote)) /\ ~(Len(quote) < Len(quote))
      BY <1>3, PrefixAll
    <3>5. Candidate(quote, quote)
      BY <1>3, <3>3, <3>4 DEF Candidate
    <3>6. \A k \in 1..1 : k = 1
      OBVIOUS
    <3> QED BY <3>2, <3>5, <3>6
  <2> QED BY <2>1, <2>2
<1> HIDE DEF cuts
<1>5. DOMAIN cuts = 1..Len(cuts) /\ Len(cuts) \in Nat
  BY <1>4, LenProperties
<1>6. Min(shown) \in shown
  <2>1. shown \in SUBSET Nat
    BY <1>5
  <2> HIDE DEF shown
  <2> QED BY <1>2, <2>1, MinProperties
<1>7. Min(shown) \in 1..Len(cuts) /\ QuoteGrounded(cuts[Min(shown)], page)
  BY <1>5, <1>6
<1> HIDE DEF shown
<1> QED BY <1>1, <1>2, <1>3, <1>4, <1>7 DEF quote

\* What a node keeps of a quote, the gate of another admits.
LEMMA KeptIsValid ==
    ASSUME NEW said \in Seq(Symbol), NEW page, KeepQuote(said, page) # Dropped
    PROVE  /\ KeepQuote(said, page) \in Seq(Symbol)
           /\ ValidQuote(KeepQuote(said, page), page)
<1> HIDE DEF Symbol
<1> DEFINE quote == Strip(said)
           s == KeepQuote(said, page)
<1>1. /\ ~Spliced(said) /\ quote \in Seq(Symbol)
      /\ Candidate(quote, s) /\ QuoteGrounded(s, page)
  BY KeptIsCandidate
<1>2. \A k \in 1..Len(quote) : \E p \in 1..Len(said) : quote[k] = said[p]
  BY StripSymbols
<1>3. \A p \in 1..Len(said) : said[p] # Ellipsis
  BY <1>1, LenProperties DEF Spliced
<1> HIDE DEF s, quote
<1>4. s \in Seq(Symbol) /\ Stripped(s) /\ Len(s) \in QUOTE_MIN..QUOTE_CAP
  BY <1>1 DEF Candidate
<1>5. PICK n \in 1..Len(quote) : s = SubSeq(quote, 1, n)
  BY <1>1 DEF Candidate
<1>6. n \in 0..Len(quote) /\ Len(quote) \in Nat
  BY <1>1, LenProperties
<1>7. Len(s) = n /\ \A p \in 1..n : s[p] = quote[p]
  BY <1>1, <1>5, <1>6, PrefixSymbols
<1>8. \A p \in 1..n : p \in 1..Len(quote)
  BY <1>6
<1>9. \A p \in 1..n : s[p] # Ellipsis
  BY <1>2, <1>3, <1>7, <1>8
<1>10. ~Spliced(s)
  <2>1. DOMAIN s = 1..n
    BY <1>4, <1>7, LenProperties
  <2> QED BY <1>9, <2>1 DEF Spliced
<1>11. Strip(s) = s
  BY <1>4, StripKeeps
<1> QED BY <1>1, <1>4, <1>10, <1>11 DEF ValidQuote, s

----------------------------------------------------------------------------
(* The quotes that a node keeps *)

\* One more answer.
NextKept(quotes, quote) ==
    IF quote # Dropped /\ IsNew(quote, quotes) /\ Len(quotes) < MAX_QUOTES
    THEN Append(quotes, quote) ELSE quotes

\* quotes are what is kept of the first n of the answers said.
KeptOf(quotes, said, page, n) ==
    /\ quotes \in Seq(Seq(Symbol)) /\ Len(quotes) <= MAX_QUOTES /\ Len(quotes) <= n
    /\ \A c \in 1..Len(quotes) :
          \E k \in 1..n : /\ quotes[c] = KeepQuote(said[k], page)
                          /\ quotes[c] # Dropped
    /\ \A c, d \in 1..Len(quotes) : quotes[c] = quotes[d] => c = d
    /\ n <= MAX_QUOTES =>
          \A k \in 1..n : KeepQuote(said[k], page) # Dropped =>
              \E c \in 1..Len(quotes) : quotes[c] = KeepQuote(said[k], page)

\* Each answer adds its quote, if there is one and if it is new.
LEMMA NextKeptIsKept ==
    ASSUME NEW said \in Seq(Seq(Symbol)), NEW page, NEW n \in Nat, n < Len(said),
           NEW quotes, KeptOf(quotes, said, page, n)
    PROVE  KeptOf(NextKept(quotes, KeepQuote(said[n + 1], page)), said, page, n + 1)
<1> HIDE DEF Symbol
<1> DEFINE quote == KeepQuote(said[n + 1], page)
           more == NextKept(quotes, quote)
<1>0. Len(said) \in Nat /\ MAX_QUOTES \in Nat /\ n + 1 \in 1..Len(said)
  BY LenProperties, QuoteCapsAssumption
<1>1. said[n + 1] \in Seq(Symbol)
  BY <1>0, ElementOfSeq
<1>2. quote # Dropped => quote \in Seq(Symbol)
  BY <1>1, KeptIsValid
<1>3. /\ quotes \in Seq(Seq(Symbol)) /\ Len(quotes) <= MAX_QUOTES /\ Len(quotes) <= n
      /\ Len(quotes) \in Nat /\ DOMAIN quotes = 1..Len(quotes)
      /\ \A c \in 1..Len(quotes) :
            \E k \in 1..n : /\ quotes[c] = KeepQuote(said[k], page)
                            /\ quotes[c] # Dropped
      /\ \A c, d \in 1..Len(quotes) : quotes[c] = quotes[d] => c = d
      /\ n <= MAX_QUOTES =>
            \A k \in 1..n : KeepQuote(said[k], page) # Dropped =>
                \E c \in 1..Len(quotes) : quotes[c] = KeepQuote(said[k], page)
  BY LenProperties DEF KeptOf
<1>4. \A k \in 1..n + 1 : k \in 1..n \/ k = n + 1
  OBVIOUS
<1>5. \A k \in 1..n : k \in 1..n + 1
  OBVIOUS
<1>6. CASE more = quotes
  <2>1. n + 1 <= MAX_QUOTES /\ quote # Dropped =>
           \E c \in 1..Len(quotes) : quotes[c] = quote
    <3> SUFFICES ASSUME n + 1 <= MAX_QUOTES, quote # Dropped
                 PROVE  \E c \in 1..Len(quotes) : quotes[c] = quote
      OBVIOUS
    <3>1. Len(quotes) < MAX_QUOTES
      BY <1>0, <1>3
    <3>2. Append(quotes, quote) # quotes
      <4> HIDE DEF quote
      <4>1. Len(Append(quotes, quote)) = Len(quotes) + 1
        BY <1>2, <1>3, AppendProperties
      <4>2. \A l \in Nat : l + 1 # l
        OBVIOUS
      <4>3. Len(quotes) \in Nat /\ Len(quotes) + 1 # Len(quotes)
        BY <1>3, <4>2
      <4> QED BY <4>1, <4>3
    <3>3. ~IsNew(quote, quotes)
      BY <1>6, <3>1, <3>2 DEF NextKept
    <3> QED BY <1>3, <3>3 DEF IsNew
  <2>2. n + 1 <= MAX_QUOTES => n <= MAX_QUOTES
    BY <1>0
  <2> HIDE DEF quote, more
  <2>3. KeptOf(quotes, said, page, n + 1)
    <3>1. Len(quotes) <= n + 1
      BY <1>3
    <3>2. \A c \in 1..Len(quotes) :
             \E k \in 1..n + 1 : /\ quotes[c] = KeepQuote(said[k], page)
                                 /\ quotes[c] # Dropped
      BY <1>3, <1>5
    <3>3. n + 1 <= MAX_QUOTES =>
             \A k \in 1..n + 1 : KeepQuote(said[k], page) # Dropped =>
                 \E c \in 1..Len(quotes) : quotes[c] = KeepQuote(said[k], page)
      BY <1>3, <1>4, <2>1, <2>2 DEF quote
    <3> QED BY <1>3, <3>1, <3>2, <3>3 DEF KeptOf
  <2> QED BY <1>6, <2>3 DEF more, quote
<1>7. CASE more # quotes
  <2>1. /\ quote # Dropped /\ IsNew(quote, quotes) /\ Len(quotes) < MAX_QUOTES
        /\ more = Append(quotes, quote)
    BY <1>7 DEF NextKept
  <2>2. \A c \in 1..Len(quotes) : quotes[c] # quote
    BY <1>3, <2>1 DEF IsNew
  <2> HIDE DEF quote, more
  <2>3. /\ more \in Seq(Seq(Symbol)) /\ Len(more) = Len(quotes) + 1
        /\ \A c \in 1..Len(quotes) : more[c] = quotes[c]
        /\ more[Len(quotes) + 1] = quote
    BY <1>2, <1>3, <2>1, AppendProperties
  <2>4. \A c \in 1..Len(more) : c \in 1..Len(quotes) \/ c = Len(quotes) + 1
    BY <1>3, <2>3
  <2>5. Len(more) <= MAX_QUOTES /\ Len(more) <= n + 1
    BY <1>0, <1>3, <2>1, <2>3
  <2>6. ASSUME NEW c \in 1..Len(more)
        PROVE  \E k \in 1..n + 1 : /\ more[c] = KeepQuote(said[k], page)
                                   /\ more[c] # Dropped
    <3>1. CASE c \in 1..Len(quotes)
      <4>1. \E k \in 1..n : /\ quotes[c] = KeepQuote(said[k], page)
                            /\ quotes[c] # Dropped
        BY <1>3, <3>1
      <4>2. more[c] = quotes[c]
        BY <2>3, <3>1
      <4> QED BY <1>5, <4>1, <4>2
    <3>2. CASE c = Len(quotes) + 1
      <4>1. n + 1 \in 1..n + 1
        OBVIOUS
      <4> QED BY <2>1, <2>3, <3>2, <4>1 DEF quote
    <3> QED BY <2>4, <3>1, <3>2
  <2>7. ASSUME NEW c \in 1..Len(more), NEW d \in 1..Len(more), more[c] = more[d]
        PROVE  c = d
    <3>1. CASE c \in 1..Len(quotes) /\ d \in 1..Len(quotes)
      BY <1>3, <2>3, <2>7, <3>1
    <3>2. CASE c \in 1..Len(quotes) /\ d = Len(quotes) + 1
      BY <2>2, <2>3, <2>7, <3>2
    <3>3. CASE c = Len(quotes) + 1 /\ d \in 1..Len(quotes)
      BY <2>2, <2>3, <2>7, <3>3
    <3> QED BY <2>4, <3>1, <3>2, <3>3
  <2>8. n + 1 <= MAX_QUOTES =>
           \A k \in 1..n + 1 : KeepQuote(said[k], page) # Dropped =>
               \E c \in 1..Len(more) : more[c] = KeepQuote(said[k], page)
    <3> SUFFICES ASSUME n + 1 <= MAX_QUOTES, NEW k \in 1..n + 1,
                        KeepQuote(said[k], page) # Dropped
                 PROVE  \E c \in 1..Len(more) : more[c] = KeepQuote(said[k], page)
      OBVIOUS
    <3>1. CASE k \in 1..n
      <4>0. n <= MAX_QUOTES
        BY <1>0
      <4>1. PICK c \in 1..Len(quotes) : quotes[c] = KeepQuote(said[k], page)
        BY <1>3, <3>1, <4>0
      <4>2. c \in 1..Len(more)
        BY <1>3, <2>3
      <4> QED BY <2>3, <4>1, <4>2
    <3>2. CASE k = n + 1
      <4>1. Len(quotes) + 1 \in 1..Len(more)
        BY <1>3, <2>3
      <4> QED BY <2>3, <3>2, <4>1 DEF quote
    <3> QED BY <1>4, <3>1, <3>2
  <2>9. KeptOf(more, said, page, n + 1)
    BY <2>3, <2>5, <2>6, <2>7, <2>8 DEF KeptOf
  <2> QED BY <2>9 DEF more, quote
<1> QED BY <1>6, <1>7

\* What is kept of a panel's answers.
LEMMA KeepQuotesAre ==
    ASSUME NEW said \in Seq(Seq(Symbol)), NEW page
    PROVE  KeptOf(KeepQuotes(said, page), said, page, Len(said))
<1> HIDE DEF Symbol
<1> DEFINE L == Len(said)
           X == Seq(Seq(Symbol))
           IsKeep(f) == f = [n \in 0..L |->
                               IF n = 0 THEN <<>>
                               ELSE NextKept(f[n - 1], KeepQuote(said[n], page))]
           keep == CHOOSE f : IsKeep(f)
           step == [a \in (1..L) \X X |-> NextKept(a[2], KeepQuote(said[a[1]], page))]
<1>0. L \in Nat /\ \A n \in 1..L : said[n] \in Seq(Symbol)
  BY LenProperties, ElementOfSeq
<1>1. << >> \in X /\ \A n \in 1..L, x \in X : NextKept(x, KeepQuote(said[n], page)) \in X
  <2>1. << >> \in X
    BY EmptySeq
  <2>2. ASSUME NEW n \in 1..L, NEW x \in X
        PROVE  NextKept(x, KeepQuote(said[n], page)) \in X
    <3> DEFINE quote == KeepQuote(said[n], page)
    <3>1. quote # Dropped => quote \in Seq(Symbol)
      BY <1>0, KeptIsValid
    <3>2. x \in Seq(Seq(Symbol))
      OBVIOUS
    <3> HIDE DEF quote
    <3>3. quote # Dropped => Append(x, quote) \in Seq(Seq(Symbol))
      BY <3>1, <3>2, AppendProperties
    <3> QED BY <3>2, <3>3 DEF NextKept, quote
  <2> QED BY <2>1, <2>2
<1>2. KeepQuotes(said, page) = keep[L]
  BY DEF KeepQuotes, NextKept
<1> HIDE DEF L
<1>3. \E f : IsKeep(f)
  <2> DEFINE first == << >>
  <2>1. step \in [(1..L) \X X -> X]
    <3> HIDE DEF X
    <3> QED BY <1>1
  <2>2. L \in Nat /\ first \in X
    BY <1>0, <1>1
  <2> HIDE DEF first, X, step
  <2>3. PICK f : Recursive(f, L, X, first, step)
    BY <2>1, <2>2, Recursion
  <2>4. /\ f \in [0..L -> X] /\ f[0] = first
        /\ \A n \in 1..L : f[n] = step[<<n, f[n - 1]>>]
    BY <2>3 DEF Recursive
  <2>5. ASSUME NEW n \in 0..L
        PROVE  f[n] = IF n = 0 THEN <<>>
                      ELSE NextKept(f[n - 1], KeepQuote(said[n], page))
    <3>1. CASE n = 0
      BY <2>4, <3>1 DEF first
    <3>2. CASE n # 0
      <4>1. n \in 1..L /\ n - 1 \in 0..L
        BY <1>0, <3>2
      <4>2. <<n, f[n - 1]>> \in (1..L) \X X
        BY <2>4, <4>1
      <4>3. step[<<n, f[n - 1]>>] = NextKept(f[n - 1], KeepQuote(said[n], page))
        BY <4>2 DEF step
      <4> QED BY <2>4, <3>2, <4>1, <4>3
    <3> QED BY <3>1, <3>2
  <2>6. IsKeep(f)
    BY <2>4, <2>5
  <2> HIDE DEF IsKeep
  <2> QED BY <2>6
<1>4. IsKeep(keep)
  <2> HIDE DEF IsKeep
  <2> QED BY <1>3
<1> HIDE DEF keep
<1>5. /\ keep[0] = <<>>
      /\ \A n \in 1..L : keep[n] = NextKept(keep[n - 1], KeepQuote(said[n], page))
  BY <1>0, <1>4
<1> HIDE DEF IsKeep, X
<1> DEFINE S == {n \in 0..L : KeptOf(keep[n], said, page, n)}
<1>6. 0 \in S
  <2>1. KeptOf(<<>>, said, page, 0)
    BY EmptySeq, QuoteCapsAssumption DEF KeptOf
  <2> QED BY <1>0, <1>5, <2>1
<1>7. ASSUME NEW n \in 0..L, n \in S, n < L
      PROVE  n + 1 \in S
  <2>1. n \in Nat /\ n < Len(said) /\ KeptOf(keep[n], said, page, n)
    BY <1>0, <1>7 DEF L
  <2>2. n + 1 \in 1..L /\ n + 1 - 1 = n /\ n + 1 \in 0..L
    BY <1>0, <1>7
  <2>3. keep[n + 1] = NextKept(keep[n], KeepQuote(said[n + 1], page))
    BY <1>5, <2>2
  <2>4. KeptOf(keep[n + 1], said, page, n + 1)
    BY <2>1, <2>3, NextKeptIsKept
  <2> QED BY <2>2, <2>4
<1> HIDE DEF S
<1>8. \A n \in 0..L : n \in S
  BY <1>0, <1>6, <1>7, Climb
<1>9. KeptOf(keep[L], said, page, L)
  BY <1>0, <1>8 DEF S
<1> QED BY <1>2, <1>9 DEF L

----------------------------------------------------------------------------
(* Words *)

\* The word that begins at p.
Token(s, p) == SubSeq(s, p, WordEnd(s, p))

\* Where the words of a text begin, and that each of them ends.
LEMMA WordsAre ==
    ASSUME NEW X, NEW s \in Seq(X)
    PROVE  /\ Len(s) \in Nat /\ WordStarts(s) \in SUBSET (1..Len(s))
           /\ \A p \in WordStarts(s) :
                 /\ WordEnd(s, p) \in p..Len(s) /\ ~IsLetter(s, WordEnd(s, p) + 1)
                 /\ \A q \in p..Len(s) : q < WordEnd(s, p) => IsLetter(s, q + 1)
           /\ Cardinality(WordStarts(s)) \in Nat
           /\ WordTokens(s) = [k \in 1..Cardinality(WordStarts(s)) |->
                                  Token(s, Nth(WordStarts(s), k))]
           /\ WordTokens(s) \in Seq(Seq(X))
           /\ Len(WordTokens(s)) = Cardinality(WordStarts(s))
<1> DEFINE W == WordStarts(s)
           c == Cardinality(W)
<1>1. Len(s) \in Nat /\ DOMAIN s = 1..Len(s)
  BY LenProperties
<1>2. W \in SUBSET (1..Len(s))
  BY <1>1 DEF WordStarts
<1> HIDE DEF W
<1>3. ASSUME NEW p \in W
      PROVE  /\ WordEnd(s, p) \in p..Len(s) /\ ~IsLetter(s, WordEnd(s, p) + 1)
             /\ \A q \in p..Len(s) : q < WordEnd(s, p) => IsLetter(s, q + 1)
  <2> DEFINE ends == {q \in p..Len(s) : ~IsLetter(s, q + 1)}
  <2>1. p \in 1..Len(s) /\ p \in Nat
    BY <1>1, <1>2
  <2>2. ~IsLetter(s, Len(s) + 1)
    <3>1. ~(Len(s) + 1 \in 1..Len(s))
      BY <1>1
    <3> QED BY <1>1, <3>1 DEF IsLetter
  <2>3. ends \in SUBSET Nat
    BY <1>1, <2>1
  <2>4. Len(s) \in ends
    BY <1>1, <2>1, <2>2
  <2>5. Min(ends) \in ends /\ \A x \in ends : Min(ends) <= x
    <3> HIDE DEF ends
    <3> QED BY <2>3, <2>4, MinProperties
  <2>6. WordEnd(s, p) = Min(ends)
    BY DEF WordEnd
  <2> DEFINE e == Min(ends)
  <2>7. e \in p..Len(s) /\ ~IsLetter(s, e + 1)
    BY <2>5
  <2>8. \A x \in ends : e <= x
    BY <2>5
  <2> HIDE DEF e
  <2>9. ASSUME NEW q \in p..Len(s), q < e, ~IsLetter(s, q + 1)
        PROVE  FALSE
    BY <1>1, <2>1, <2>7, <2>8, <2>9
  <2> QED BY <2>6, <2>7, <2>9 DEF e
<1>4. c \in Nat /\ \A k \in 1..c : Nth(W, k) \in W
  <2>1. W \in SUBSET (0..Len(s))
    BY <1>1, <1>2
  <2> QED BY <1>1, <2>1, NthProperties
<1>5. WordTokens(s) = [k \in 1..c |-> Token(s, Nth(W, k))]
  BY DEF WordTokens, Token, W
<1>6. ASSUME NEW p \in W
      PROVE  Token(s, p) \in Seq(X)
  <2>1. p \in 1..Len(s) + 1 /\ WordEnd(s, p) \in 0..Len(s)
    BY <1>1, <1>2, <1>3
  <2> QED BY <2>1, PartSymbols DEF Token
<1>7. \A k \in 1..c : Token(s, Nth(W, k)) \in Seq(X)
  BY <1>4, <1>6
<1> HIDE DEF c
<1>8. WordTokens(s) \in Seq(Seq(X)) /\ Len(WordTokens(s)) = c
  <2> DEFINE Y == Seq(X)
             f(k) == Token(s, Nth(W, k))
  <2>1. \A k \in 1..c : f(k) \in Y
    BY <1>7
  <2>2. WordTokens(s) = [k \in 1..c |-> f(k)]
    BY <1>5
  <2> HIDE DEF Y, f
  <2>3. WordTokens(s) \in Seq(Y) /\ Len(WordTokens(s)) = c
    BY <1>4, <2>1, <2>2
  <2> QED BY <2>3 DEF Y
<1> QED BY <1>1, <1>2, <1>3, <1>4, <1>5, <1>8 DEF W, c

\* A part of a text that begins and ends with no half word.
Window(s, a, b) ==
    /\ a \in 1..Len(s) + 1 /\ b \in 0..Len(s)
    /\ ~(IsLetter(s, a - 1)) /\ ~(IsLetter(s, b + 1))

\* A part of a part.
LEMMA PartOfPart ==
    ASSUME NEW X, NEW s \in Seq(X), NEW a \in 1..Len(s) + 1, NEW b \in 0..Len(s),
           NEW d \in Nat, d = a - 1,
           NEW p \in Nat, NEW e \in Nat, 1 <= p, p <= e, e + d <= b
    PROVE  SubSeq(SubSeq(s, a, b), p, e) = SubSeq(s, p + d, e + d)
<1> DEFINE t == SubSeq(s, a, b)
           u == SubSeq(t, p, e)
           x == p + d
           y == e + d
           v == SubSeq(s, x, y)
<1>1. Len(s) \in Nat /\ a \in Nat /\ b \in Nat /\ a <= b /\ b - a + 1 = b - d
  BY LenProperties
<1>2. /\ t \in Seq(X) /\ Len(t) = b - d /\ \A k \in 1..b - d : t[k] = s[a + k - 1]
  BY <1>1, PartSymbols
<1>3. /\ x \in 1..Len(s) + 1 /\ y \in 0..Len(s) /\ y - x + 1 = e - p + 1 /\ x <= y
      /\ p \in 1..Len(t) + 1 /\ e \in 0..Len(t)
  BY <1>1, <1>2
<1>4. /\ u \in Seq(X) /\ Len(u) = e - p + 1
      /\ \A k \in 1..e - p + 1 : u[k] = t[p + k - 1]
  <2>1. p <= e
    OBVIOUS
  <2> HIDE DEF t, x, y, v
  <2> QED BY <1>2, <1>3, <2>1, PartSymbols, SMTT(30)
<1> HIDE DEF x, y
<1>5. /\ v \in Seq(X) /\ Len(v) = e - p + 1
      /\ \A k \in 1..e - p + 1 : v[k] = s[x + k - 1]
  <2>1. /\ v \in Seq(X) /\ Len(v) = y - x + 1
        /\ \A k \in 1..y - x + 1 : v[k] = s[x + k - 1]
    BY <1>3, PartSymbols, SMTT(30)
  <2> HIDE DEF v
  <2> QED BY <1>3, <2>1
<1>6. ASSUME NEW k \in 1..e - p + 1
      PROVE  u[k] = v[k]
  <2>1. p + k - 1 \in 1..b - d /\ a + (p + k - 1) - 1 = x + k - 1
    BY <1>1 DEF x
  <2>2. t[p + k - 1] = s[a + (p + k - 1) - 1]
    BY <1>2, <2>1
  <2> HIDE DEF t, u, v
  <2> QED BY <1>4, <1>5, <2>1, <2>2
<1> HIDE DEF u, v
<1>7. u = v
  BY <1>4, <1>5, <1>6, SameText
<1> QED BY <1>7 DEF u, v, t, x, y

\* The words of such a part are those of the text that begin in it.
LEMMA WindowWords ==
    ASSUME NEW X, NEW s \in Seq(X), NEW a, NEW b, Window(s, a, b)
    PROVE  LET W == WordStarts(s) \cap (a..b)
           IN  WordTokens(SubSeq(s, a, b))
                  = [k \in 1..Cardinality(W) |-> Token(s, Nth(W, k))]
<1> DEFINE t == SubSeq(s, a, b)
           d == a - 1
           W == WordStarts(s) \cap (a..b)
           T == WordStarts(t)
<1>1. /\ a \in 1..Len(s) + 1 /\ b \in 0..Len(s) /\ Len(s) \in Nat
      /\ DOMAIN s = 1..Len(s)
      /\ ~(IsLetter(s, a - 1)) /\ ~(IsLetter(s, b + 1))
  BY LenProperties DEF Window
<1>2. /\ a \in Nat /\ b \in Nat /\ d \in Nat /\ d + 1 = a /\ d = a - 1
  BY <1>1
<1>3. /\ t \in Seq(X) /\ Len(t) = IF a <= b THEN b - a + 1 ELSE 0
      /\ \A k \in 1..b - a + 1 : t[k] = s[a + k - 1]
  BY <1>1, PartSymbols
<1> HIDE DEF t, d
<1>4. /\ Len(t) \in Nat /\ DOMAIN t = 1..Len(t)
      /\ \A p \in 1..Len(t) : t[p] = s[p + d] /\ p + d \in a..b
      /\ \A q \in a..b : q - d \in 1..Len(t) /\ q - d + d = q
  <2>1. Len(t) \in Nat /\ DOMAIN t = 1..Len(t)
    BY <1>3, LenProperties
  <2>2. ASSUME NEW p \in 1..Len(t)
        PROVE  t[p] = s[p + d] /\ p + d \in a..b
    <3>1. p \in 1..b - a + 1 /\ a + p - 1 = p + d /\ p + d \in a..b
      BY <1>2, <1>3, <2>1
    <3>2. t[p] = s[a + p - 1]
      BY <1>3, <3>1
    <3> QED BY <3>1, <3>2
  <2>3. \A q \in a..b : q - d \in 1..Len(t) /\ q - d + d = q
    BY <1>2, <1>3
  <2> QED BY <2>1, <2>2, <2>3
<1>5. \A p \in 1..Len(t) : IsLetter(t, p) <=> IsLetter(s, p + d)
  <2> SUFFICES ASSUME NEW p \in 1..Len(t)
               PROVE  IsLetter(t, p) <=> IsLetter(s, p + d)
    OBVIOUS
  <2>1. p + d \in 1..Len(s)
    BY <1>1, <1>2, <1>4
  <2> QED BY <1>1, <1>4, <2>1 DEF IsLetter
<1>6. \A p \in 1..Len(t) : IsLetter(t, p - 1) <=> IsLetter(s, p + d - 1)
  <2> SUFFICES ASSUME NEW p \in 1..Len(t)
               PROVE  IsLetter(t, p - 1) <=> IsLetter(s, p + d - 1)
    OBVIOUS
  <2>1. CASE p = 1
    <3>1. p + d - 1 = a - 1 /\ ~(p - 1 \in 1..Len(t))
      BY <1>2, <2>1
    <3>2. ~IsLetter(t, p - 1)
      BY <1>4, <3>1 DEF IsLetter
    <3> QED BY <1>1, <3>1, <3>2
  <2>2. CASE p # 1
    <3>1. p - 1 \in 1..Len(t) /\ p - 1 + d = p + d - 1
      BY <1>2, <1>4, <2>2
    <3> QED BY <1>5, <3>1
  <2> QED BY <2>1, <2>2
<1>7. \A p \in 1..Len(t) : IsLetter(t, p + 1) <=> IsLetter(s, p + 1 + d)
  <2> SUFFICES ASSUME NEW p \in 1..Len(t)
               PROVE  IsLetter(t, p + 1) <=> IsLetter(s, p + 1 + d)
    OBVIOUS
  <2>1. CASE p = Len(t)
    <3>1. p + 1 + d = b + 1 /\ ~(p + 1 \in 1..Len(t))
      BY <1>2, <1>3, <1>4, <2>1
    <3>2. ~IsLetter(t, p + 1)
      BY <1>4, <3>1 DEF IsLetter
    <3> QED BY <1>1, <3>1, <3>2
  <2>2. CASE p # Len(t)
    <3>0. Len(t) \in Nat
      BY <1>4
    <3>1. p + 1 \in 1..Len(t)
      BY <2>2, <3>0
    <3> QED BY <1>5, <3>1
  <2> QED BY <2>1, <2>2
<1>8. \A p \in 1..Len(t) : p \in T <=> p + d \in W
  <2> SUFFICES ASSUME NEW p \in 1..Len(t)
               PROVE  p \in T <=> p + d \in W
    OBVIOUS
  <2>0. p + d \in a..b
    BY <1>4
  <2>1. p + d \in 1..Len(s)
    BY <1>1, <1>2, <2>0
  <2>2. p \in T <=> IsLetter(t, p) /\ ~IsLetter(t, p - 1)
    BY <1>4 DEF WordStarts
  <2>3. p + d \in W <=> IsLetter(s, p + d) /\ ~IsLetter(s, p + d - 1)
    <3>1. \A q \in a..b : q \in 1..Len(s) =>
             (q \in W <=> (IsLetter(s, q) /\ ~IsLetter(s, q - 1)))
      BY <1>1 DEF WordStarts
    <3> HIDE DEF W
    <3> QED BY <1>2, <2>0, <2>1, <3>1
  <2> HIDE DEF T, W
  <2> QED BY <1>5, <1>6, <2>2, <2>3
<1>9. ASSUME NEW p \in T
      PROVE  p + d \in W /\ Token(t, p) = Token(s, p + d)
  <2>1. p \in 1..Len(t) /\ WordEnd(t, p) \in p..Len(t) /\ ~IsLetter(t, WordEnd(t, p) + 1)
        /\ \A q \in p..Len(t) : q < WordEnd(t, p) => IsLetter(t, q + 1)
    <3>1. T \in SUBSET (1..Len(t))
      BY <1>3, WordsAre
    <3>2. p \in 1..Len(t)
      BY <3>1
    <3> QED BY <1>3, <3>2, WordsAre
  <2>2. p + d \in W /\ p + d \in WordStarts(s) /\ p + d \in a..b
    BY <1>8, <2>1
  <2>3. /\ WordEnd(s, p + d) \in p + d..Len(s) /\ ~IsLetter(s, WordEnd(s, p + d) + 1)
        /\ \A q \in p + d..Len(s) : q < WordEnd(s, p + d) => IsLetter(s, q + 1)
    BY <2>2, WordsAre
  <2> DEFINE e == WordEnd(t, p)
             z == WordEnd(s, p + d)
  <2>4. e \in p..Len(t) /\ z \in p + d..Len(s) /\ e \in 1..Len(t)
    BY <1>4, <2>1, <2>3
  <2> HIDE DEF e, z
  <2>5. ~(z < e + d)
    <3> SUFFICES ASSUME z < e + d
                 PROVE  FALSE
      OBVIOUS
    <3> DEFINE q == z - d
    <3>0. /\ Len(t) \in Nat /\ d \in Nat /\ p \in 1..Len(t) /\ e \in p..Len(t)
          /\ z \in Int /\ p + d <= z /\ z < e + d
      BY <1>2, <1>4, <2>1, <2>4
    <3>1. q \in p..Len(t) /\ q < e /\ q \in 1..Len(t) /\ q + 1 + d = z + 1
      BY <3>0
    <3> HIDE DEF q
    <3>2. IsLetter(t, q + 1)
      BY <2>1, <3>1 DEF e
    <3>3. IsLetter(s, z + 1)
      BY <1>7, <3>1, <3>2
    <3> QED BY <2>3, <3>3 DEF z
  <2>6. ~(e + d < z)
    <3> SUFFICES ASSUME e + d < z
                 PROVE  FALSE
      OBVIOUS
    <3> DEFINE q == e + d
    <3>1. q \in p + d..Len(s) /\ q < z /\ e + 1 + d = q + 1
      BY <1>1, <1>2, <1>4, <2>1, <2>4
    <3> HIDE DEF q
    <3>2. IsLetter(s, q + 1)
      BY <2>3, <3>1 DEF z
    <3>3. IsLetter(t, e + 1)
      BY <1>7, <2>4, <3>1, <3>2
    <3> QED BY <2>1, <3>3 DEF e
  <2>7. z = e + d
    BY <1>1, <1>2, <1>4, <2>4, <2>5, <2>6
  <2>8. p \in Nat /\ e \in Nat /\ 1 <= p /\ p <= e /\ e + d <= b
    BY <1>2, <1>4, <2>1, <2>4
  <2>9. SubSeq(t, p, e) = SubSeq(s, p + d, e + d)
    BY <1>1, <1>2, <2>8, PartOfPart DEF t
  <2> QED BY <2>2, <2>7, <2>9 DEF Token, e, z
<1>10. /\ T \in SUBSET (1..Len(t)) /\ Cardinality(T) \in Nat
       /\ WordTokens(t) = [k \in 1..Cardinality(T) |-> Token(t, Nth(T, k))]
  BY <1>3, WordsAre
<1> DEFINE c == Cardinality(T)
           f == [k \in 1..c |-> Nth(T, k)]
           g == [k \in 1..c |-> f[k] + d]
<1>11. Lists(f, c, T) /\ \A k \in 1..c : f[k] \in T /\ f[k] \in 1..Len(t)
  <2>1. T \in SUBSET (0..Len(t))
    BY <1>4, <1>10
  <2>2. Lists(f, c, T)
    BY <1>4, <2>1, NthLists
  <2>3. f \in [1..c -> T]
    BY <2>2 DEF Lists
  <2>4. \A k \in 1..c : f[k] \in T
    BY <2>3
  <2> QED BY <1>10, <2>2, <2>4
<1>12. \A k \in 1..c : f[k] = Nth(T, k)
  OBVIOUS
<1> HIDE DEF f, T, W
<1>13. Lists(g, c, W)
  <2>1. g \in [1..c -> W]
    BY <1>9, <1>11
  <2>2. ASSUME NEW q \in W
        PROVE  \E k \in 1..c : g[k] = q
    <3>1. q \in a..b
      BY DEF W
    <3> DEFINE p == q - d
    <3>2. p \in 1..Len(t) /\ p + d = q
      BY <1>4, <3>1
    <3> HIDE DEF p
    <3>3. p \in T
      BY <1>8, <3>2
    <3>4. PICK k \in 1..c : f[k] = p
      BY <1>11, <3>3 DEF Lists
    <3> QED BY <3>2, <3>4
  <2>3. ASSUME NEW k \in 1..c, NEW l \in 1..c, k < l
        PROVE  g[k] < g[l]
    <3>1. f[k] < f[l]
      BY <1>11, <2>3 DEF Lists
    <3>2. f[k] \in Nat /\ f[l] \in Nat
      BY <1>4, <1>11
    <3> QED BY <1>2, <3>1, <3>2
  <2> HIDE DEF g
  <2> QED BY <2>1, <2>2, <2>3 DEF Lists
<1>14. Cardinality(W) = c /\ \A k \in 1..c : Nth(W, k) = g[k]
  <2>1. W \in SUBSET (0..Len(s))
    BY <1>1, <1>2 DEF W
  <2>2. c \in Nat
    BY <1>10
  <2> HIDE DEF g, c
  <2> QED BY <1>1, <1>13, <2>1, <2>2, ListsIsNth
<1>15. \A k \in 1..c : g[k] = f[k] + d
  OBVIOUS
<1> HIDE DEF g, c
<1>16. \A k \in 1..c : Token(t, Nth(T, k)) = Token(s, Nth(W, k))
  BY <1>9, <1>11, <1>12, <1>14, <1>15
<1>17. WordTokens(t) = [k \in 1..c |-> Token(s, Nth(W, k))]
  BY <1>10, <1>16 DEF c
<1> QED BY <1>14, <1>17 DEF t, W

\* The first elements of a set of numbers are those of its lower part.
LEMMA LowerNth ==
    ASSUME NEW m \in Nat, NEW S \in SUBSET (1..m), NEW n \in Nat
    PROVE  LET T == S \cap (1..n)
           IN  /\ Cardinality(S) \in Nat /\ Cardinality(T) \in 0..Cardinality(S)
               /\ \A k \in 1..Cardinality(T) : Nth(T, k) = Nth(S, k)
<1> DEFINE T == S \cap (1..n)
<1>1. S \in SUBSET (0..m) /\ T \in SUBSET (0..m) /\ T \subseteq S
  OBVIOUS
<1>2. \A p \in S : p \in T <=> p <= n
  OBVIOUS
<1> HIDE DEF T
<1>3. /\ IsFiniteSet(S) /\ Cardinality(S) \in Nat
      /\ \A p \in S : Nth(S, Rank(S, p)) = p
  BY <1>1, NthProperties
<1>4. /\ Cardinality(T) \in Nat
      /\ \A k \in 1..Cardinality(T) : Nth(T, k) \in T /\ Rank(T, Nth(T, k)) = k
  BY <1>1, NthProperties
<1>5. Cardinality(T) <= Cardinality(S)
  BY <1>1, <1>3, FS_Subset
<1>6. ASSUME NEW p \in T
      PROVE  Rank(T, p) = Rank(S, p)
  <2>1. \A q \in S : q <= p => q \in T
    <3>1. \A q \in S : q \in Nat
      OBVIOUS
    <3>2. p <= n /\ p \in Nat
      BY <1>1, <1>2
    <3> QED BY <1>2, <3>1, <3>2
  <2>2. {q \in S : q <= p} = {q \in T : q <= p}
    BY <1>1, <2>1
  <2> QED BY <2>2 DEF Rank
<1>7. ASSUME NEW k \in 1..Cardinality(T)
      PROVE  Nth(T, k) = Nth(S, k)
  <2> DEFINE p == Nth(T, k)
  <2>1. p \in T /\ Rank(T, p) = k
    BY <1>4
  <2> HIDE DEF p
  <2>2. Rank(S, p) = k /\ p \in S
    BY <1>1, <1>6, <2>1
  <2>3. Nth(S, k) = p
    BY <1>3, <2>2
  <2> QED BY <2>3 DEF p
<1> QED BY <1>3, <1>4, <1>5, <1>7 DEF T

\* A prefix that ends in no half word has the first words of the text.
LEMMA PrefixWords ==
    ASSUME NEW X, NEW s \in Seq(X), NEW n \in 0..Len(s),
           n < Len(s) => s[n + 1] \notin Letters
    PROVE  LET words == WordTokens(s)
               m == Len(WordTokens(SubSeq(s, 1, n)))
           IN  m \in 0..Len(words) /\ WordTokens(SubSeq(s, 1, n)) = SubSeq(words, 1, m)
<1> DEFINE W == WordStarts(s)
           T == W \cap (1..n)
           c == Cardinality(T)
           words == WordTokens(s)
           first == WordTokens(SubSeq(s, 1, n))
<1>1. /\ Len(s) \in Nat /\ DOMAIN s = 1..Len(s) /\ W \in SUBSET (1..Len(s))
      /\ words = [k \in 1..Cardinality(W) |-> Token(s, Nth(W, k))]
      /\ words \in Seq(Seq(X)) /\ Len(words) = Cardinality(W)
  BY WordsAre, LenProperties
<1>2. Window(s, 1, n)
  <2>1. 1 \in 1..Len(s) + 1 /\ n \in 0..Len(s) /\ ~(1 - 1 \in 1..Len(s))
    BY <1>1
  <2>2. ~(IsLetter(s, 1 - 1))
    BY <1>1, <2>1 DEF IsLetter
  <2>3. ~(IsLetter(s, n + 1))
    <3>1. CASE n < Len(s)
      BY <3>1 DEF IsLetter
    <3>2. CASE ~(n < Len(s))
      <4>1. ~(n + 1 \in 1..Len(s))
        BY <1>1, <3>2
      <4> QED BY <1>1, <4>1 DEF IsLetter
    <3> QED BY <3>1, <3>2
  <2> QED BY <2>1, <2>2, <2>3 DEF Window
<1>3. first = [k \in 1..c |-> Token(s, Nth(T, k))]
  BY <1>2, WindowWords
<1>4. /\ c \in 0..Cardinality(W) /\ Cardinality(W) \in Nat
      /\ \A k \in 1..c : Nth(T, k) = Nth(W, k)
  <2>1. n \in Nat
    BY <1>1
  <2> HIDE DEF W
  <2> QED BY <1>1, <2>1, LowerNth
<1>5. \A k \in 1..c : first[k] = words[k]
  <2>1. \A k \in 1..c : k \in 1..Cardinality(W)
    BY <1>4
  <2> HIDE DEF c, W, words, first, T
  <2> QED BY <1>1, <1>3, <1>4, <2>1
<1>6. first \in Seq(Seq(X)) /\ Len(first) = c
  <2> DEFINE Y == Seq(X)
  <2>1. \A k \in 1..c : words[k] \in Y
    <3>1. \A k \in 1..c : k \in 1..Len(words)
      BY <1>1, <1>4
    <3> HIDE DEF words, c
    <3> QED BY <1>1, <3>1, ElementOfSeq
  <2>2. c \in Nat
    BY <1>4
  <2>3. first = [k \in 1..c |-> words[k]]
    <3> HIDE DEF c, T, W, words, first
    <3>1. DOMAIN first = 1..c /\ first = [k \in 1..c |-> first[k]]
      BY <1>3
    <3> QED BY <1>5, <3>1
  <2> HIDE DEF c, first, words, Y
  <2>4. first \in Seq(Y) /\ Len(first) = c
    BY <2>1, <2>2, <2>3
  <2> QED BY <2>4 DEF Y
<1> DEFINE u == SubSeq(words, 1, c)
<1>7. c \in 0..Len(words)
  BY <1>1, <1>4
<1> HIDE DEF c, words, first
<1>8. u \in Seq(Seq(X)) /\ Len(u) = c /\ \A k \in 1..c : u[k] = words[k]
  <2> DEFINE Y == Seq(X)
  <2>1. words \in Seq(Y)
    BY <1>1
  <2> HIDE DEF Y
  <2>2. u \in Seq(Y) /\ Len(u) = c /\ \A k \in 1..c : u[k] = words[k]
    BY <1>7, <2>1, PrefixSymbols
  <2> QED BY <2>2 DEF Y
<1> HIDE DEF u
<1>9. first = u
  <2> DEFINE Y == Seq(X)
  <2>1. first \in Seq(Y) /\ u \in Seq(Y) /\ Len(first) = Len(u)
           /\ \A k \in 1..Len(first) : first[k] = u[k]
    BY <1>5, <1>6, <1>8
  <2> HIDE DEF Y
  <2> QED BY <2>1, SameText
<1> QED BY <1>6, <1>7, <1>9 DEF u, words, first

\* Strip takes no word.
LEMMA StripWords ==
    ASSUME NEW X, NEW s \in Seq(X)
    PROVE  WordTokens(Strip(s)) = WordTokens(s)
<1> DEFINE W == WordStarts(s)
<1>0. Space \notin Letters
  BY LettersAssumption
<1>1. /\ Len(s) \in Nat /\ DOMAIN s = 1..Len(s) /\ W \in SUBSET (1..Len(s))
      /\ \A p \in W : s[p] \in Letters
      /\ WordTokens(s) = [k \in 1..Cardinality(W) |-> Token(s, Nth(W, k))]
  <2>1. \A p \in W : s[p] \in Letters
    BY DEF WordStarts, IsLetter
  <2> QED BY <2>1, WordsAre, LenProperties
<1>2. CASE Strip(s) = <<>> /\ \A p \in 1..Len(s) : s[p] = Space
  <2>1. W = {}
    BY <1>0, <1>1, <1>2
  <2>2. WordTokens(s) = <<>>
    <3>1. Cardinality(W) = 0
      BY <2>1, FS_EmptySet
    <3> HIDE DEF W
    <3> QED BY <1>1, <3>1
  <2>3. WordTokens(<<>>) = <<>>
    <3>1. WordStarts(<<>>) = {}
      BY DEF WordStarts
    <3>2. Cardinality(WordStarts(<<>>)) = 0
      BY <3>1, FS_EmptySet
    <3> QED BY <3>2 DEF WordTokens
  <2> QED BY <1>2, <2>2, <2>3
<1>3. ASSUME NEW a, NEW b, Ink(s, a, b)
      PROVE  WordTokens(Strip(s)) = WordTokens(s)
  <2>1. /\ a \in 1..Len(s) /\ b \in a..Len(s) /\ Strip(s) = SubSeq(s, a, b)
        /\ \A p \in 1..Len(s) : (p < a \/ b < p) => s[p] = Space
    BY <1>3 DEF Ink
  <2>2. a \in 1..Len(s) + 1 /\ b \in 0..Len(s) /\ a \in Nat /\ b \in Nat
    BY <1>1, <2>1
  <2>3. \A p : (p = a - 1 \/ p = b + 1) => ~(IsLetter(s, p))
    <3> SUFFICES ASSUME NEW p \in 1..Len(s), p = a - 1 \/ p = b + 1
                 PROVE  s[p] \notin Letters
      BY <1>1 DEF IsLetter
    <3>1. p < a \/ b < p
      BY <2>2
    <3> QED BY <1>0, <2>1, <3>1
  <2>4. Window(s, a, b)
    BY <2>2, <2>3 DEF Window
  <2>5. W \cap (a..b) = W
    <3> SUFFICES ASSUME NEW p \in W
                 PROVE  p \in a..b
      OBVIOUS
    <3>1. p \in 1..Len(s) /\ s[p] # Space
      BY <1>0, <1>1
    <3>2. ~(p < a \/ b < p)
      BY <2>1, <3>1
    <3> QED BY <2>2, <3>1, <3>2
  <2>6. WordTokens(SubSeq(s, a, b))
           = [k \in 1..Cardinality(W \cap (a..b)) |-> Token(s, Nth(W \cap (a..b), k))]
    BY <2>4, WindowWords
  <2> HIDE DEF W
  <2> QED BY <1>1, <2>1, <2>5, <2>6
<1> QED BY <1>2, <1>3, StripIs

----------------------------------------------------------------------------
(* Grounding a quote that is not spliced *)

\* It has one part, and is grounded if it has two words or more and the text
\* has them in a run.
LEMMA GroundedIs ==
    ASSUME NEW X, NEW quote \in Seq(X), ~Spliced(quote), NEW page
    PROVE  LET words == WordTokens(quote)
           IN  QuoteGrounded(quote, page) <=>
                  /\ words # <<>> /\ Len(words) # 1
                  /\ FindRun(WordTokens(page), words, 0) # NotFound
<1> DEFINE L == Len(quote)
           words == WordTokens(quote)
           hay == WordTokens(page)
           found == IF words = <<>> THEN 0
                    ELSE IF Len(words) = 1 THEN NotFound ELSE FindRun(hay, words, 0)
           IsAt(f) == f = [k \in 0..1 |->
                              IF k = 0 THEN 0
                              ELSE IF words = <<>> THEN f[k - 1]
                              ELSE IF f[k - 1] = NotFound \/ Len(words) = 1 THEN NotFound
                              ELSE FindRun(hay, words, f[k - 1])]
<1>1. Parts(quote) = <<quote>>
  <2> DEFINE marks == {p \in DOMAIN quote : quote[p] = Ellipsis} \cup {L + 1}
  <2>0. L \in Nat
    BY LenProperties
  <2>1. marks = {L + 1}
    BY DEF Spliced
  <2>2. Cardinality(marks) = 1
    <3> HIDE DEF marks
    <3> QED BY <2>1, FS_Singleton
  <2>3. Nth(marks, 1) = L + 1
    <3>1. marks \in SUBSET (0..L + 1) /\ L + 1 \in Nat
      BY <2>0, <2>1
    <3> HIDE DEF marks, L
    <3> DEFINE m == L + 1
    <3>2. m \in Nat /\ marks \in SUBSET (0..m)
      BY <3>1
    <3> HIDE DEF m
    <3>3. 1 \in 1..Cardinality(marks)
      BY <2>2
    <3>4. Nth(marks, 1) \in marks
      BY <3>2, <3>3, NthProperties
    <3> QED BY <2>1, <3>4
  <2>4. SubSeq(quote, 1, Nth(marks, 1) - 1) = quote
    <3> HIDE DEF marks
    <3>1. Nth(marks, 1) - 1 = L
      BY <2>0, <2>3
    <3> QED BY <3>1, PrefixAll
  <2>5. Parts(quote) = [k \in 1..Cardinality(marks) |->
                          SubSeq(quote, IF k = 1 THEN 1 ELSE Nth(marks, k - 1) + 1,
                                 Nth(marks, k) - 1)]
    BY DEF Parts
  <2> HIDE DEF marks, L
  <2>6. Parts(quote) = [k \in 1..1 |-> quote]
    <3>1. \A k \in 1..1 : k = 1
      OBVIOUS
    <3>2. \A k \in 1..1 :
             SubSeq(quote, IF k = 1 THEN 1 ELSE Nth(marks, k - 1) + 1, Nth(marks, k) - 1)
                = quote
      BY <2>4, <3>1, Zenon
    <3> QED BY <2>2, <2>5, <3>2
  <2> QED BY <2>6
<1> DEFINE at == CHOOSE f : IsAt(f)
<1>2. \E f : IsAt(f)
  <2> DEFINE f == [k \in 0..1 |-> IF k = 0 THEN 0 ELSE found]
  <2>1. \A k \in 0..1 : k = 0 \/ k = 1
    OBVIOUS
  <2>2. 0 # NotFound
    BY DEF NotFound
  <2>3. f[0] = 0 /\ f[1] = found
    OBVIOUS
  <2>4. IsAt(f)
    BY <2>1, <2>2
  <2> HIDE DEF f, IsAt
  <2> QED BY <2>4
<1>3. IsAt(at)
  <2> HIDE DEF IsAt
  <2> QED BY <1>2
<1> HIDE DEF at
<1>4. at[1] = found
  <2>1. at[0] = 0
    BY <1>3
  <2>2. at[1] = IF words = <<>> THEN at[0]
                ELSE IF at[0] = NotFound \/ Len(words) = 1 THEN NotFound
                ELSE FindRun(hay, words, at[0])
    BY <1>3
  <2>3. 0 # NotFound
    BY DEF NotFound
  <2> HIDE DEF words, hay
  <2> QED BY <2>1, <2>2, <2>3
<1>5. GroundsInOrder(hay, quote) <=> at[1] # NotFound /\ words # <<>>
  <2> DEFINE parts == Parts(quote)
             IsPos(f) == f = [k \in 0..Len(parts) |->
                              IF k = 0 THEN 0
                              ELSE IF WordTokens(parts[k]) = <<>> THEN f[k - 1]
                              ELSE IF f[k - 1] = NotFound \/ Len(WordTokens(parts[k])) = 1 THEN NotFound
                              ELSE FindRun(hay, WordTokens(parts[k]), f[k - 1])]
             pos == CHOOSE f : IsPos(f)
  <2>1. GroundsInOrder(hay, quote) <=>
           /\ pos[Len(parts)] # NotFound
           /\ \E k \in DOMAIN parts : WordTokens(parts[k]) # <<>>
    <3> HIDE DEF hay
    <3> QED BY DEF GroundsInOrder
  <2>2. Len(parts) = 1 /\ DOMAIN parts = {1} /\ parts[1] = quote
    BY <1>1
  <2>3. pos = at
    <3>1. \A f : IsPos(f) <=> IsAt(f)
      <4> SUFFICES ASSUME NEW f
                   PROVE  [k \in 0..Len(parts) |->
                              IF k = 0 THEN 0
                              ELSE IF WordTokens(parts[k]) = <<>> THEN f[k - 1]
                              ELSE IF f[k - 1] = NotFound \/ Len(WordTokens(parts[k])) = 1 THEN NotFound
                              ELSE FindRun(hay, WordTokens(parts[k]), f[k - 1])]
                           = [k \in 0..1 |->
                              IF k = 0 THEN 0
                              ELSE IF words = <<>> THEN f[k - 1]
                              ELSE IF f[k - 1] = NotFound \/ Len(words) = 1 THEN NotFound
                              ELSE FindRun(hay, words, f[k - 1])]
        BY DEF IsPos
      <4>1. \A k \in 0..1 : k = 0 \/ k = 1
        OBVIOUS
      <4> HIDE DEF parts, hay
      <4> QED BY <2>2, <4>1
    <3> HIDE DEF IsPos, IsAt
    <3> QED BY <3>1 DEF at
  <2> HIDE DEF pos, parts
  <2> QED BY <2>1, <2>2, <2>3
<1>6. QuoteGrounded(quote, page) <=> GroundsInOrder(hay, quote)
  BY DEF QuoteGrounded
<1> HIDE DEF words, hay
<1> QED BY <1>4, <1>5, <1>6 DEF words, hay

\* Strings are symbols.
LEMMA StringsAreSymbols == /\ Seq(STRING) \subseteq Seq(Symbol)
                           /\ Seq(Seq(STRING)) \subseteq Seq(Seq(Symbol))
<1>1. STRING \subseteq Symbol
  BY DEF Symbol
<1> HIDE DEF Symbol
<1>2. Seq(STRING) \subseteq Seq(Symbol)
  BY <1>1, SeqMonotonic
<1>3. Seq(Seq(STRING)) \subseteq Seq(Seq(Symbol))
  BY <1>2, SeqMonotonic
<1> QED BY <1>2, <1>3

----------------------------------------------------------------------------
(* Bytes *)

\* A symbol of a text, and which byte of it.
Byte == Symbol \X (1..4)
Bytes(c) == [b \in 1..BytesOf(c) |-> <<c, b>>]

\* A page, and the lengths of its symbols.
IsPage(body) == /\ body \in Seq(Symbol)
                /\ \A p \in 1..Len(body) : BytesOf(body[p]) \in 1..4

\* enc[n] encodes the first n symbols of a page.
Encoded(enc, body) ==
    /\ \A n \in 0..Len(body) : enc[n] \in Seq(Byte)
    /\ enc[0] = <<>>
    /\ \A n \in 1..Len(body) : enc[n] = enc[n - 1] \o Bytes(body[n])

\* A symbol as bytes.
LEMMA BytesAre ==
    ASSUME NEW c \in Symbol, BytesOf(c) \in 1..4
    PROVE  /\ Bytes(c) \in Seq(Byte) /\ Len(Bytes(c)) = BytesOf(c)
           /\ \A b \in 1..BytesOf(c) : Bytes(c)[b] = <<c, b>>
<1> HIDE DEF Symbol
<1> DEFINE m == BytesOf(c)
<1>1. m \in Nat /\ \A b \in 1..m : <<c, b>> \in Byte
  BY DEF Byte
<1>2. Bytes(c) = [b \in 1..m |-> <<c, b>>]
  BY DEF Bytes
<1> HIDE DEF m
<1>3. Bytes(c) \in Seq(Byte) /\ Len(Bytes(c)) = m
  <2> HIDE DEF Byte
  <2> QED BY <1>1, <1>2
<1> QED BY <1>2, <1>3 DEF m

\* The encodings of the prefixes of a page.
LEMMA EncodeIs ==
    ASSUME NEW body, IsPage(body)
    PROVE  \E enc : Encoded(enc, body) /\ Encode(body) = enc[Len(body)]
<1> HIDE DEF Symbol
<1> DEFINE L == Len(body)
           X == Seq(Byte)
           IsEnc(f) == f = [n \in 0..L |-> IF n = 0 THEN <<>>
                                           ELSE f[n - 1] \o Bytes(body[n])]
           enc == CHOOSE f : IsEnc(f)
           step == [a \in (1..L) \X X |-> a[2] \o Bytes(body[a[1]])]
<1>0. L \in Nat /\ \A n \in 1..L : body[n] \in Symbol /\ BytesOf(body[n]) \in 1..4
  BY LenProperties, ElementOfSeq DEF IsPage
<1>1. << >> \in X /\ \A n \in 1..L, x \in X : x \o Bytes(body[n]) \in X
  <2>1. << >> \in X
    BY EmptySeq
  <2>2. ASSUME NEW n \in 1..L, NEW x \in X
        PROVE  x \o Bytes(body[n]) \in X
    <3> DEFINE y == Bytes(body[n])
    <3>1. y \in Seq(Byte)
      BY <1>0, BytesAre
    <3> HIDE DEF y
    <3> QED BY <3>1, ConcatProperties DEF y
  <2> QED BY <2>1, <2>2
<1>2. Encode(body) = enc[L]
  BY DEF Encode, Bytes
<1> HIDE DEF L
<1>3. \E f : IsEnc(f) /\ \A n \in 0..L : f[n] \in X
  <2> DEFINE first == << >>
  <2>1. step \in [(1..L) \X X -> X]
    <3> HIDE DEF X
    <3> QED BY <1>1
  <2>2. L \in Nat /\ first \in X
    BY <1>0, <1>1
  <2> HIDE DEF first, X, step
  <2>3. PICK f : Recursive(f, L, X, first, step)
    BY <2>1, <2>2, Recursion
  <2>4. /\ f \in [0..L -> X] /\ f[0] = first
        /\ \A n \in 1..L : f[n] = step[<<n, f[n - 1]>>]
    BY <2>3 DEF Recursive
  <2>5. ASSUME NEW n \in 0..L
        PROVE  f[n] = IF n = 0 THEN <<>> ELSE f[n - 1] \o Bytes(body[n])
    <3>1. CASE n = 0
      BY <2>4, <3>1 DEF first
    <3>2. CASE n # 0
      <4>1. n \in 1..L /\ n - 1 \in 0..L
        BY <1>0, <3>2
      <4>2. <<n, f[n - 1]>> \in (1..L) \X X
        BY <2>4, <4>1
      <4>3. step[<<n, f[n - 1]>>] = f[n - 1] \o Bytes(body[n])
        BY <4>2 DEF step
      <4> QED BY <2>4, <3>2, <4>1, <4>3
    <3> QED BY <3>1, <3>2
  <2>6. IsEnc(f)
    BY <2>4, <2>5
  <2> HIDE DEF IsEnc
  <2> QED BY <2>4, <2>6
<1>4. IsEnc(enc)
  <2> HIDE DEF IsEnc
  <2> QED BY <1>3
<1> HIDE DEF enc
<1>5. enc[0] = <<>> /\ \A n \in 1..L : enc[n] = enc[n - 1] \o Bytes(body[n])
  BY <1>0, <1>4
<1> HIDE DEF IsEnc, X
<1> DEFINE S == {n \in 0..L : enc[n] \in X}
<1>6. 0 \in S
  BY <1>0, <1>1, <1>5
<1>7. ASSUME NEW n \in 0..L, n \in S, n < L
      PROVE  n + 1 \in S
  <2>1. n + 1 \in 1..L /\ n + 1 - 1 = n /\ n + 1 \in 0..L /\ enc[n] \in X
    BY <1>0, <1>7
  <2>2. enc[n + 1] = enc[n] \o Bytes(body[n + 1])
    <3> DEFINE m == n + 1
    <3>1. m \in 1..L /\ m - 1 = n
      BY <2>1
    <3> HIDE DEF m
    <3>2. enc[m] = enc[n] \o Bytes(body[m])
      BY <1>5, <3>1
    <3> QED BY <3>2 DEF m
  <2>3. enc[n + 1] \in X
    BY <1>1, <2>1, <2>2
  <2> QED BY <2>1, <2>3
<1> HIDE DEF S
<1>8. \A n \in 0..L : n \in S
  BY <1>0, <1>6, <1>7, Climb
<1>9. \A n \in 0..L : enc[n] \in X
  BY <1>8 DEF S
<1> QED BY <1>2, <1>5, <1>9 DEF Encoded, L, X

\* A decoded body is a text.
LEMMA DecodeType ==
    ASSUME NEW raw \in Seq(Byte), NEW truncated, Decode(raw, truncated) # Undecodable
    PROVE  Decode(raw, truncated) \in Seq(Symbol)
<1> HIDE DEF Symbol
<1> DEFINE cuts == {c \in BytesDropped(truncated) :
                       c <= Len(raw) /\ IsUtf8(SubSeq(raw, 1, Len(raw) - c))}
           bytes == SubSeq(raw, 1, Len(raw) - Min(cuts))
           first == {p \in DOMAIN bytes : bytes[p][2] = 1}
           chars == Selected(bytes, first)
<1>1. cuts # {} /\ Decode(raw, truncated) = [p \in DOMAIN chars |-> chars[p][1]]
  BY DEF Decode
<1>2. Len(raw) \in Nat /\ BytesDropped(truncated) \subseteq Nat
  BY LenProperties DEF BytesDropped
<1>3. Min(cuts) \in cuts
  <2>1. cuts \in SUBSET Nat
    BY <1>2
  <2> HIDE DEF cuts
  <2> QED BY <1>1, <2>1, MinProperties
<1> DEFINE n == Len(raw) - Min(cuts)
<1>4. n \in 0..Len(raw)
  <2>1. Min(cuts) \in Nat /\ Min(cuts) <= Len(raw)
    BY <1>2, <1>3
  <2> QED BY <1>2, <2>1
<1> HIDE DEF n, Byte
<1>5. bytes \in Seq(Byte)
  <2>1. bytes = SubSeq(raw, 1, n)
    BY DEF n
  <2> QED BY <1>4, <2>1, PrefixSymbols
<1> HIDE DEF bytes
<1>6. first \in SUBSET (1..Len(bytes))
  BY <1>5, LenProperties
<1> HIDE DEF first
<1>7. chars \in Seq(Byte)
  BY <1>5, <1>6, SelectedType
<1> HIDE DEF chars
<1>8. Len(chars) \in Nat /\ DOMAIN chars = 1..Len(chars) /\ \A p \in 1..Len(chars) : chars[p] \in Byte
  BY <1>7, LenProperties, ElementOfSeq
<1>9. \A p \in 1..Len(chars) : chars[p][1] \in Symbol
  BY <1>8 DEF Byte
<1> DEFINE m == Len(chars)
<1>10. [p \in 1..m |-> chars[p][1]] \in Seq(Symbol)
  <2> HIDE DEF m
  <2>1. m \in Nat
    BY <1>8 DEF m
  <2>2. \A p \in 1..m : chars[p][1] \in Symbol
    BY <1>9 DEF m
  <2> QED BY <2>1, <2>2
<1> QED BY <1>1, <1>8, <1>10

\* A body of a response is a page.
LEMMA BodiesArePages ==
    ASSUME response \in Responses
    PROVE  IsPage(Body) /\ response.starts \subseteq 1..Len(Body)
<1> HIDE DEF Symbol
<1>1. /\ Body \in Seq(STRING) /\ response.starts \subseteq 1..Len(Body)
      /\ \A p \in DOMAIN Body : BytesOf(Body[p]) \in 1..4
  BY ResponsesAssumption DEF Body
<1>2. Body \in Seq(Symbol) /\ DOMAIN Body = 1..Len(Body)
  BY <1>1, StringsAreSymbols, LenProperties
<1> QED BY <1>1, <1>2 DEF IsPage

\* What is decoded of it is a text.
LEMMA DecodedBodyType ==
    ASSUME NEW body, IsPage(body), DecodedBody(body) # Undecodable
    PROVE  DecodedBody(body) \in Seq(Symbol)
<1> HIDE DEF Symbol
<1>1. Encode(body) \in Seq(Byte)
  <2>1. PICK enc : Encoded(enc, body) /\ Encode(body) = enc[Len(body)]
    BY EncodeIs
  <2>2. Len(body) \in 0..Len(body)
    BY LenProperties DEF IsPage
  <2> QED BY <2>1, <2>2 DEF Encoded
<1>2. BODY_BYTES_CAP \in Nat
  BY TextCapsAssumption
<1> DEFINE raw == UpTo(Encode(body), BODY_BYTES_CAP)
<1>3. raw \in Seq(Byte)
  <2> DEFINE e == Encode(body)
  <2> HIDE DEF e, Byte
  <2>1. e \in Seq(Byte)
    BY <1>1 DEF e
  <2>2. PICK n \in 0..Len(e) : UpTo(e, BODY_BYTES_CAP) = SubSeq(e, 1, n)
    BY <1>2, <2>1, UpToIs
  <2>3. UpTo(e, BODY_BYTES_CAP) \in Seq(Byte)
    BY <2>1, <2>2, PrefixSymbols
  <2> QED BY <2>3 DEF e
<1>4. DecodedBody(body) = Decode(raw, BytesCut(body))
  BY DEF DecodedBody
<1> HIDE DEF raw, Byte
<1> QED BY <1>3, <1>4, DecodeType

----------------------------------------------------------------------------
(* Types of the texts *)

\* Where the pass over the markup looks next.
LEMMA FindIs ==
    ASSUME text \in Seq(Symbol), NEW Symbols, NEW p \in Nat
    PROVE  LET f == Find(Symbols, p)
           IN  \/ f = 0 /\ \A q \in p..Len(text) : text[q] \notin Symbols
               \/ /\ f \in p..Len(text) /\ text[f] \in Symbols
                  /\ \A q \in p..Len(text) : q < f => text[q] \notin Symbols
<1> HIDE DEF Symbol
<1> DEFINE at == {q \in p..Len(text) : text[q] \in Symbols}
<1>1. Len(text) \in Nat
  BY LenProperties
<1>2. CASE at = {}
  <2>1. Find(Symbols, p) = 0
    BY <1>2 DEF Find
  <2> QED BY <1>2, <2>1
<1>3. CASE at # {}
  <2>1. Find(Symbols, p) = Min(at)
    BY <1>3 DEF Find
  <2>2. at \in SUBSET Nat
    BY <1>1
  <2>3. Min(at) \in at /\ \A x \in at : Min(at) <= x
    <3> HIDE DEF at
    <3> QED BY <1>3, <2>2, MinProperties
  <2> DEFINE f == Min(at)
  <2>4. f \in p..Len(text) /\ text[f] \in Symbols /\ \A x \in at : f <= x
    BY <2>3
  <2> HIDE DEF f
  <2>5. \A q \in p..Len(text) : q < f => text[q] \notin Symbols
    <3> SUFFICES ASSUME NEW q \in p..Len(text), q < f, text[q] \in Symbols
                 PROVE  FALSE
      OBVIOUS
    <3>1. f <= q
      BY <2>4
    <3> QED BY <1>1, <2>4, <3>1
  <2> QED BY <2>1, <2>4, <2>5 DEF f
<1> QED BY <1>2, <1>3

\* What a step of the pass does, by the element it drops.
LEMMA StripStep ==
    ASSUME text \in Seq(Symbol), i \in 1..Len(text) + 1, StripMarkup
    PROVE  \/ KeepRest
           \/ \E j \in i..Len(text), last \in Nat :
                 /\ j = NextOpen /\ j <= last /\ last <= Len(text)
                 /\ DropElement(j, last)
<1> HIDE DEF Symbol
<1>0. Len(text) \in Nat /\ i \in Nat
  BY LenProperties
<1> SUFFICES ASSUME ~KeepRest
             PROVE  \E j \in i..Len(text), last \in Nat :
                       /\ j = NextOpen /\ j <= last /\ last <= Len(text)
                       /\ DropElement(j, last)
  OBVIOUS
<1> DEFINE j == NextOpen
           k == Find(Brackets, j + 1)
<1>1. /\ j # 0
      /\ \/ text[j] = CommentOpen /\ DropElement(j, OrRest(CommentEnd(j)))
         \/ IsRaw(j) /\ DropElement(j, OrRest(RawEnd(j)))
         \/ k # 0 /\ DropElement(j, k)
  BY DEF StripMarkup
<1>2. j \in i..Len(text)
  <2>1. \/ j = 0
        \/ j \in i..Len(text)
    BY <1>0, FindIs DEF NextOpen
  <2> QED BY <1>1, <2>1
<1> HIDE DEF j
<1>3. j \in Nat /\ j + 1 \in Nat /\ j <= Len(text)
  BY <1>0, <1>2
<1>4. ASSUME NEW Symbols, NEW p \in {j, j + 1}
      PROVE  LET f == Find(Symbols, p)
             IN  f = 0 \/ (f \in Nat /\ j <= f /\ f <= Len(text))
  <2>1. p \in Nat /\ j <= p
    BY <1>3
  <2>2. Find(Symbols, p) = 0 \/ Find(Symbols, p) \in p..Len(text)
    BY <2>1, FindIs
  <2> QED BY <1>0, <1>3, <2>1, <2>2
<1>5. ASSUME NEW f, f = 0 \/ (f \in Nat /\ j <= f /\ f <= Len(text))
      PROVE  OrRest(f) \in Nat /\ j <= OrRest(f) /\ OrRest(f) <= Len(text)
  BY <1>0, <1>3, <1>5 DEF OrRest
<1>6. k # 0 => k \in Nat /\ j <= k /\ k <= Len(text)
  BY <1>4
<1>7. LET z == OrRest(CommentEnd(j)) IN z \in Nat /\ j <= z /\ z <= Len(text)
  <2>1. CommentEnd(j) = 0
           \/ (CommentEnd(j) \in Nat /\ j <= CommentEnd(j) /\ CommentEnd(j) <= Len(text))
    BY <1>4 DEF CommentEnd
  <2> QED BY <1>5, <2>1
<1>8. LET z == OrRest(RawEnd(j)) IN z \in Nat /\ j <= z /\ z <= Len(text)
  <2> DEFINE close == Find({RawClose}, j)
             e == Find(Brackets, close)
  <2>1. RawEnd(j) = IF close = 0 THEN 0 ELSE e
    BY DEF RawEnd
  <2>2. close = 0 \/ (close \in Nat /\ j <= close /\ close <= Len(text))
    BY <1>4
  <2> HIDE DEF close
  <2>3. close # 0 => e = 0 \/ (e \in Nat /\ j <= e /\ e <= Len(text))
    <3> SUFFICES ASSUME close # 0
                 PROVE  e = 0 \/ (e \in Nat /\ j <= e /\ e <= Len(text))
      OBVIOUS
    <3>1. e = 0 \/ e \in close..Len(text)
      BY <2>2, FindIs
    <3> HIDE DEF e
    <3> QED BY <1>0, <1>3, <2>2, <3>1
  <2> HIDE DEF e
  <2>4. RawEnd(j) = 0 \/ (RawEnd(j) \in Nat /\ j <= RawEnd(j) /\ RawEnd(j) <= Len(text))
    BY <2>1, <2>2, <2>3
  <2> QED BY <1>5, <2>4
<1> HIDE DEF k
<1>9. PICK last \in Nat : j <= last /\ last <= Len(text) /\ DropElement(j, last)
  BY <1>1, <1>6, <1>7, <1>8
<1> QED BY <1>2, <1>9 DEF j

\* Normalisation gives a text.
LEMMA CollapseType ==
    ASSUME NEW s \in Seq(Symbol)
    PROVE  Collapse(s) \in Seq(Symbol)
<1> HIDE DEF Symbol
<1> DEFINE seen == Selected(s, {p \in DOMAIN s : s[p] # Hidden})
<1>1. {p \in DOMAIN s : s[p] # Hidden} \in SUBSET (1..Len(s))
  BY LenProperties
<1>2. seen \in Seq(Symbol)
  BY <1>1, SelectedType
<1>3. Collapse(s) = Joined(seen)
  BY DEF Collapse
<1> HIDE DEF seen
<1> QED BY <1>2, <1>3, JoinedIsSpaced

\* The types of the page and of what is made of it.
PageType ==
    /\ response \in Responses
    /\ text \in Seq(Symbol) /\ out \in Seq(Symbol) /\ panel_text \in Seq(Symbol)
    /\ phase = "strip" => i \in 1..Len(text) + 1

\* The page is a text all along, and so is what the pass and the
\* normalisation keep of it.
THEOREM PagesAreTexts == Spec => []PageType
<1> HIDE DEF Symbol
<1>0. Space \in Symbol
  BY DEF Symbol
<1>1. Init => PageType
  BY EmptySeq DEF Init, PageType
<1>2. PageType /\ [Next]_vars => PageType'
  <2> SUFFICES ASSUME PageType, [Next]_vars
               PROVE  PageType'
    OBVIOUS
  <2>0. /\ response \in Responses /\ response' = response
        /\ text \in Seq(Symbol) /\ out \in Seq(Symbol) /\ panel_text \in Seq(Symbol)
        /\ phase = "strip" => i \in 1..Len(text) + 1
        /\ Len(text) \in Nat
    BY LenProperties DEF PageType, Next, vars, Fetch, StripMarkup, Normalize, Quote
  <2>1. CASE Fetch
    <3>1. panel_text' = panel_text
      BY <2>1 DEF Fetch
    <3>2. CASE UNCHANGED <<text, i, out>> /\ phase' = "done"
      BY <2>0, <3>1, <3>2 DEF PageType
    <3>3. CASE ~(UNCHANGED <<text, i, out>> /\ phase' = "done")
      <4> DEFINE decoded == DecodedBody(Body)
      <4>1. /\ decoded # Undecodable /\ text' = decoded
            /\ \/ phase' = "strip" /\ i' = 1 /\ out' = <<>>
               \/ phase' = "normalize" /\ out' = decoded
        <5>1. \A status : ~Unreadable(status)
          BY <3>3 DEF Unreadable
        <5> QED BY <2>1, <5>1 DEF Fetch
      <4>2. decoded \in Seq(Symbol)
        BY <2>0, <4>1, BodiesArePages, DecodedBodyType
      <4> HIDE DEF decoded
      <4>3. Len(text') \in Nat /\ << >> \in Seq(Symbol)
        BY <4>1, <4>2, LenProperties, EmptySeq
      <4>4. 1 \in 1..Len(text') + 1
        BY <4>3
      <4> QED BY <2>0, <3>1, <4>1, <4>2, <4>3, <4>4 DEF PageType
    <3> QED BY <3>2, <3>3
  <2>2. CASE StripMarkup
    <3>1. phase = "strip" /\ text' = text /\ panel_text' = panel_text
      BY <2>2 DEF StripMarkup
    <3>2. i \in 1..Len(text) + 1
      BY <2>0, <3>1
    <3>3. CASE KeepRest
      <4>1. out' = out \o SubSeq(text, i, Len(text)) /\ phase' = "normalize"
        BY <3>3 DEF KeepRest
      <4>2. Len(text) \in 0..Len(text)
        BY <2>0
      <4>3. SubSeq(text, i, Len(text)) \in Seq(Symbol)
        BY <2>0, <3>2, <4>2, PartSymbols
      <4>4. out' \in Seq(Symbol)
        BY <2>0, <4>1, <4>3, ConcatProperties
      <4> QED BY <2>0, <3>1, <4>1, <4>4 DEF PageType
    <3>4. CASE ~KeepRest
      <4>1. PICK j \in i..Len(text), last \in Nat :
                    j <= last /\ last <= Len(text) /\ DropElement(j, last)
        BY <2>0, <2>2, <3>2, <3>4, StripStep
      <4>2. out' = out \o SubSeq(text, i, j - 1) \o <<Space>> /\ i' = last + 1
        BY <4>1 DEF DropElement
      <4> DEFINE b == j - 1
                 part == SubSeq(text, i, b)
      <4>3. b \in 0..Len(text) /\ last + 1 \in 1..Len(text) + 1
        BY <2>0, <3>2, <4>1
      <4> HIDE DEF b
      <4>4. part \in Seq(Symbol)
        BY <2>0, <3>2, <4>3, PartSymbols
      <4>5. out' = out \o part \o <<Space>>
        BY <4>2 DEF b
      <4> HIDE DEF part
      <4>6. out \o part \in Seq(Symbol) /\ <<Space>> \in Seq(Symbol)
        BY <1>0, <2>0, <4>4, ConcatProperties
      <4>7. out' \in Seq(Symbol)
        BY <4>5, <4>6, ConcatProperties
      <4> QED BY <2>0, <3>1, <4>2, <4>3, <4>7 DEF PageType
    <3> QED BY <3>3, <3>4
  <2>3. CASE Normalize
    <3>1. text' = text /\ out' = out /\ i' = i /\ phase' # "strip"
      BY <2>3 DEF Normalize
    <3>2. panel_text' = panel_text \/ panel_text' = UpTo(Collapse(out), TEXT_CAP)
      BY <2>3 DEF Normalize
    <3>3. UpTo(Collapse(out), TEXT_CAP) \in Seq(Symbol)
      <4> DEFINE line == Collapse(out)
      <4>4. line \in Seq(Symbol)
        BY <2>0, CollapseType
      <4> HIDE DEF line
      <4>5. TEXT_CAP \in Nat
        BY TextCapsAssumption
      <4>6. PICK n \in 0..Len(line) : UpTo(line, TEXT_CAP) = SubSeq(line, 1, n)
        BY <4>4, <4>5, UpToIs
      <4>7. UpTo(line, TEXT_CAP) \in Seq(Symbol)
        BY <4>4, <4>6, PrefixSymbols
      <4> QED BY <4>7 DEF line
    <3> QED BY <2>0, <3>1, <3>2, <3>3 DEF PageType
  <2>4. CASE Quote
    <3>1. text' = text /\ out' = out /\ i' = i /\ panel_text' = panel_text /\ phase' = "done"
      BY <2>4 DEF Quote
    <3> QED BY <2>0, <3>1 DEF PageType
  <2>5. CASE UNCHANGED vars
    BY <2>0, <2>5 DEF vars, PageType
  <2> QED BY <2>1, <2>2, <2>3, <2>4, <2>5 DEF Next
<1> QED BY <1>1, <1>2, PTL DEF Spec

----------------------------------------------------------------------------
(* Invariants of the quotes *)

\* Where the state holds what the panel said, it is a sequence of texts.
SaidType ==
    /\ answer \in Seq(Seq(Symbol))
    /\ phase # "done" => answer = <<>>
    /\ kept = KeepQuotes(answer, panel_text)
    /\ \E words \in Seq(Symbol) : note = CleanNote(words)

\* A note of no words is kept as one.
LEMMA EmptyNote == CleanNote(<<>>) = <<>>
<1> HIDE DEF Symbol
<1>1. << >> \in Seq(Symbol) /\ NOTE_CAP \in Nat
  BY EmptySeq, QuoteCapsAssumption
<1>2. Len(CleanNote(<<>>)) = 0
  <2> DEFINE plain == [p \in DOMAIN <<>> |-> IF <<>>[p] = Control THEN Space ELSE <<>>[p]]
  <2>1. plain = <<>>
    OBVIOUS
  <2>2. OneLine(<<>>) = Joined(<<>>)
    BY <2>1 DEF OneLine
  <2>3. Spaced(<<>>)
    BY EmptySeq DEF Spaced, Stripped
  <2>4. OneLine(<<>>) = <<>>
    BY <1>1, <2>2, <2>3, JoinedKeeps
  <2>5. UpTo(<<>>, NOTE_CAP) = <<>>
    <3>1. PICK n \in 0..Len(<<>>) : UpTo(<<>>, NOTE_CAP) = SubSeq(<<>>, 1, n)
      BY <1>1, UpToIs
    <3>2. n = 0
      BY EmptySeq
    <3> QED BY <1>1, <3>1, <3>2, PrefixAll
  <2>6. Strip(<<>>) = <<>>
    BY <1>1, <2>3, StripKeeps DEF Spaced
  <2> QED BY <2>4, <2>5, <2>6, EmptySeq DEF CleanNote
<1>3. CleanNote(<<>>) \in Seq(Symbol)
  BY <1>1, CleanedNote
<1> QED BY <1>2, <1>3, EmptySeq

\* Nothing is kept of no answer.
LEMMA NothingKept ==
    ASSUME NEW page
    PROVE  KeepQuotes(<<>>, page) = <<>>
<1> HIDE DEF Symbol
<1>1. << >> \in Seq(Seq(Symbol)) /\ Len(<<>>) = 0
  BY EmptySeq
<1>2. KeptOf(KeepQuotes(<<>>, page), <<>>, page, Len(<<>>))
  BY <1>1, KeepQuotesAre
<1>3. KeepQuotes(<<>>, page) \in Seq(Seq(Symbol)) /\ Len(KeepQuotes(<<>>, page)) <= 0
  BY <1>1, <1>2 DEF KeptOf
<1> QED BY <1>3, EmptySeq, LenProperties

\* What is kept is what KeepQuotes and CleanNote make of what the panel said.
THEOREM SaidIsKept == Spec => []SaidType
<1> HIDE DEF Symbol
<1>1. Init => SaidType
  <2> SUFFICES ASSUME Init
               PROVE  SaidType
    OBVIOUS
  <2>1. /\ phase = "fetch" /\ panel_text = <<>>
        /\ answer = <<>> /\ kept = <<>> /\ note = <<>>
    BY DEF Init
  <2>2. << >> \in Seq(Symbol) /\ << >> \in Seq(Seq(Symbol))
    BY EmptySeq
  <2>3. kept = KeepQuotes(answer, panel_text)
    BY <2>1, NothingKept
  <2>4. note = CleanNote(<<>>)
    BY <2>1, EmptyNote
  <2> QED BY <2>1, <2>2, <2>3, <2>4 DEF SaidType
<1>2. SaidType /\ [Next]_vars => SaidType'
  <2> SUFFICES ASSUME SaidType, [Next]_vars
               PROVE  SaidType'
    OBVIOUS
  <2>1. CASE Quote
    <3>1. PICK reading \in Readings(panel_text) :
             /\ reading \in [quotes : Seq(Seq(STRING)), note : Seq(STRING)]
             /\ answer' = reading.quotes
             /\ kept' = KeepQuotes(reading.quotes, panel_text)
             /\ note' = CleanNote(reading.note)
      BY <2>1 DEF Quote
    <3>2. phase' = "done" /\ panel_text' = panel_text
      BY <2>1 DEF Quote
    <3>3. reading.quotes \in Seq(Seq(Symbol)) /\ reading.note \in Seq(Symbol)
      BY <3>1, StringsAreSymbols
    <3> QED BY <3>1, <3>2, <3>3 DEF SaidType
  <2>2. CASE ~Quote
    <3>1. UNCHANGED <<answer, kept, note>>
      BY <2>2 DEF Next, Fetch, StripMarkup, Normalize, vars
    <3>2. \/ phase # "done" /\ answer = <<>>
          \/ phase' = phase /\ panel_text' = panel_text
      <4>1. CASE Fetch \/ StripMarkup \/ Normalize
        <5>1. phase # "done"
          BY <4>1 DEF Fetch, StripMarkup, Normalize
        <5> QED BY <5>1 DEF SaidType
      <4>2. CASE UNCHANGED vars
        BY <4>2 DEF vars
      <4> QED BY <2>2, <4>1, <4>2 DEF Next
    <3>3. kept' = KeepQuotes(answer', panel_text')
      <4>1. CASE answer = <<>>
        <5>1. kept = KeepQuotes(<<>>, panel_text) /\ answer' = <<>>
          BY <3>1, <4>1 DEF SaidType
        <5>2. KeepQuotes(<<>>, panel_text) = <<>> /\ KeepQuotes(<<>>, panel_text') = <<>>
          BY NothingKept
        <5> QED BY <3>1, <5>1, <5>2
      <4>2. CASE panel_text' = panel_text
        BY <3>1, <4>2 DEF SaidType
      <4> QED BY <3>2, <4>1, <4>2
    <3> QED BY <3>1, <3>2, <3>3 DEF SaidType
  <2> QED BY <2>1, <2>2
<1> QED BY <1>1, <1>2, PTL DEF Spec

\* What normalisation keeps, the gate of a node with the same text admits:
\* the quotes that _normalize_finding cuts and keeps, and its note.
THEOREM HonestFindingPasses == Spec => []KeptFindingPassesGate
<1> HIDE DEF Symbol
<1>1. SaidType => KeptFindingPassesGate
  <2> SUFFICES ASSUME SaidType
               PROVE  KeptFindingPassesGate
    OBVIOUS
  <2>1. KeptOf(kept, answer, panel_text, Len(answer)) /\ answer \in Seq(Seq(Symbol))
    BY KeepQuotesAre DEF SaidType
  <2>2. /\ kept \in Seq(Seq(Symbol)) /\ Len(kept) <= MAX_QUOTES
        /\ \A c \in 1..Len(kept) :
              \E k \in 1..Len(answer) : /\ kept[c] = KeepQuote(answer[k], panel_text)
                                        /\ kept[c] # Dropped
        /\ \A c, d \in 1..Len(kept) : kept[c] = kept[d] => c = d
    BY <2>1 DEF KeptOf
  <2>3. ASSUME NEW c \in 1..Len(kept)
        PROVE  ValidQuote(kept[c], panel_text)
    <3>1. PICK k \in 1..Len(answer) : /\ kept[c] = KeepQuote(answer[k], panel_text)
                                      /\ kept[c] # Dropped
      BY <2>2
    <3>2. answer[k] \in Seq(Symbol)
      BY <2>1, ElementOfSeq
    <3> QED BY <3>1, <3>2, KeptIsValid
  <2>4. DOMAIN kept = 1..Len(kept)
    BY <2>2, LenProperties
  <2>5. ValidQuotes(kept, panel_text)
    BY <2>2, <2>3, <2>4 DEF ValidQuotes
  <2>6. ValidNote(note)
    BY CleanedNote DEF SaidType
  <2> QED BY <2>5, <2>6 DEF KeptFindingPassesGate
<1> QED BY <1>1, SaidIsKept, PTL

----------------------------------------------------------------------------
(* What is kept of a quote that the text shows *)

\* The words of needle stand in hay after its k-th word.
RunAt(hay, needle, k) == /\ k \in 0..(Len(hay) - Len(needle))
                         /\ SubSeq(hay, k + 1, k + Len(needle)) = needle

\* FindRun finds a run if there is one.
LEMMA FindRunIs ==
    ASSUME NEW Y, NEW hay \in Seq(Y), NEW needle \in Seq(Y)
    PROVE  FindRun(hay, needle, 0) # NotFound <=> \E k : RunAt(hay, needle, k)
<1> DEFINE h == Len(hay)
           n == Len(needle)
           ends == {e \in (0 + n)..h : SubSeq(hay, e - n + 1, e) = needle}
<1>1. h \in Nat /\ n \in Nat
  BY LenProperties
<1>2. FindRun(hay, needle, 0) = IF ends = {} THEN NotFound ELSE Min(ends)
  BY DEF FindRun
<1> HIDE DEF h, n
<1>3. ends # {} => Min(ends) # NotFound
  <2> SUFFICES ASSUME ends # {}
               PROVE  Min(ends) # NotFound
    OBVIOUS
  <2>1. ends \in SUBSET Nat
    BY <1>1
  <2>2. Min(ends) \in ends
    <3> HIDE DEF ends
    <3> QED BY <2>1, MinProperties
  <2>3. Min(ends) \in Nat
    <3> HIDE DEF ends
    <3> QED BY <2>1, <2>2
  <2> QED BY <2>3 DEF NotFound
<1>4. ASSUME NEW e \in ends
      PROVE  \E k \in 0..(h - n) : SubSeq(hay, k + 1, k + n) = needle
  <2> DEFINE k == e - n
  <2>1. k \in 0..(h - n) /\ k + n = e /\ k = e - n
    BY <1>1
  <2> HIDE DEF k
  <2>2. SubSeq(hay, k + 1, k + n) = needle
    BY <2>1
  <2> QED BY <2>1, <2>2
<1>5. ASSUME NEW k \in 0..(h - n), SubSeq(hay, k + 1, k + n) = needle
      PROVE  ends # {}
  <2> DEFINE e == k + n
  <2>1. e \in (0 + n)..h /\ e - n = k
    BY <1>1
  <2>2. SubSeq(hay, k + 1, e) = needle
    BY <1>5
  <2> HIDE DEF e
  <2>3. e \in ends
    BY <2>1, <2>2
  <2> QED BY <2>3
<1> HIDE DEF ends
<1>6. (\E k : RunAt(hay, needle, k)) <=>
         \E k \in 0..(h - n) : SubSeq(hay, k + 1, k + n) = needle
  BY DEF RunAt, h, n
<1> QED BY <1>2, <1>3, <1>4, <1>5, <1>6

\* The words of a part of a quote that may be kept are its first words.
LEMMA CandidateWords ==
    ASSUME NEW said \in Seq(Symbol), NEW s, Candidate(Strip(said), s)
    PROVE  /\ Len(WordTokens(s)) \in 0..Len(WordTokens(said))
           /\ WordTokens(s) = SubSeq(WordTokens(said), 1, Len(WordTokens(s)))
<1> HIDE DEF Symbol
<1> DEFINE quote == Strip(said)
<1>1. quote \in Seq(Symbol) /\ WordTokens(quote) = WordTokens(said)
  BY StripType, StripWords
<1> HIDE DEF quote
<1>2. PICK n \in 1..Len(quote) : /\ s = SubSeq(quote, 1, n)
                                 /\ n < Len(quote) => quote[n + 1] \notin Letters
  BY DEF Candidate, quote
<1>3. n \in 0..Len(quote)
  BY <1>1, LenProperties
<1>4. LET m == Len(WordTokens(SubSeq(quote, 1, n)))
      IN  m \in 0..Len(WordTokens(quote))
             /\ WordTokens(SubSeq(quote, 1, n)) = SubSeq(WordTokens(quote), 1, m)
  BY <1>1, <1>2, <1>3, PrefixWords
<1> QED BY <1>1, <1>2, <1>4

\* The first words of a run are a run.
LEMMA FirstOfRun ==
    ASSUME NEW Y, NEW hay \in Seq(Y), NEW words \in Seq(Y), NEW m \in 0..Len(words),
           NEW k, RunAt(hay, words, k)
    PROVE  RunAt(hay, SubSeq(words, 1, m), k)
<1> DEFINE n == Len(words)
           a == k + 1
           b == k + m
           c == k + n
           v == SubSeq(hay, a, b)
           u == SubSeq(words, 1, m)
<1>1. /\ Len(hay) \in Nat /\ n \in Nat /\ m \in Nat /\ m <= n /\ k \in Nat
      /\ k \in 0..(Len(hay) - n)
  BY LenProperties DEF RunAt
<1>2. /\ a \in 1..Len(hay) + 1 /\ b \in 0..Len(hay) /\ c \in 0..Len(hay)
      /\ b - a + 1 = m /\ c - a + 1 = n /\ (a <= b <=> m # 0)
      /\ \A p \in 1..m : p \in 1..n
      /\ k \in 0..(Len(hay) - m)
  BY <1>1
<1>3. SubSeq(hay, a, c) = words
  BY DEF RunAt
<1> HIDE DEF a, b, c, n
<1>4. \A p \in 1..n : words[p] = hay[a + p - 1]
  BY <1>2, <1>3, PartSymbols
<1>5. v \in Seq(Y) /\ Len(v) = m /\ \A p \in 1..m : v[p] = hay[a + p - 1]
  <2>1. /\ v \in Seq(Y) /\ Len(v) = IF a <= b THEN b - a + 1 ELSE 0
        /\ \A p \in 1..b - a + 1 : v[p] = hay[a + p - 1]
    BY <1>2, PartSymbols
  <2> HIDE DEF v
  <2> QED BY <1>1, <1>2, <2>1
<1>6. u \in Seq(Y) /\ Len(u) = m /\ \A p \in 1..m : u[p] = words[p]
  BY PrefixSymbols
<1> HIDE DEF u, v
<1>7. \A p \in 1..Len(v) : v[p] = u[p]
  BY <1>2, <1>4, <1>5, <1>6
<1>8. v = u
  BY <1>5, <1>6, <1>7, SameText
<1>9. SubSeq(hay, k + 1, k + m) = u
  BY <1>8 DEF a, b, v
<1> QED BY <1>2, <1>6, <1>9 DEF u, RunAt

\* A quote with a cut that the text shows is kept in part.
LEMMA ShownCutIsKept ==
    ASSUME NEW said \in Seq(Symbol), NEW page, ~Spliced(said),
           Len(Strip(said)) > QUOTE_CAP,
           NEW k \in 1..Len(Cuts(Strip(said))),
           QuoteGrounded(Cuts(Strip(said))[k], page)
    PROVE  KeepQuote(said, page) # Dropped
<1> HIDE DEF Symbol
<1> DEFINE quote == Strip(said)
           cuts == Cuts(quote)
           shown == {l \in DOMAIN cuts : QuoteGrounded(cuts[l], page)}
<1>0. /\ QUOTE_MIN \in Nat /\ QUOTE_MIN # 0 /\ QUOTE_CAP \in Nat /\ QUOTE_MIN <= QUOTE_CAP
  BY QuoteCapsAssumption
<1>1. quote \in Seq(Symbol) /\ Stripped(quote) /\ Len(quote) \in Nat
  BY StripType, LenProperties
<1>2. Len(quote) > QUOTE_CAP
  OBVIOUS
<1> HIDE DEF quote
<1>3. /\ cuts \in Seq(Seq(Symbol)) /\ DOMAIN cuts = 1..Len(cuts) /\ Len(cuts) \in Nat
      /\ \A l \in 1..Len(cuts) : Len(cuts[l]) >= QUOTE_MIN
  BY <1>1, <1>2, CutsAre, LenProperties
<1>4. k \in shown
  BY <1>3 DEF quote
<1>5. Min(shown) \in shown
  <2>1. shown \in SUBSET Nat
    BY <1>3
  <2> HIDE DEF shown
  <2> QED BY <1>4, <2>1, MinProperties
<1>6. Min(shown) \in 1..Len(cuts)
  BY <1>3, <1>5
<1>7. GroundQuote(said, page) = cuts[Min(shown)]
  <2>1. ~(Len(quote) < QUOTE_MIN) /\ shown # {}
    BY <1>0, <1>1, <1>2, <1>4
  <2> QED BY <1>2, <2>1 DEF GroundQuote, quote
<1> HIDE DEF cuts, shown
<1>8. Len(cuts[Min(shown)]) >= QUOTE_MIN
  BY <1>3, <1>6
<1>9. cuts[Min(shown)] # <<>>
  BY <1>0, <1>8, EmptySeq
<1> QED BY <1>7, <1>9 DEF KeepQuote, Dropped

\* What a part of a quote that may be kept says of its symbols.
LEMMA CandidatePrefix ==
    ASSUME NEW quote \in Seq(Symbol), NEW s, Candidate(quote, s)
    PROVE  IsPrefix(s, quote) /\ (~Spliced(quote) => ~Spliced(s))
<1> HIDE DEF Symbol
<1>1. PICK n \in 1..Len(quote) : s = SubSeq(quote, 1, n)
  BY DEF Candidate
<1>2. n \in 0..Len(quote) /\ Len(quote) \in Nat
  BY LenProperties
<1>3. s \in Seq(Symbol) /\ Len(s) = n /\ n <= Len(quote) /\ \A p \in 1..n : s[p] = quote[p]
  BY <1>1, <1>2, PrefixSymbols
<1>4. SubSeq(s, 1, n) = s
  BY <1>3, PrefixAll
<1>5. IsPrefix(s, quote)
  BY <1>1, <1>3, <1>4 DEF IsPrefix
<1>6. DOMAIN s = 1..n /\ DOMAIN quote = 1..Len(quote) /\ \A p \in 1..n : p \in 1..Len(quote)
  BY <1>2, <1>3, LenProperties
<1>7. Spliced(s) => Spliced(quote)
  BY <1>3, <1>6 DEF Spliced
<1> QED BY <1>5, <1>7

\* What is left of an over-long quote before a space under the cap is left of
\* its first cut too.
LEMMA FirstCutIsLongest ==
    ASSUME NEW quote \in Seq(Symbol), Stripped(quote), Len(quote) > QUOTE_CAP,
           NEW p \in 1..QUOTE_CAP, quote[p] = Space,
           Len(Strip(UpTo(quote, p - 1))) >= QUOTE_MIN
    PROVE  /\ Len(FirstCut(quote)) >= QUOTE_MIN
           /\ Len(WordTokens(Strip(UpTo(quote, p - 1))))
                 <= Len(WordTokens(FirstCut(quote)))
           /\ Len(WordTokens(FirstCut(quote))) \in Nat
<1> HIDE DEF Symbol
<1> DEFINE left == Strip(UpTo(quote, p - 1))
           first == FirstCut(quote)
<1>0. /\ Len(quote) \in Nat /\ QUOTE_CAP \in Nat /\ QUOTE_MIN \in Nat /\ QUOTE_MIN # 0
      /\ p \in 1..Len(quote) /\ p <= QUOTE_CAP /\ p \in Nat
  BY LenProperties, QuoteCapsAssumption
<1>1. left = Strip(SubSeq(quote, 1, p - 1))
  <2> DEFINE cap == p - 1
  <2>1. cap \in Nat /\ cap < Len(quote)
    BY <1>0
  <2> HIDE DEF cap
  <2>2. PICK l \in 0..Len(quote) : /\ UpTo(quote, cap) = SubSeq(quote, 1, l)
                                   /\ l <= cap /\ (l = Len(quote) \/ l = cap)
    BY <2>1, UpToIs
  <2>3. l = cap
    BY <1>0, <2>1, <2>2
  <2>4. Strip(UpTo(quote, cap)) = Strip(SubSeq(quote, 1, cap))
    BY <2>2, <2>3
  <2> QED BY <2>4 DEF cap
<1>2. PICK q \in p..QUOTE_CAP : quote[q] = Space /\ first = Strip(SubSeq(quote, 1, q - 1))
  BY FirstCutIs
<1>3. q \in 1..Len(quote) /\ q <= QUOTE_CAP /\ q \in Nat /\ p <= q
  BY <1>0
<1>4. Space \notin Letters
  BY LettersAssumption
<1>5. /\ left \in Seq(Symbol) /\ CutOf(quote, left)
      /\ \E n \in 0..p - 1 : left = SubSeq(quote, 1, n)
  <2> HIDE DEF left
  <2> QED BY <1>0, <1>1, <1>4, CutBefore
<1>6. /\ first \in Seq(Symbol) /\ CutOf(quote, first)
      /\ \E m \in 0..q - 1 : /\ first = SubSeq(quote, 1, m)
                             /\ \A r \in m + 1..q - 1 : quote[r] = Space
  <2> HIDE DEF first
  <2> QED BY <1>2, <1>3, <1>4, CutBefore
<1> HIDE DEF left, first
<1>7. PICK m \in 0..q - 1 : /\ first = SubSeq(quote, 1, m)
                            /\ \A r \in m + 1..q - 1 : quote[r] = Space
  BY <1>6
<1>8. left # <<>> /\ Len(left) >= QUOTE_MIN
  BY <1>0, EmptySeq DEF left
<1>9. PICK n \in 0..p - 1 : left = SubSeq(quote, 1, n)
  BY <1>5
<1>10. /\ n \in 0..Len(quote) /\ m \in 0..Len(quote) /\ n \in Nat /\ m \in Nat
       /\ n <= p - 1
  BY <1>0, <1>3
<1>11. Len(left) = n /\ \A r \in 1..n : left[r] = quote[r]
  BY <1>9, <1>10, PrefixSymbols
<1>12. n \in 1..n /\ left[n] # Space /\ quote[n + 1] \notin Letters
  <2>1. n \in 1..n
    BY <1>0, <1>8, <1>10, <1>11
  <2>2. PICK z \in 1..QUOTE_CAP : /\ z < Len(quote) /\ left = SubSeq(quote, 1, z)
                                  /\ Stripped(left) /\ quote[z + 1] \notin Letters
    BY <1>5, <1>8 DEF CutOf
  <2>3. z \in 0..Len(quote)
    BY <1>0, <2>2
  <2>4. Len(left) = z
    BY <2>2, <2>3, PrefixSymbols
  <2>5. left[Len(left)] # Space
    BY <1>8, <2>2 DEF Stripped
  <2> QED BY <1>11, <2>1, <2>2, <2>4, <2>5
<1>13. n <= m
  <2> SUFFICES ASSUME m < n
               PROVE  FALSE
    BY <1>10
  <2>1. n \in m + 1..q - 1
    BY <1>3, <1>10
  <2>2. quote[n] = Space
    BY <1>7, <2>1
  <2> QED BY <1>11, <1>12, <2>2
<1>14. Len(first) = m /\ \A r \in 1..m : first[r] = quote[r]
  BY <1>7, <1>10, PrefixSymbols
<1>15. Len(first) >= QUOTE_MIN
  BY <1>0, <1>8, <1>10, <1>11, <1>13, <1>14
<1>16. n \in 0..Len(first) /\ n \in 0..m
  BY <1>10, <1>13, <1>14
<1>17. SubSeq(first, 1, n) = left
  BY <1>7, <1>9, <1>10, <1>16, PrefixTwice
<1>18. n < Len(first) => first[n + 1] \notin Letters
  <2> SUFFICES ASSUME n < Len(first)
               PROVE  first[n + 1] \notin Letters
    OBVIOUS
  <2>1. n + 1 \in 1..m
    BY <1>10, <1>14
  <2> QED BY <1>12, <1>14, <2>1
<1>19. Len(WordTokens(left)) \in 0..Len(WordTokens(first))
  BY <1>6, <1>16, <1>17, <1>18, PrefixWords
<1>20. Len(WordTokens(first)) \in Nat
  BY <1>6, WordsAre, LenProperties
<1>21. Len(WordTokens(left)) <= Len(WordTokens(first))
  BY <1>19, <1>20
<1> QED BY <1>15, <1>20, <1>21 DEF left, first

\* A quote that is kept is one passage: its words stand in the panel's text
\* one after the other, and are the first words of something the panel
\* quoted (_ground_quote, _valid_finding).
THEOREM KeptIsOnePassage == Spec => []KeptQuoteIsOnePassage
<1> HIDE DEF Symbol
<1>1. SaidType /\ PageType => KeptQuoteIsOnePassage
  <2> SUFFICES ASSUME SaidType, PageType, NEW c \in DOMAIN kept
               PROVE  LET words == WordTokens(kept[c])
                          n     == Len(words)
                          read  == WordTokens(panel_text)
                      IN  /\ n >= 2
                          /\ \E k \in 0..(Len(read) - n) :
                                SubSeq(read, k + 1, k + n) = words
                          /\ \E k \in DOMAIN answer :
                                UpTo(WordTokens(answer[k]), n) = words
    BY DEF KeptQuoteIsOnePassage
  <2>1. KeptOf(kept, answer, panel_text, Len(answer)) /\ answer \in Seq(Seq(Symbol))
    BY KeepQuotesAre DEF SaidType
  <2>2. c \in 1..Len(kept) /\ DOMAIN answer = 1..Len(answer)
    BY <2>1, LenProperties DEF KeptOf
  <2>3. PICK k \in 1..Len(answer) : /\ kept[c] = KeepQuote(answer[k], panel_text)
                                    /\ kept[c] # Dropped
    BY <2>1, <2>2 DEF KeptOf
  <2> DEFINE s == kept[c]
             said == answer[k]
             words == WordTokens(s)
             all == WordTokens(said)
             read == WordTokens(panel_text)
  <2>4. said \in Seq(Symbol) /\ panel_text \in Seq(Symbol)
    BY <2>1, ElementOfSeq DEF PageType
  <2>5. s = KeepQuote(said, panel_text) /\ s # Dropped
    BY <2>3
  <2> HIDE DEF s, said
  <2>6. /\ ~Spliced(said) /\ Strip(said) \in Seq(Symbol)
        /\ Candidate(Strip(said), s) /\ QuoteGrounded(s, panel_text)
    BY <2>4, <2>5, KeptIsCandidate
  <2>7. s \in Seq(Symbol) /\ ~Spliced(s)
    <3>1. ValidQuote(s, panel_text) /\ s \in Seq(Symbol)
      BY <2>4, <2>5, KeptIsValid
    <3> QED BY <3>1 DEF ValidQuote
  <2>8. /\ words # <<>> /\ Len(words) # 1
        /\ FindRun(read, words, 0) # NotFound
    BY <2>6, <2>7, GroundedIs
  <2>9. /\ words \in Seq(Seq(Symbol)) /\ read \in Seq(Seq(Symbol))
        /\ all \in Seq(Seq(Symbol))
    BY <2>4, <2>7, WordsAre
  <2>10. /\ Len(words) \in 0..Len(all) /\ words = SubSeq(all, 1, Len(words))
    BY <2>4, <2>6, CandidateWords
  <2> DEFINE Y == Seq(Symbol)
             n == Len(words)
  <2> HIDE DEF words, all, read, Y
  <2>11. words \in Seq(Y) /\ read \in Seq(Y) /\ all \in Seq(Y)
    BY <2>9 DEF Y
  <2>12. n \in Nat /\ n >= 2
    <3>1. n \in Nat /\ n # 0
      BY <2>8, <2>11, LenProperties, EmptySeq
    <3> QED BY <2>8, <3>1
  <2>13. \E l \in 0..(Len(read) - n) : SubSeq(read, l + 1, l + n) = words
    <3>1. \E l : RunAt(read, words, l)
      BY <2>8, <2>11, FindRunIs
    <3> QED BY <3>1 DEF RunAt
  <2>14. UpTo(all, n) = words
    <3>1. PICK m \in 0..Len(all) : /\ UpTo(all, n) = SubSeq(all, 1, m)
                                   /\ m <= n /\ (m = Len(all) \/ m = n)
      BY <2>11, <2>12, UpToIs
    <3>2. Len(all) \in Nat /\ n \in 0..Len(all)
      BY <2>10, <2>11, LenProperties
    <3> HIDE DEF n
    <3>3. m = n
      BY <3>1, <3>2
    <3>4. words = SubSeq(all, 1, n)
      BY <2>10 DEF n
    <3> QED BY <3>1, <3>3, <3>4
  <2> QED BY <2>2, <2>12, <2>13, <2>14 DEF words, all, read, s, said
<1> QED BY <1>1, SaidIsKept, PagesAreTexts, PTL

\* An over-long quote that the text shows is cut and not lost, as long as two
\* whole words are left of it under the cap (_cuts, _ground_quote): it is kept
\* in part.
THEOREM LongQuoteIsKept == Spec => []LongQuoteIsSalvaged
<1> HIDE DEF Symbol
<1>1. SaidType /\ PageType => LongQuoteIsSalvaged
  <2> DEFINE left(quote, p) == Strip(UpTo(quote, p - 1))
             Salvageable(quote, p) == /\ quote[p] = Space
                                      /\ Len(left(quote, p)) >= QUOTE_MIN
                                      /\ Len(WordTokens(left(quote, p))) >= 2
  <2> SUFFICES ASSUME SaidType, PageType, Len(answer) \in 1..MAX_QUOTES,
                      NEW k \in DOMAIN answer,
                      Len(Strip(answer[k])) > QUOTE_CAP, ~Spliced(Strip(answer[k])),
                      QuoteGrounded(Strip(answer[k]), panel_text),
                      NEW p \in 1..QUOTE_CAP, Salvageable(Strip(answer[k]), p)
               PROVE  \E c \in DOMAIN kept : IsPrefix(kept[c], Strip(answer[k]))
    BY DEF LongQuoteIsSalvaged
  <2>1. KeptOf(kept, answer, panel_text, Len(answer)) /\ answer \in Seq(Seq(Symbol))
    BY KeepQuotesAre DEF SaidType
  <2>2. k \in 1..Len(answer) /\ DOMAIN kept = 1..Len(kept) /\ Len(answer) <= MAX_QUOTES
    BY <2>1, LenProperties DEF KeptOf
  <2>3. answer[k] \in Seq(Symbol) /\ panel_text \in Seq(Symbol)
    BY <2>1, <2>2, ElementOfSeq DEF PageType
  <2> DEFINE said == answer[k]
             quote == Strip(said)
             first == FirstCut(quote)
             read == WordTokens(panel_text)
  <2>4. said \in Seq(Symbol) /\ quote \in Seq(Symbol) /\ Stripped(quote)
    BY <2>3, StripType
  <2>5. /\ Len(quote) > QUOTE_CAP /\ ~Spliced(quote) /\ QuoteGrounded(quote, panel_text)
        /\ quote[p] = Space /\ Len(left(quote, p)) >= QUOTE_MIN
        /\ Len(WordTokens(left(quote, p))) >= 2
    OBVIOUS
  <2> HIDE DEF said, quote
  <2>6. /\ Len(first) >= QUOTE_MIN
        /\ Len(WordTokens(left(quote, p))) <= Len(WordTokens(first))
        /\ Len(WordTokens(first)) \in Nat
    BY <2>4, <2>5, FirstCutIsLongest
  <2>7. PICK l \in 1..Len(Cuts(quote)) : Cuts(quote)[l] = first
    BY <2>4, <2>5, <2>6, CutsAre
  <2>8. first \in Seq(Symbol) /\ CutOf(quote, first)
    BY <2>4, <2>5, FirstCutIs
  <2>9. first # <<>>
    BY <2>6, QuoteCapsAssumption, EmptySeq
  <2> HIDE DEF first
  <2>10. PICK n \in 1..QUOTE_CAP : /\ n < Len(quote) /\ first = SubSeq(quote, 1, n)
                                   /\ Stripped(first) /\ quote[n + 1] \notin Letters
    BY <2>8, <2>9 DEF CutOf
  <2>11. n \in 0..Len(quote) /\ Len(quote) \in Nat /\ \A r \in 1..n : r \in 1..Len(quote)
    BY <2>4, <2>10, LenProperties, QuoteCapsAssumption
  <2>12. ~Spliced(first)
    <3>1. Len(first) = n /\ \A r \in 1..n : first[r] = quote[r]
      BY <2>4, <2>10, <2>11, PrefixSymbols
    <3>2. DOMAIN first = 1..n /\ DOMAIN quote = 1..Len(quote)
      BY <2>4, <2>8, <3>1, LenProperties
    <3> QED BY <2>5, <2>11, <3>1, <3>2 DEF Spliced
  <2> DEFINE words == WordTokens(quote)
             some == WordTokens(first)
             m == Len(some)
  <2>13. m \in 0..Len(words) /\ some = SubSeq(words, 1, m)
    BY <2>4, <2>10, <2>11, PrefixWords
  <2>14. /\ words \in Seq(Seq(Symbol)) /\ read \in Seq(Seq(Symbol))
         /\ some \in Seq(Seq(Symbol))
    BY <2>3, <2>4, <2>8, WordsAre
  <2>15. m \in Nat /\ m >= 2
    <3> DEFINE w == Len(WordTokens(left(quote, p)))
    <3>1. m \in Nat /\ w >= 2 /\ w <= m
      BY <2>5, <2>6
    <3>2. w \in Nat
      <4>1. left(quote, p) \in Seq(Symbol)
        <5> DEFINE b == p - 1
        <5>1. b \in Nat
          BY QuoteCapsAssumption
        <5> HIDE DEF b
        <5>2. PICK r \in 0..Len(quote) : UpTo(quote, b) = SubSeq(quote, 1, r)
          BY <2>4, <5>1, UpToIs
        <5>3. UpTo(quote, b) \in Seq(Symbol)
          BY <2>4, <5>2, PrefixSymbols
        <5>4. Strip(UpTo(quote, b)) \in Seq(Symbol)
          BY <5>3, StripType
        <5> QED BY <5>4 DEF b
      <4> HIDE DEF left
      <4> QED BY <4>1, WordsAre, LenProperties
    <3> HIDE DEF w
    <3> QED BY <3>1, <3>2
  <2>16. FindRun(read, words, 0) # NotFound
    BY <2>4, <2>5, GroundedIs
  <2> DEFINE Y == Seq(Symbol)
  <2> HIDE DEF words, some, read, Y
  <2>18. words \in Seq(Y) /\ some \in Seq(Y) /\ read \in Seq(Y)
    BY <2>14 DEF Y
  <2>17. some # <<>> /\ m # 1
    <3>1. m # 1 /\ m # 0
      <4> HIDE DEF m
      <4> QED BY <2>15
    <3>2. some = <<>> => Len(some) = 0
      BY EmptySeq
    <3> QED BY <3>1, <3>2
  <2>19. PICK z : RunAt(read, words, z)
    BY <2>16, <2>18, FindRunIs
  <2>20. RunAt(read, some, z)
    BY <2>13, <2>18, <2>19, FirstOfRun
  <2>21. FindRun(read, some, 0) # NotFound
    BY <2>18, <2>20, FindRunIs
  <2>22. QuoteGrounded(first, panel_text)
    BY <2>8, <2>12, <2>17, <2>21, GroundedIs DEF some, read
  <2>23. ~Spliced(said)
    <3> SUFFICES ASSUME NEW q \in DOMAIN said, said[q] = Ellipsis
                 PROVE  FALSE
      BY DEF Spliced
    <3>1. q \in 1..Len(said) /\ Ellipsis # Space /\ Len(said) \in Nat
      BY <2>4, LenProperties DEF Ellipsis, Space
    <3>2. PICK a, b : Ink(said, a, b)
      BY <2>4, <3>1, StripIs
    <3>3. /\ a \in 1..Len(said) /\ b \in a..Len(said) /\ quote = SubSeq(said, a, b)
          /\ \A r \in 1..Len(said) : (r < a \/ b < r) => said[r] = Space
      BY <3>2 DEF Ink, quote
    <3>4. a \in 1..Len(said) + 1 /\ b \in 0..Len(said) /\ q \in a..b
      <4>1. said[q] # Space /\ a \in Nat /\ b \in Nat /\ a <= Len(said) /\ 1 <= a
               /\ b <= Len(said) /\ a <= b
        BY <3>1, <3>3
      <4>2. ~(q < a \/ b < q)
        BY <3>1, <3>3, <4>1
      <4> QED BY <3>1, <4>1, <4>2
    <3> DEFINE part == SubSeq(said, a, b)
    <3>7. /\ Len(part) = IF a <= b THEN b - a + 1 ELSE 0
          /\ \A r \in a..b : part[r - a + 1] = said[r]
      BY <2>4, <3>4, PartSymbols
    <3>8. a \in Nat /\ b \in Nat /\ a <= b
      BY <3>1, <3>3
    <3>5. quote[q - a + 1] = said[q] /\ Len(quote) = b - a + 1
      <4> HIDE DEF part
      <4>1. part[q - a + 1] = said[q] /\ Len(part) = b - a + 1
        BY <3>4, <3>7, <3>8
      <4>2. quote = part
        BY <3>3 DEF part
      <4> QED BY <4>1, <4>2
    <3>6. q - a + 1 \in DOMAIN quote
      <4>1. DOMAIN quote = 1..Len(quote)
        BY <2>4, LenProperties
      <4>2. q - a + 1 \in 1..b - a + 1
        <5>1. q \in Nat /\ a <= q /\ q <= b
          BY <3>4, <3>8
        <5> QED BY <3>8, <5>1
      <4> QED BY <3>5, <4>1, <4>2
    <3> QED BY <2>5, <3>5, <3>6 DEF Spliced
  <2>24. KeepQuote(said, panel_text) # Dropped
    BY <2>4, <2>5, <2>7, <2>22, <2>23, ShownCutIsKept DEF quote
  <2>25. PICK c \in 1..Len(kept) : kept[c] = KeepQuote(said, panel_text)
    BY <2>1, <2>2, <2>24 DEF KeptOf, said
  <2>26. Candidate(quote, kept[c])
    BY <2>4, <2>24, <2>25, KeptIsCandidate DEF quote
  <2>27. IsPrefix(kept[c], quote)
    BY <2>4, <2>26, CandidatePrefix
  <2> QED BY <2>2, <2>27 DEF quote, said
<1> QED BY <1>1, SaidIsKept, PagesAreTexts, PTL

----------------------------------------------------------------------------
(* Decoding a page that the cap on bytes cuts *)

\* off[n] is how many bytes the first n symbols take.
Offsets(off, body) ==
    /\ off \in [0..Len(body) -> Nat] /\ off[0] = 0
    /\ \A n \in 1..Len(body) : off[n] = off[n - 1] + BytesOf(body[n])

\* The bytes of the first n symbols, each where its symbol's offset says.
BytesAt(bytes, off, body, n) ==
    /\ bytes \in Seq(Byte) /\ Len(bytes) = off[n]
    /\ \A m \in 1..n : \A b \in 1..BytesOf(body[m]) :
          bytes[off[m - 1] + b] = <<body[m], b>>

\* Every symbol takes a byte or more.
LEMMA OffsetsGrow ==
    ASSUME NEW body, IsPage(body), NEW off, Offsets(off, body)
    PROVE  \A m, n \in 0..Len(body) : m < n => off[m] < off[n]
<1> DEFINE L == Len(body)
           S == {n \in 0..L : \A m \in 0..L : m < n => off[m] < off[n]}
<1>1. /\ L \in Nat /\ \A n \in 0..L : off[n] \in Nat
      /\ \A n \in 1..L : off[n] = off[n - 1] + BytesOf(body[n])
      /\ \A n \in 1..L : BytesOf(body[n]) \in 1..4
  BY LenProperties DEF Offsets, IsPage
<1> HIDE DEF L
<1>2. 0 \in S
  BY <1>1
<1>3. ASSUME NEW n \in 0..L, n \in S, n < L
      PROVE  n + 1 \in S
  <2>1. n + 1 \in 1..L /\ n + 1 \in 0..L /\ n + 1 - 1 = n
    BY <1>1, <1>3
  <2>2. off[n] < off[n + 1]
    <3> DEFINE k == n + 1
    <3>1. k \in 1..L /\ k - 1 = n
      BY <2>1
    <3> HIDE DEF k
    <3>2. off[k] = off[n] + BytesOf(body[k]) /\ BytesOf(body[k]) \in 1..4 /\ off[n] \in Nat
      BY <1>1, <3>1
    <3>3. off[n] < off[k]
      BY <3>2
    <3> QED BY <3>3 DEF k
  <2>3. ASSUME NEW m \in 0..L, m < n + 1
        PROVE  off[m] < off[n + 1]
    <3>1. m = n \/ m < n
      BY <2>3
    <3>2. m < n => off[m] < off[n]
      BY <1>3
    <3>3. off[m] \in Nat /\ off[n] \in Nat /\ off[n + 1] \in Nat
      BY <1>1, <2>1
    <3> QED BY <2>2, <3>1, <3>2, <3>3
  <2> QED BY <2>1, <2>3
<1> HIDE DEF S
<1>4. \A n \in 0..L : n \in S
  BY <1>1, <1>2, <1>3, Climb
<1> QED BY <1>4 DEF S, L

\* And every byte is of a symbol.
LEMMA OffsetsCover ==
    ASSUME NEW body, IsPage(body), NEW off, Offsets(off, body)
    PROVE  \A n \in 0..Len(body) : \A r \in 1..off[n] :
              \E m \in 1..n : \E b \in 1..BytesOf(body[m]) : r = off[m - 1] + b
<1> DEFINE L == Len(body)
           Covered(r, n) ==
              \E m \in 1..n : \E b \in 1..BytesOf(body[m]) : r = off[m - 1] + b
           S == {n \in 0..L : \A r \in 1..off[n] : Covered(r, n)}
<1>1. /\ L \in Nat /\ \A n \in 0..L : off[n] \in Nat
      /\ off[0] = 0
      /\ \A n \in 1..L : off[n] = off[n - 1] + BytesOf(body[n])
      /\ \A n \in 1..L : BytesOf(body[n]) \in 1..4
  BY LenProperties DEF Offsets, IsPage
<1> HIDE DEF L
<1>2. 0 \in S
  BY <1>1
<1>3. ASSUME NEW n \in 0..L, n \in S, n < L
      PROVE  n + 1 \in S
  <2> DEFINE k == n + 1
  <2>1. k \in 1..L /\ k \in 0..L /\ k - 1 = n /\ k \in 1..k
    BY <1>1, <1>3
  <2>2. \A m \in 1..n : m \in 1..k
    OBVIOUS
  <2> HIDE DEF k
  <2>3. off[k] = off[n] + BytesOf(body[k]) /\ BytesOf(body[k]) \in 1..4 /\ off[n] \in Nat
    BY <1>1, <2>1
  <2>4. ASSUME NEW r \in 1..off[k]
        PROVE  Covered(r, k)
    <3>1. CASE r \in 1..off[n]
      <4>1. Covered(r, n)
        BY <1>3, <3>1
      <4> QED BY <2>2, <4>1
    <3>2. CASE r \notin 1..off[n]
      <4> DEFINE b == r - off[n]
      <4>1. b \in 1..BytesOf(body[k]) /\ r = off[k - 1] + b
        BY <2>1, <2>3, <3>2
      <4> HIDE DEF b
      <4> QED BY <2>1, <4>1
    <3> QED BY <3>1, <3>2
  <2>5. k \in S
    BY <2>1, <2>4
  <2> QED BY <2>5 DEF k
<1> HIDE DEF S
<1>4. \A n \in 0..L : n \in S
  BY <1>1, <1>2, <1>3, Climb
<1> QED BY <1>4 DEF S, L

\* The bytes of a page.
LEMMA EncodedBytes ==
    ASSUME NEW body, IsPage(body)
    PROVE  \E off : Offsets(off, body) /\ BytesAt(Encode(body), off, body, Len(body))
<1> HIDE DEF Symbol, Byte
<1>0. PICK enc : Encoded(enc, body) /\ Encode(body) = enc[Len(body)]
  BY EncodeIs
<1> DEFINE L == Len(body)
           off == [n \in 0..L |-> Len(enc[n])]
           S == {n \in 0..L : BytesAt(enc[n], off, body, n)}
<1>1. /\ L \in Nat /\ \A n \in 1..L : body[n] \in Symbol /\ BytesOf(body[n]) \in 1..4
      /\ \A n \in 0..L : enc[n] \in Seq(Byte)
      /\ enc[0] = <<>>
      /\ \A n \in 1..L : enc[n] = enc[n - 1] \o Bytes(body[n])
  BY <1>0, LenProperties, ElementOfSeq DEF IsPage, Encoded
<1> HIDE DEF L
<1>2. \A n \in 0..L : off[n] = Len(enc[n]) /\ off[n] \in Nat
  BY <1>1, LenProperties
<1>3. ASSUME NEW k \in 1..L
      PROVE  /\ k - 1 \in 0..L /\ k \in 0..L
             /\ off[k] = off[k - 1] + BytesOf(body[k])
             /\ \A r \in 1..off[k - 1] : enc[k][r] = enc[k - 1][r]
             /\ \A b \in 1..BytesOf(body[k]) : enc[k][off[k - 1] + b] = <<body[k], b>>
  <2> DEFINE y == Bytes(body[k])
             x == enc[k - 1]
  <2>1. k - 1 \in 0..L /\ k \in 0..L
    BY <1>1
  <2>2. /\ y \in Seq(Byte) /\ Len(y) = BytesOf(body[k])
        /\ \A b \in 1..BytesOf(body[k]) : y[b] = <<body[k], b>>
    BY <1>1, BytesAre
  <2>3. x \in Seq(Byte) /\ enc[k] = x \o y /\ off[k - 1] = Len(x)
    BY <1>1, <1>2, <2>1
  <2>4. off[k] = Len(enc[k])
    BY <1>2, <2>1
  <2> HIDE DEF x, y, off
  <2>9. x \in Seq(Byte) /\ y \in Seq(Byte)
    BY <2>2, <2>3
  <2>5. /\ Len(x \o y) = Len(x) + Len(y)
        /\ \A r \in 1..Len(x) : (x \o y)[r] = x[r]
        /\ \A r \in 1..Len(y) : (x \o y)[Len(x) + r] = y[r]
    BY <2>9, ConcatSymbols
  <2>6. off[k] = off[k - 1] + BytesOf(body[k])
    BY <2>2, <2>3, <2>4, <2>5
  <2>7. \A r \in 1..off[k - 1] : enc[k][r] = enc[k - 1][r]
    BY <2>3, <2>5 DEF x
  <2>8. \A b \in 1..BytesOf(body[k]) : enc[k][off[k - 1] + b] = <<body[k], b>>
    BY <2>2, <2>3, <2>5
  <2> QED BY <2>1, <2>6, <2>7, <2>8
<1>4. Offsets(off, body)
  <2>1. off \in [0..L -> Nat] /\ off[0] = 0
    BY <1>1, <1>2, EmptySeq
  <2> HIDE DEF off
  <2> QED BY <1>3, <2>1 DEF Offsets, L
<1> HIDE DEF off
<1>5. 0 \in S
  BY <1>1, <1>2 DEF BytesAt
<1>6. ASSUME NEW n \in 0..L, n \in S, n < L
      PROVE  n + 1 \in S
  <2> DEFINE k == n + 1
  <2>1. k \in 1..L /\ k - 1 = n /\ k \in 0..L
    BY <1>1, <1>6
  <2>2. \A m \in 1..k : m \in 1..n \/ m = k
    OBVIOUS
  <2> HIDE DEF k
  <2>3. \A m \in 1..n : \A b \in 1..BytesOf(body[m]) :
           enc[n][off[m - 1] + b] = <<body[m], b>>
    BY <1>6 DEF BytesAt
  <2>4. ASSUME NEW m \in 1..k, NEW b \in 1..BytesOf(body[m])
        PROVE  enc[k][off[m - 1] + b] = <<body[m], b>>
    <3>1. CASE m \in 1..n
      <4>1. off[m - 1] + b \in 1..off[n]
        <5>1. m \in 1..L /\ m - 1 \in 0..L /\ m \in 0..L
          BY <1>1, <3>1
        <5>2. off[m] = off[m - 1] + BytesOf(body[m])
          BY <1>3, <5>1
        <5>3. m = n \/ m < n
          BY <3>1
        <5>4. m < n => off[m] < off[n]
          BY <1>4, <5>1, OffsetsGrow DEF L
        <5>5. /\ off[m] \in Nat /\ off[m - 1] \in Nat /\ off[n] \in Nat
              /\ BytesOf(body[m]) \in 1..4
          BY <1>1, <1>2, <5>1
        <5> QED BY <5>2, <5>3, <5>4, <5>5
      <4>2. enc[k][off[m - 1] + b] = enc[n][off[m - 1] + b]
        BY <1>3, <2>1, <4>1
      <4> QED BY <2>3, <3>1, <4>2
    <3>2. CASE m = k
      BY <1>3, <2>1, <3>2
    <3> QED BY <2>2, <3>1, <3>2
  <2>5. enc[k] \in Seq(Byte) /\ Len(enc[k]) = off[k]
    BY <1>1, <1>2, <2>1
  <2>6. k \in S
    BY <2>1, <2>4, <2>5 DEF BytesAt
  <2> QED BY <2>6 DEF k
<1> HIDE DEF S
<1>7. \A n \in 0..L : n \in S
  BY <1>1, <1>5, <1>6, Climb
<1>8. BytesAt(enc[L], off, body, L)
  BY <1>1, <1>7 DEF S
<1> QED BY <1>0, <1>4, <1>8 DEF L

\* The bytes of the beginning of a page.
LEMMA EncodedLength ==
    ASSUME NEW body, IsPage(body), NEW off, Offsets(off, body), NEW n \in 0..Len(body)
    PROVE  Len(Encode(SubSeq(body, 1, n))) = off[n]
<1> HIDE DEF Symbol, Byte
<1> DEFINE part == SubSeq(body, 1, n)
<1>11. body \in Seq(Symbol) /\ \A k \in 1..Len(body) : BytesOf(body[k]) \in 1..4
  BY DEF IsPage
<1>12. Len(body) \in Nat /\ n \in Nat
  BY <1>11, LenProperties
<1>13. /\ off[0] = 0 /\ \A k \in 0..Len(body) : off[k] \in Nat
       /\ \A k \in 1..Len(body) : off[k] = off[k - 1] + BytesOf(body[k])
  BY <1>12 DEF Offsets
<1>1. /\ Len(body) \in Nat /\ n \in Nat /\ body \in Seq(Symbol)
      /\ \A k \in 1..Len(body) : BytesOf(body[k]) \in 1..4
      /\ off[0] = 0 /\ \A k \in 0..Len(body) : off[k] \in Nat
      /\ \A k \in 1..Len(body) : off[k] = off[k - 1] + BytesOf(body[k])
  BY <1>11, <1>12, <1>13
<1>2. part \in Seq(Symbol) /\ Len(part) = n /\ \A k \in 1..n : part[k] = body[k]
  BY <1>1, PrefixSymbols
<1>3. \A k \in 1..n : k \in 1..Len(body)
  BY <1>1
<1> HIDE DEF part
<1>4. IsPage(part)
  BY <1>1, <1>2, <1>3 DEF IsPage
<1>5. PICK o : Offsets(o, part) /\ BytesAt(Encode(part), o, part, Len(part))
  BY <1>4, EncodedBytes
<1>6. /\ o[0] = 0 /\ \A k \in 1..n : o[k] = o[k - 1] + BytesOf(part[k])
      /\ Len(Encode(part)) = o[n]
  BY <1>2, <1>5 DEF Offsets, BytesAt
<1> DEFINE S == {k \in 0..n : o[k] = off[k]}
<1>7. 0 \in S
  BY <1>1, <1>6
<1>8. ASSUME NEW m \in 0..n, m \in S, m < n
      PROVE  m + 1 \in S
  <2> DEFINE k == m + 1
  <2>1. k \in 1..n /\ k - 1 = m /\ k \in 0..n
    BY <1>1, <1>8
  <2> HIDE DEF k
  <2>2. o[k] = o[m] + BytesOf(body[k]) /\ off[k] = off[m] + BytesOf(body[k])
    BY <1>1, <1>2, <1>3, <1>6, <2>1
  <2>3. k \in S
    BY <1>8, <2>1, <2>2
  <2> QED BY <2>3 DEF k
<1> HIDE DEF S
<1>9. \A k \in 0..n : k \in S
  BY <1>1, <1>7, <1>8, Climb
<1>10. o[n] = off[n]
  BY <1>1, <1>9 DEF S
<1> QED BY <1>6, <1>10 DEF part

\* The first bytes of the symbols.
LEMMA FirstBytes ==
    ASSUME NEW body, IsPage(body), NEW off, Offsets(off, body), NEW n \in 0..Len(body),
           NEW bytes, BytesAt(bytes, off, body, n)
    PROVE  Selected(bytes, {p \in DOMAIN bytes : bytes[p][2] = 1})
              = [k \in 1..n |-> <<body[k], 1>>]
<1> HIDE DEF Symbol
<1> DEFINE P == {p \in DOMAIN bytes : bytes[p][2] = 1}
           t == [k \in 1..n |-> <<body[k], 1>>]
           f == [k \in 1..n |-> off[k - 1] + 1]
<1>11. body \in Seq(Symbol) /\ \A k \in 1..Len(body) : BytesOf(body[k]) \in 1..4
  BY DEF IsPage
<1>12. Len(body) \in Nat /\ n \in Nat /\ n <= Len(body)
  BY <1>11, LenProperties
<1>13. \A k \in 1..Len(body) : body[k] \in Symbol
  BY <1>11, ElementOfSeq
<1>14. /\ off[0] = 0 /\ \A k \in 0..Len(body) : off[k] \in Nat
       /\ \A k \in 1..Len(body) : off[k] = off[k - 1] + BytesOf(body[k])
  BY <1>12 DEF Offsets
<1>1. /\ Len(body) \in Nat /\ n \in Nat /\ n <= Len(body)
      /\ \A k \in 1..Len(body) : body[k] \in Symbol /\ BytesOf(body[k]) \in 1..4
      /\ off[0] = 0 /\ \A k \in 0..Len(body) : off[k] \in Nat
      /\ \A k \in 1..Len(body) : off[k] = off[k - 1] + BytesOf(body[k])
  BY <1>11, <1>12, <1>13, <1>14
<1>2. /\ bytes \in Seq(Byte) /\ Len(bytes) = off[n] /\ DOMAIN bytes = 1..off[n]
      /\ \A m \in 1..n : \A b \in 1..BytesOf(body[m]) :
            bytes[off[m - 1] + b] = <<body[m], b>>
  BY LenProperties DEF BytesAt
<1>3. \A m \in 1..n : \A b \in 1..BytesOf(body[m]) :
         off[m - 1] + b \in 1..off[n] /\ (off[m - 1] + b \in P <=> b = 1)
  <2> SUFFICES ASSUME NEW m \in 1..n, NEW b \in 1..BytesOf(body[m])
               PROVE  off[m - 1] + b \in 1..off[n] /\ (off[m - 1] + b \in P <=> b = 1)
    OBVIOUS
  <2>1. m \in 1..Len(body) /\ m - 1 \in 0..Len(body) /\ m \in 0..Len(body)
    BY <1>1
  <2>2. m = n \/ m < n
    BY <1>1
  <2>3. m < n => off[m] < off[n]
    BY <2>1, OffsetsGrow
  <2>4. /\ off[m] = off[m - 1] + BytesOf(body[m]) /\ BytesOf(body[m]) \in 1..4
        /\ off[m] \in Nat /\ off[m - 1] \in Nat /\ off[n] \in Nat
    BY <1>1, <2>1
  <2>5. off[m - 1] + b \in 1..off[n]
    BY <2>2, <2>3, <2>4
  <2>6. bytes[off[m - 1] + b] = <<body[m], b>>
    BY <1>2
  <2> DEFINE x == off[m - 1] + b
  <2>7. x \in 1..off[n] /\ bytes[x] = <<body[m], b>>
    BY <2>5, <2>6
  <2> HIDE DEF x
  <2>8. x \in P <=> b = 1
    BY <1>2, <2>7
  <2> HIDE DEF P
  <2> QED BY <2>7, <2>8 DEF x
<1>21. \A k \in 1..n : k \in 1..Len(body) /\ k - 1 \in 0..Len(body)
  BY <1>12
<1>22. \A k \in 1..n : 1 \in 1..BytesOf(body[k])
  <2> SUFFICES ASSUME NEW k \in 1..n
               PROVE  1 \in 1..BytesOf(body[k])
    OBVIOUS
  <2>1. BytesOf(body[k]) \in 1..4
    BY <1>1, <1>21
  <2> QED BY <2>1
<1>23. \A k \in 1..n : f[k] = off[k - 1] + 1
  OBVIOUS
<1>4. \A k \in 1..n : /\ 1 \in 1..BytesOf(body[k]) /\ f[k] = off[k - 1] + 1
                      /\ k \in 1..Len(body) /\ k - 1 \in 0..Len(body)
  BY <1>21, <1>22, <1>23
<1>5. P \in SUBSET (1..Len(bytes))
  BY <1>2
<1>6. t \in Seq(Byte) /\ Len(t) = n
  <2>1. \A k \in 1..n : <<body[k], 1>> \in Byte
    BY <1>1, <1>4 DEF Byte
  <2> HIDE DEF Byte
  <2> QED BY <1>1, <2>1
<1> HIDE DEF P, f, Byte
<1>7. Lists(f, n, P)
  <2>1. \A k \in 1..n : f[k] \in P
    BY <1>3, <1>4
  <2>2. f \in [1..n -> P]
    BY <2>1 DEF f
  <2>3. ASSUME NEW p \in P
        PROVE  \E k \in 1..n : f[k] = p
    <3>1. p \in 1..off[n]
      BY <1>2, <1>5
    <3>2. PICK m \in 1..n : \E b \in 1..BytesOf(body[m]) : p = off[m - 1] + b
      BY <3>1, OffsetsCover
    <3>3. PICK b \in 1..BytesOf(body[m]) : p = off[m - 1] + b
      BY <3>2
    <3>4. b = 1
      BY <1>3, <3>3
    <3> QED BY <1>4, <3>3, <3>4
  <2>4. ASSUME NEW k \in 1..n, NEW l \in 1..n, k < l
        PROVE  f[k] < f[l]
    <3>1. k - 1 \in 0..Len(body) /\ l - 1 \in 0..Len(body) /\ k - 1 < l - 1
      BY <1>4, <2>4
    <3>2. off[k - 1] < off[l - 1]
      BY <3>1, OffsetsGrow
    <3>3. off[k - 1] \in Nat /\ off[l - 1] \in Nat
      BY <1>1, <3>1
    <3> QED BY <1>4, <3>2, <3>3
  <2> QED BY <2>2, <2>3, <2>4 DEF Lists
<1>8. \A k \in 1..n : t[k] = bytes[f[k]]
  <2> SUFFICES ASSUME NEW k \in 1..n
               PROVE  <<body[k], 1>> = bytes[f[k]]
    OBVIOUS
  <2>1. bytes[off[k - 1] + 1] = <<body[k], 1>>
    BY <1>2, <1>4
  <2> QED BY <1>4, <2>1
<1> HIDE DEF t
<1>9. Lists(f, Len(t), P) /\ \A k \in 1..Len(t) : t[k] = bytes[f[k]]
  BY <1>6, <1>7, <1>8
<1>10. Selected(bytes, P) = t
  BY <1>2, <1>5, <1>6, <1>9, SelectionIs
<1> QED BY <1>10 DEF P, t


\* A prefix of the bytes of a page of valid symbols is UTF-8 where it ends with
\* a symbol, and nowhere else.
LEMMA WholeIsUtf8 ==
    ASSUME NEW body, IsPage(body), \A p \in 1..Len(body) : body[p] # Invalid,
           NEW off, Offsets(off, body), NEW e, BytesAt(e, off, body, Len(body)),
           NEW r \in 0..Len(e)
    PROVE  IsUtf8(SubSeq(e, 1, r)) <=> \E n \in 0..Len(body) : off[n] = r
<1> HIDE DEF Symbol, Byte
<1> DEFINE L == Len(body)
           bytes == SubSeq(e, 1, r)
<1>1. body \in Seq(Symbol) /\ \A k \in 1..L : BytesOf(body[k]) \in 1..4
  BY DEF IsPage
<1>2. L \in Nat
  BY <1>1, LenProperties
<1>3. /\ off[0] = 0 /\ \A k \in 0..L : off[k] \in Nat
      /\ \A k \in 1..L : off[k] = off[k - 1] + BytesOf(body[k])
  BY <1>2 DEF Offsets
<1>4. /\ e \in Seq(Byte) /\ Len(e) = off[L]
      /\ \A m \in 1..L : \A b \in 1..BytesOf(body[m]) :
            e[off[m - 1] + b] = <<body[m], b>>
  BY DEF BytesAt
<1>5. /\ bytes \in Seq(Byte) /\ Len(bytes) = r /\ r \in Nat /\ r <= Len(e)
      /\ \A p \in 1..r : bytes[p] = e[p]
  BY <1>4, PrefixSymbols
<1> HIDE DEF bytes
<1>6. DOMAIN bytes = 1..r /\ (bytes # <<>> <=> r # 0)
  BY <1>5, LenProperties, EmptySeq
<1>7. ASSUME NEW p \in 1..r
      PROVE  \E m \in 1..L : \E b \in 1..BytesOf(body[m]) :
                /\ p = off[m - 1] + b /\ bytes[p] = <<body[m], b>>
  <2>1. L \in 0..L /\ p \in 1..off[L]
    BY <1>2, <1>3, <1>4, <1>5
  <2>2. PICK m \in 1..L : \E b \in 1..BytesOf(body[m]) : p = off[m - 1] + b
    BY <2>1, OffsetsCover, SMTT(30)
  <2>3. PICK b \in 1..BytesOf(body[m]) : p = off[m - 1] + b
    BY <2>2
  <2>4. bytes[p] = <<body[m], b>>
    BY <1>4, <1>5, <2>3
  <2> QED BY <2>3, <2>4
<1>8. \A p \in DOMAIN bytes : bytes[p][1] # Invalid
  <2> SUFFICES ASSUME NEW p \in 1..r
               PROVE  bytes[p][1] # Invalid
    BY <1>6
  <2>1. PICK m \in 1..L : \E b \in 1..BytesOf(body[m]) : bytes[p] = <<body[m], b>>
    BY <1>7
  <2>2. body[m] # Invalid
    OBVIOUS
  <2> QED BY <2>1, <2>2
<1>9. CASE r = 0
  <2>1. 0 \in 0..L
    BY <1>2
  <2> QED BY <1>3, <1>6, <1>8, <1>9, <2>1 DEF IsUtf8, bytes
<1>10. CASE r # 0
  <2>1. r \in 1..r
    BY <1>5, <1>10
  <2>2. PICK m \in 1..L : \E b \in 1..BytesOf(body[m]) :
               r = off[m - 1] + b /\ bytes[r] = <<body[m], b>>
    BY <1>7, <2>1
  <2>3. PICK b \in 1..BytesOf(body[m]) : r = off[m - 1] + b /\ bytes[r] = <<body[m], b>>
    BY <2>2
  <2>4. IsUtf8(bytes) <=> b = BytesOf(body[m])
    <3>1. bytes[Len(bytes)][2] = BytesOf(bytes[Len(bytes)][1]) <=> b = BytesOf(body[m])
      BY <1>5, <2>3
    <3> QED BY <1>6, <1>8, <1>10, <3>1 DEF IsUtf8
  <2>5. /\ m \in 0..L /\ m - 1 \in 0..L /\ off[m] = off[m - 1] + BytesOf(body[m])
        /\ off[m - 1] \in Nat /\ BytesOf(body[m]) \in 1..4
    BY <1>1, <1>2, <1>3
  <2>6. b = BytesOf(body[m]) => \E n \in 0..L : off[n] = r
    BY <2>3, <2>5
  <2>7. ASSUME NEW n \in 0..L, off[n] = r
        PROVE  b = BytesOf(body[m])
    <3>1. off[m - 1] < off[n] /\ off[n] <= off[m] /\ off[n] \in Nat
      <4>1. off[n] = off[m - 1] + b /\ off[n] \in Nat
        BY <1>3, <2>3, <2>7
      <4>2. b \in Nat /\ 1 <= b /\ b <= BytesOf(body[m]) /\ BytesOf(body[m]) \in Nat
        BY <2>5
      <4> QED BY <2>5, <4>1, <4>2
    <3>2. n <= m - 1 => off[n] <= off[m - 1]
      <4>1. n < m - 1 => off[n] < off[m - 1]
        BY <2>5, OffsetsGrow
      <4>2. n = m - 1 => off[n] = off[m - 1]
        OBVIOUS
      <4> QED BY <1>2, <2>5, <3>1, <4>1, <4>2
    <3>3. m < n => off[m] < off[n]
      BY <2>5, OffsetsGrow
    <3>4. n = m
      BY <1>2, <2>5, <3>1, <3>2, <3>3
    <3>5. off[m - 1] + b = off[m - 1] + BytesOf(body[m])
      BY <2>3, <2>5, <2>7, <3>4, Zenon
    <3>6. b \in Nat /\ BytesOf(body[m]) \in Nat /\ off[m - 1] \in Nat
      BY <2>5
    <3> QED BY <3>5, <3>6
  <2> QED BY <2>4, <2>6, <2>7 DEF bytes
<1> QED BY <1>9, <1>10

\* How many symbols of a page the cap on bytes leaves whole.
Whole(body) == {n \in 0..Len(body) : Len(Encode(UpTo(body, n))) <= BODY_BYTES_CAP}

\* UpTo takes the prefix of n symbols of a text that has as many.
LEMMA UpToPrefix ==
    ASSUME NEW X, NEW s \in Seq(X), NEW n \in 0..Len(s)
    PROVE  UpTo(s, n) = SubSeq(s, 1, n)
<1>1. Len(s) \in Nat /\ n \in Nat /\ n <= Len(s)
  BY LenProperties
<1>2. PICK k \in 0..Len(s) : UpTo(s, n) = SubSeq(s, 1, k) /\ k <= n /\ (k = Len(s) \/ k = n)
  BY <1>1, UpToIs
<1>3. k = n
  BY <1>1, <1>2
<1> QED BY <1>2, <1>3

\* The greatest of them.
LEMMA WholeIs ==
    ASSUME NEW body, IsPage(body), NEW off, Offsets(off, body)
    PROVE  LET W == Max(Whole(body))
           IN  /\ W \in 0..Len(body) /\ off[W] <= BODY_BYTES_CAP
               /\ \A n \in 0..Len(body) : off[n] <= BODY_BYTES_CAP => n <= W
<1> HIDE DEF Symbol
<1>1. body \in Seq(Symbol)
  BY DEF IsPage
<1>2. Len(body) \in Nat /\ 0 \in 0..Len(body) /\ BODY_BYTES_CAP \in Nat
  BY <1>1, LenProperties, TextCapsAssumption
<1>3. \A n \in 0..Len(body) : Len(Encode(UpTo(body, n))) = off[n]
  BY <1>1, UpToPrefix, EncodedLength
<1>4. off[0] = 0
  BY DEF Offsets
<1>5. Whole(body) = {n \in 0..Len(body) : off[n] <= BODY_BYTES_CAP}
  BY <1>3 DEF Whole
<1>6. Whole(body) \in SUBSET (0..Len(body)) /\ Whole(body) # {}
  BY <1>2, <1>4, <1>5
<1>7. Max(Whole(body)) \in Whole(body) /\ \A n \in Whole(body) : n <= Max(Whole(body))
  BY <1>2, <1>6, MaxProperties
<1> QED BY <1>5, <1>7


\* The cap leaves the whole symbols, and up to three bytes of the next.
LEMMA CutAt ==
    ASSUME NEW body, IsPage(body), NEW off, Offsets(off, body),
           NEW e, BytesAt(e, off, body, Len(body)), e = Encode(body)
    PROVE  LET W == Max(Whole(body))
           IN  \E m \in 0..Len(e) :
                  /\ UpTo(e, BODY_BYTES_CAP) = SubSeq(e, 1, m)
                  /\ m <= BODY_BYTES_CAP /\ off[W] <= m
                  /\ m - off[W] \in BytesDropped(BytesCut(body))
<1> HIDE DEF Symbol, Byte
<1> DEFINE L == Len(body)
           W == Max(Whole(body))
           CAP == BODY_BYTES_CAP
<1>1. body \in Seq(Symbol) /\ \A k \in 1..L : BytesOf(body[k]) \in 1..4
  BY DEF IsPage
<1>2. L \in Nat /\ CAP \in Nat
  BY <1>1, LenProperties, TextCapsAssumption
<1>3. /\ \A k \in 0..L : off[k] \in Nat
      /\ \A k \in 1..L : off[k] = off[k - 1] + BytesOf(body[k])
  BY <1>2 DEF Offsets
<1>4. e \in Seq(Byte) /\ Len(e) = off[L]
  BY DEF BytesAt
<1>5. W \in 0..L /\ off[W] <= CAP /\ \A n \in 0..L : off[n] <= CAP => n <= W
  BY WholeIs
<1> HIDE DEF W
<1>6. PICK m \in 0..Len(e) : /\ UpTo(e, CAP) = SubSeq(e, 1, m) /\ m <= CAP
                             /\ m = Len(e) \/ m = CAP
                             /\ Len(e) <= CAP => m = Len(e)
  BY <1>2, <1>4, UpToIs
<1>7. BytesCut(body) <=> off[L] > CAP
  BY <1>4 DEF BytesCut
<1>8. L \in 0..L /\ off[L] \in Nat /\ off[W] \in Nat /\ m \in Nat
  BY <1>2, <1>3, <1>4, <1>5
<1>9. W < L => off[W] < off[L]
  BY <1>5, <1>8, OffsetsGrow
<1> HIDE DEF L, CAP
<1>10. W \in Nat /\ (W = L \/ W < L)
  BY <1>2, <1>5
<1>11. off[W] <= m
  BY <1>2, <1>4, <1>5, <1>6, <1>8, <1>9, <1>10
<1>12. CASE BytesCut(body)
  <2>1. W # L /\ m = CAP
    BY <1>2, <1>4, <1>5, <1>6, <1>7, <1>8, <1>12
  <2> DEFINE k == W + 1
  <2>2. k \in 1..L /\ k \in 0..L /\ k - 1 = W /\ ~(k <= W)
    BY <1>2, <1>5, <1>10, <2>1
  <2> HIDE DEF k
  <2>3. off[k] = off[W] + BytesOf(body[k]) /\ BytesOf(body[k]) \in 1..4 /\ ~(off[k] <= CAP)
    BY <1>1, <1>3, <1>5, <2>2 DEF L
  <2>4. off[k] \in Nat
    BY <1>3, <2>2
  <2>5. m - off[W] \in 0..3
    BY <1>2, <1>8, <1>11, <2>1, <2>3, <2>4
  <2> QED BY <1>6, <1>11, <1>12, <2>5 DEF BytesDropped, W, CAP
<1>13. CASE ~BytesCut(body)
  <2>1. L <= W
    BY <1>2, <1>5, <1>7, <1>8, <1>13
  <2>2. W = L /\ m = Len(e)
    BY <1>2, <1>4, <1>6, <1>7, <1>8, <1>10, <1>13, <2>1
  <2>3. m - off[W] = 0
    BY <1>4, <1>8, <2>2
  <2> QED BY <1>6, <1>11, <1>13, <2>3 DEF BytesDropped, W, CAP
<1> QED BY <1>12, <1>13

\* What is decoded of a page of valid symbols are those that are whole.
LEMMA DecodedBodyIs ==
    ASSUME NEW body, IsPage(body), \A p \in 1..Len(body) : body[p] # Invalid
    PROVE  /\ DecodedBody(body) = UpTo(body, Max(Whole(body)))
           /\ DecodedBody(body) # Undecodable
<1> HIDE DEF Symbol, Byte
<1> DEFINE L == Len(body)
           W == Max(Whole(body))
           e == Encode(body)
           cut == BytesCut(body)
           raw == UpTo(e, BODY_BYTES_CAP)
           cuts == {c \in BytesDropped(cut) :
                       c <= Len(raw) /\ IsUtf8(SubSeq(raw, 1, Len(raw) - c))}
           bytes == SubSeq(raw, 1, Len(raw) - Min(cuts))
           chars == Selected(bytes, {p \in DOMAIN bytes : bytes[p][2] = 1})
<1>1. body \in Seq(Symbol) /\ \A k \in 1..L : BytesOf(body[k]) \in 1..4
  BY DEF IsPage
<1>2. L \in Nat /\ \A k \in 1..L : body[k] \in Symbol
  BY <1>1, LenProperties, ElementOfSeq
<1>3. PICK off : Offsets(off, body) /\ BytesAt(e, off, body, L)
  BY EncodedBytes
<1>4. \A k \in 0..L : off[k] \in Nat
  BY <1>2, <1>3 DEF Offsets
<1>5. W \in 0..L /\ \A n \in 0..L : off[n] <= BODY_BYTES_CAP => n <= W
  BY <1>3, WholeIs
<1>6. PICK m \in 0..Len(e) : /\ raw = SubSeq(e, 1, m)
                             /\ m <= BODY_BYTES_CAP /\ off[W] <= m
                             /\ m - off[W] \in BytesDropped(cut)
  BY <1>3, CutAt
<1>7. e \in Seq(Byte) /\ Len(e) = off[L]
  BY <1>3 DEF BytesAt
<1>8. DecodedBody(body) = IF cuts = {} THEN Undecodable
                          ELSE [p \in DOMAIN chars |-> chars[p][1]]
  BY DEF DecodedBody, Decode
<1> HIDE DEF e
<1>9. /\ raw \in Seq(Byte) /\ Len(raw) = m /\ m \in Nat /\ Len(e) \in Nat /\ m <= Len(e)
  BY <1>6, <1>7, PrefixSymbols
<1> HIDE DEF raw, W
<1>10. ASSUME NEW c \in Nat, c <= m
       PROVE  IsUtf8(SubSeq(raw, 1, Len(raw) - c)) <=> \E n \in 0..L : off[n] = m - c
  <2> DEFINE r == m - c
  <2>1. r \in 0..m /\ r \in 0..Len(e) /\ Len(raw) - c = r
    BY <1>9, <1>10
  <2> HIDE DEF r
  <2>2. SubSeq(raw, 1, r) = SubSeq(e, 1, r)
    BY <1>6, <1>7, <2>1, PrefixTwice
  <2>3. IsUtf8(SubSeq(e, 1, r)) <=> \E n \in 0..L : off[n] = r
    BY <1>3, <2>1, WholeIsUtf8
  <2> QED BY <2>1, <2>2, <2>3 DEF r
<1>11. BytesDropped(cut) \subseteq Nat
  BY DEF BytesDropped
<1> DEFINE c0 == m - off[W]
<1>12. c0 \in Nat /\ c0 <= m /\ m - c0 = off[W] /\ off[W] \in Nat
  BY <1>4, <1>5, <1>6, <1>9
<1>13. c0 \in cuts
  <2>1. c0 \in BytesDropped(cut)
    BY <1>6
  <2> HIDE DEF c0
  <2>2. IsUtf8(SubSeq(raw, 1, Len(raw) - c0))
    BY <1>5, <1>10, <1>12
  <2> QED BY <1>9, <1>12, <2>1, <2>2
<1>14. \A c \in cuts : c0 <= c
  <2> SUFFICES ASSUME NEW c \in cuts
               PROVE  c0 <= c
    OBVIOUS
  <2>1. c \in Nat /\ c <= m /\ IsUtf8(SubSeq(raw, 1, Len(raw) - c))
    BY <1>9, <1>11
  <2>2. PICK n \in 0..L : off[n] = m - c
    BY <1>10, <2>1
  <2>3. off[n] <= BODY_BYTES_CAP /\ off[n] \in Nat
    BY <1>4, <1>6, <1>9, <2>1, <2>2, TextCapsAssumption
  <2>4. n <= W
    BY <1>5, <2>3
  <2>5. n < W => off[n] < off[W]
    BY <1>3, <1>5, OffsetsGrow
  <2>6. off[n] <= off[W]
    <3>1. n < W \/ n = W
      BY <1>2, <1>5, <2>4
    <3> QED BY <1>12, <2>3, <2>5, <3>1
  <2> QED BY <1>9, <1>12, <2>1, <2>2, <2>6
<1>15. Min(cuts) = c0 /\ cuts # {}
  <2>1. cuts \in SUBSET Nat /\ cuts # {}
    BY <1>11, <1>13
  <2> HIDE DEF cuts, c0
  <2>2. Min(cuts) \in cuts /\ Min(cuts) <= c0 /\ c0 <= Min(cuts)
    BY <1>13, <1>14, <2>1, MinProperties
  <2>3. Min(cuts) \in Nat
    BY <2>1, <2>2
  <2> QED BY <1>12, <2>1, <2>2, <2>3
<1> HIDE DEF cuts, c0
<1>16. bytes = SubSeq(e, 1, off[W])
  <2>1. Len(raw) - Min(cuts) = off[W] /\ off[W] \in 0..m
    BY <1>6, <1>9, <1>12, <1>15
  <2> QED BY <1>6, <1>7, <2>1, PrefixTwice
<1> HIDE DEF bytes
<1>17. BytesAt(bytes, off, body, W)
  <2>1. off[W] \in 0..Len(e)
    BY <1>6, <1>9, <1>12
  <2>2. /\ bytes \in Seq(Byte) /\ Len(bytes) = off[W]
        /\ \A p \in 1..off[W] : bytes[p] = e[p]
    BY <1>7, <1>16, <2>1, PrefixSymbols
  <2>3. ASSUME NEW k \in 1..W, NEW b \in 1..BytesOf(body[k])
        PROVE  bytes[off[k - 1] + b] = <<body[k], b>>
    <3>1. k \in 1..L /\ k - 1 \in 0..L /\ k \in 0..L
      BY <1>2, <1>5
    <3>2. e[off[k - 1] + b] = <<body[k], b>>
      BY <1>3, <3>1 DEF BytesAt
    <3>3. k < W => off[k] < off[W]
      BY <1>3, <1>5, <3>1, OffsetsGrow
    <3>4. off[k] <= off[W]
      <4>1. k < W \/ k = W
        BY <1>2, <1>5
      <4> QED BY <1>4, <1>12, <3>1, <3>3, <4>1
    <3>5. off[k] = off[k - 1] + BytesOf(body[k]) /\ off[k - 1] \in Nat /\ off[k] \in Nat
      BY <1>2, <1>3, <1>4, <3>1 DEF Offsets
    <3>6. BytesOf(body[k]) \in 1..4
      BY <1>1, <3>1
    <3>7. off[k - 1] + b \in 1..off[W]
      BY <1>12, <3>4, <3>5, <3>6
    <3> QED BY <2>2, <3>2, <3>7
  <2> QED BY <2>2, <2>3 DEF BytesAt
<1>18. chars = [k \in 1..W |-> <<body[k], 1>>]
  BY <1>3, <1>5, <1>17, FirstBytes
<1> HIDE DEF chars
<1> DEFINE t == [k \in 1..W |-> body[k]]
<1>19. [p \in DOMAIN chars |-> chars[p][1]] = t
  BY <1>18
<1>20. W \in Nat /\ \A k \in 1..W : body[k] \in Symbol /\ body[k] # Invalid
  <2>1. \A k \in 1..W : k \in 1..L
    BY <1>2, <1>5
  <2> QED BY <1>2, <1>5, <2>1
<1>21. t \in Seq(Symbol) /\ Len(t) = W
  BY <1>20
<1>22. DecodedBody(body) = t
  BY <1>8, <1>15, <1>19
<1>23. t = UpTo(body, W)
  <2>1. UpTo(body, W) = SubSeq(body, 1, W)
    BY <1>1, <1>5, UpToPrefix
  <2>2. /\ SubSeq(body, 1, W) \in Seq(Symbol) /\ Len(SubSeq(body, 1, W)) = W
        /\ \A k \in 1..W : SubSeq(body, 1, W)[k] = body[k]
    BY <1>1, <1>5, PrefixSymbols
  <2>3. \A k \in 1..W : t[k] = body[k]
    OBVIOUS
  <2> HIDE DEF t
  <2> QED BY <1>21, <2>1, <2>2, <2>3, SameText
<1>24. t # Undecodable
  <2> SUFFICES ASSUME t = <<Invalid>>
               PROVE  FALSE
    BY DEF Undecodable
  <2>1. Len(<<Invalid>>) = 1 /\ <<Invalid>>[1] = Invalid
    OBVIOUS
  <2>2. W = 1 /\ t[1] = Invalid
    BY <1>21, <2>1
  <2> QED BY <1>20, <2>2
<1> QED BY <1>22, <1>23, <1>24 DEF W


\* A page that is being read, or was found to have no text, was decoded up to
\* its last symbol that is whole.
DecodedInv ==
    /\ phase = "fetch" => text = <<>>
    /\ phase = "read" => source.status \in {"PARTIAL", "RETRIEVED"}
    /\ phase # "fetch" /\ (phase = "done" => source.status = "INVALID_CONTENT")
          /\ response.status \in 200..299 /\ Without(Body, {Invalid})
       => text = UpTo(Body, Max(Whole(Body)))

\* Nothing is whole of an empty page.
LEMMA EmptyPage ==
    ASSUME IsPage(<< >>)
    PROVE  UpTo(<< >>, Max(Whole(<< >>))) = << >>
<1> HIDE DEF Symbol
<1>1. << >> \in Seq(Symbol) /\ Len(<< >>) = 0
  BY EmptySeq
<1>2. PICK off : Offsets(off, << >>)
  BY EncodedBytes
<1>3. Max(Whole(<< >>)) \in 0..Len(<< >>)
  BY <1>2, WholeIs
<1>4. Max(Whole(<< >>)) = 0
  BY <1>1, <1>3
<1>5. 0 \in 0..Len(<< >>)
  BY <1>1
<1>6. UpTo(<< >>, 0) = SubSeq(<< >>, 1, 0)
  BY <1>1, <1>5, UpToPrefix
<1> QED BY <1>1, <1>4, <1>6, PrefixAll

\* _decode: a page of valid text is decoded wherever the cap on bytes cuts it,
\* up to the last character that is whole.
THEOREM CutPagesAreDecoded == Spec => []CutPageIsDecoded
<1> HIDE DEF Symbol
<1> DEFINE Valid == response.status \in 200..299 /\ Without(Body, {Invalid})
           Cut == UpTo(Body, Max(Whole(Body)))
<1>1. Init => DecodedInv
  BY DEF Init, DecodedInv
<1>2. PageType /\ DecodedInv /\ [Next]_vars => DecodedInv'
  <2> SUFFICES ASSUME PageType, DecodedInv, [Next]_vars
               PROVE  DecodedInv'
    OBVIOUS
  <2>0. response' = response /\ Valid' = Valid /\ Cut' = Cut
    <3>1. response' = response
      BY DEF Next, vars, Fetch, StripMarkup, Normalize, Quote
    <3> QED BY <3>1 DEF Body
  <2>1. IsPage(Body)
    BY BodiesArePages DEF PageType
  <2> HIDE DEF Cut
  <2>7. Valid => response # NoResponse
    <3>1. NoResponse.status = 0
      BY DEF NoResponse
    <3> QED BY <3>1
  <2>2. CASE Fetch
    <3>1. phase = "fetch" /\ text = <<>>
      BY <2>2 DEF Fetch, DecodedInv
    <3>2. CASE Valid /\ Body # <<>>
      <4>1. \A p \in 1..Len(Body) : Body[p] # Invalid
        <5>1. DOMAIN Body = 1..Len(Body)
          BY <2>1, LenProperties DEF IsPage
        <5> QED BY <3>2, <5>1 DEF Without
      <4>2. DecodedBody(Body) = Cut /\ DecodedBody(Body) # Undecodable
        BY <2>1, <4>1, DecodedBodyIs DEF Cut
      <4>3. response # NoResponse
        BY <2>7, <3>2
      <4>4. \/ Unreadable("UNSUPPORTED_CONTENT")
            \/ text' = Cut /\ phase' \in {"strip", "normalize"}
        BY <2>2, <3>2, <4>2, <4>3 DEF Fetch
      <4>5. CASE Unreadable("UNSUPPORTED_CONTENT")
        BY <4>5 DEF Unreadable, DecodedInv
      <4>6. CASE text' = Cut /\ phase' \in {"strip", "normalize"}
        BY <2>0, <4>6 DEF DecodedInv, Cut
      <4> QED BY <4>4, <4>5, <4>6
    <3>3. CASE Valid /\ Body = <<>>
      <4>1. response # NoResponse
        BY <2>7, <3>3
      <4>2. Unreadable("INVALID_CONTENT")
        BY <2>2, <3>3, <4>1 DEF Fetch
      <4>3. text' = <<>> /\ phase' = "done"
        BY <3>1, <4>2 DEF Unreadable
      <4>4. Cut = <<>>
        BY <2>1, <3>3, EmptyPage DEF Cut
      <4> QED BY <2>0, <4>3, <4>4 DEF DecodedInv, Cut
    <3>4. CASE ~Valid
      <4>1. phase' \in {"strip", "normalize", "done"}
        BY <2>2 DEF Fetch, Unreadable
      <4> QED BY <2>0, <3>4, <4>1 DEF DecodedInv
    <3> QED BY <3>2, <3>3, <3>4
  <2>3. CASE StripMarkup
    <3>1. phase = "strip" /\ phase' \in {"strip", "normalize"} /\ text' = text
      BY <2>3 DEF StripMarkup, DropElement, KeepRest
    <3> QED BY <2>0, <3>1 DEF DecodedInv, Cut
  <2>4. CASE Normalize
    <3>1. /\ phase = "normalize" /\ text' = text
          /\ \/ phase' = "done" 
             \/ phase' = "read" /\ source'.status \in {"PARTIAL", "RETRIEVED"}
      BY <2>4 DEF Normalize
    <3> QED BY <2>0, <3>1 DEF DecodedInv, Cut
  <2>5. CASE Quote
    <3>1. phase = "read" /\ phase' = "done" /\ source' = source
      BY <2>5 DEF Quote
    <3> QED BY <3>1 DEF DecodedInv
  <2>6. CASE UNCHANGED vars
    BY <2>0, <2>6 DEF vars, DecodedInv, Cut
  <2> QED BY <2>2, <2>3, <2>4, <2>5, <2>6 DEF Next
<1>3. DecodedInv => CutPageIsDecoded
  BY DEF DecodedInv, CutPageIsDecoded, Whole
<1> QED BY <1>1, <1>2, <1>3, PagesAreTexts, PTL DEF Spec


----------------------------------------------------------------------------
(* The letters of a text *)

\* Nothing of a text.
LEMMA SelectedNone ==
    ASSUME NEW s
    PROVE  Selected(s, {}) = << >>
<1>1. Cardinality({}) = 0
  BY FS_EmptySet
<1>2. Selected(s, {}) = [k \in 1..0 |-> s[Nth({}, k)]]
  BY <1>1 DEF Selected
<1>3. 1..0 = {}
  OBVIOUS
<1> QED BY <1>2, <1>3

\* The letters of two texts that are joined.
LEMMA LettersConcat ==
    ASSUME NEW a \in Seq(Symbol), NEW b \in Seq(Symbol)
    PROVE  LettersOf(a \o b) = LettersOf(a) \o LettersOf(b)
<1> HIDE DEF Symbol
<1> DEFINE c == a \o b
           S == {p \in DOMAIN c : c[p] \in Letters}
           A == {p \in DOMAIN a : a[p] \in Letters}
           B == {p \in DOMAIN b : b[p] \in Letters}
<1>1. /\ c \in Seq(Symbol)
      /\ Len(a) \in Nat /\ Len(b) \in Nat /\ Len(c) = Len(a) + Len(b)
      /\ \A k \in 1..Len(a) : c[k] = a[k]
      /\ \A k \in 1..Len(b) : c[Len(a) + k] = b[k]
  BY ConcatSymbols
<1>2. DOMAIN a = 1..Len(a) /\ DOMAIN b = 1..Len(b) /\ DOMAIN c = 1..Len(c)
  BY <1>1, LenProperties
<1> HIDE DEF c
<1>3. /\ S \in SUBSET (1..Len(a) + Len(b)) /\ A \in SUBSET (1..Len(a))
      /\ B \in SUBSET (1..Len(b))
  BY <1>1, <1>2
<1>4. \A p \in 1..Len(a) : p \in S <=> p \in A
  BY <1>1, <1>2
<1>5. \A q \in 1..Len(b) : Len(a) + q \in S <=> q \in B
  <2> SUFFICES ASSUME NEW q \in 1..Len(b)
               PROVE  Len(a) + q \in S <=> q \in B
    OBVIOUS
  <2> DEFINE p == Len(a) + q
  <2>1. p \in 1..Len(c) /\ c[p] = b[q]
    BY <1>1
  <2> HIDE DEF p
  <2>2. p \in S <=> q \in B
    BY <1>2, <2>1
  <2> QED BY <2>2 DEF p
<1> HIDE DEF S, A, B
<1>6. Joint(S, Len(a), A, Len(b), B)
  BY <1>3, <1>4, <1>5 DEF Joint
<1>7. Selected(a \o b, S) = Selected(a, A) \o Selected(b, B)
  BY <1>6, SelectedConcat
<1> QED BY <1>7 DEF LettersOf, S, A, B, c

\* The letters of a part of a text.
LEMMA LettersOfPart ==
    ASSUME NEW s \in Seq(Symbol), NEW a \in 1..Len(s) + 1, NEW b \in 0..Len(s)
    PROVE  LettersOf(SubSeq(s, a, b)) = Selected(s, {p \in a..b : s[p] \in Letters})
<1> HIDE DEF Symbol
<1> DEFINE part == SubSeq(s, a, b)
           T == {k \in DOMAIN part : part[k] \in Letters}
           S == {p \in a..b : s[p] \in Letters}
<1>1. /\ part \in Seq(Symbol) /\ Len(s) \in Nat
      /\ Len(part) = IF a <= b THEN b - a + 1 ELSE 0
      /\ \A p \in a..b : part[p - a + 1] = s[p]
  BY PartSymbols
<1>2. DOMAIN part = 1..Len(part)
  BY <1>1, LenProperties
<1> HIDE DEF part
<1>3. a \in Nat /\ b \in Nat
  BY <1>1
<1>4. \A p \in a..b : p - a + 1 \in 1..Len(part)
  BY <1>1, <1>3
<1>5. S \in SUBSET (a..b)
  OBVIOUS
<1>6. T \in SUBSET (1..b - a + 1)
  BY <1>1, <1>2, <1>3
<1>7. \A p \in a..b : p - a + 1 \in T <=> p \in S
  <2> SUFFICES ASSUME NEW p \in a..b
               PROVE  p - a + 1 \in T <=> p \in S
    OBVIOUS
  <2> DEFINE k == p - a + 1
  <2>1. k \in 1..Len(part) /\ part[k] = s[p]
    BY <1>1, <1>4
  <2> HIDE DEF k
  <2>2. k \in T <=> p \in S
    BY <1>2, <2>1
  <2> QED BY <2>2 DEF k
<1> HIDE DEF S, T
<1>8. Shifted(T, a, b, S)
  BY <1>5, <1>6, <1>7 DEF Shifted
<1>9. Selected(part, T) = Selected(s, S)
  BY <1>8, SelectedOfPart DEF part
<1> QED BY <1>9 DEF LettersOf, S, T, part

\* A space has no letters.
LEMMA LettersOfSpace == LettersOf(<<Space>>) = << >>
<1>1. Space \notin Letters
  BY LettersAssumption
<1>2. {p \in DOMAIN <<Space>> : <<Space>>[p] \in Letters} = {}
  BY <1>1
<1> QED BY <1>2, SelectedNone DEF LettersOf

\* A selection that leaves no letter out.
LEMMA LettersOfSelected ==
    ASSUME NEW s \in Seq(Symbol), NEW P \in SUBSET (1..Len(s)),
           \A p \in 1..Len(s) : s[p] \in Letters => p \in P
    PROVE  LettersOf(Selected(s, P)) = LettersOf(s)
<1> HIDE DEF Symbol
<1> DEFINE t == Selected(s, P)
           K == {k \in DOMAIN t : t[k] \in Letters}
           S == {p \in DOMAIN s : s[p] \in Letters}
<1>1. /\ t \in Seq(Symbol) /\ Len(t) \in Nat /\ Len(t) = Cardinality(P)
      /\ \A k \in 1..Len(t) : Nth(P, k) \in P /\ t[k] = s[Nth(P, k)]
  BY SelectedType
<1>2. DOMAIN t = 1..Len(t) /\ DOMAIN s = 1..Len(s) /\ Len(s) \in Nat
  BY <1>1, LenProperties
<1>3. P \in SUBSET (0..Len(s))
  BY <1>2
<1>4. \A p \in P : Rank(P, p) \in 1..Len(t) /\ Nth(P, Rank(P, p)) = p
  BY <1>1, <1>2, <1>3, NthProperties
<1> HIDE DEF t
<1>5. K \in SUBSET (1..Len(t))
  BY <1>2
<1>6. {Nth(P, k) : k \in K} = S
  <2>1. ASSUME NEW k \in K
        PROVE  Nth(P, k) \in S
    BY <1>1, <1>2
  <2>2. ASSUME NEW p \in S
        PROVE  \E k \in K : Nth(P, k) = p
    <3>1. p \in P /\ s[p] \in Letters
      BY <1>2
    <3> DEFINE k == Rank(P, p)
    <3>2. k \in 1..Len(t) /\ Nth(P, k) = p
      BY <1>4, <3>1
    <3> HIDE DEF k
    <3>3. t[k] \in Letters
      BY <1>1, <3>1, <3>2
    <3> QED BY <1>2, <3>2, <3>3
  <2> HIDE DEF K, S
  <2> QED BY <2>1, <2>2
<1> HIDE DEF K, S
<1>7. Selected(Selected(s, P), K) = Selected(s, {Nth(P, k) : k \in K})
  BY <1>5, SelectedTwice DEF t
<1>8. Selected(t, K) = Selected(s, S)
  BY <1>6, <1>7 DEF t
<1> QED BY <1>8 DEF LettersOf, K, S, t

\* Normalisation keeps every letter.
LEMMA LettersOfCollapse ==
    ASSUME NEW s \in Seq(Symbol)
    PROVE  LettersOf(Collapse(s)) = LettersOf(s)
<1> HIDE DEF Symbol
<1> DEFINE P == {p \in DOMAIN s : s[p] # Hidden}
           t == Selected(s, P)
           inked(p) == t[p] # Space
           Q == {p \in DOMAIN t :
                    \/ inked(p)
                    \/ p > 1 /\ inked(p - 1) /\ \E q \in p..Len(t) : inked(q)}
<1>1. Space \notin Letters /\ Hidden \notin Letters
  BY LettersAssumption, MarkupAssumption
<1>2. DOMAIN s = 1..Len(s)
  BY LenProperties
<1>3. P \in SUBSET (1..Len(s)) /\ \A p \in 1..Len(s) : s[p] \in Letters => p \in P
  BY <1>1, <1>2
<1>4. Collapse(s) = Selected(t, Q)
  BY DEF Collapse, Joined
<1> HIDE DEF P
<1>5. t \in Seq(Symbol)
  BY <1>3, SelectedType
<1>6. LettersOf(t) = LettersOf(s)
  BY <1>3, LettersOfSelected
<1> HIDE DEF t
<1>7. DOMAIN t = 1..Len(t)
  BY <1>5, LenProperties
<1>8. Q \in SUBSET (1..Len(t)) /\ \A p \in 1..Len(t) : t[p] \in Letters => p \in Q
  BY <1>1, <1>7
<1> HIDE DEF Q
<1>9. LettersOf(Selected(t, Q)) = LettersOf(t)
  BY <1>5, <1>8, LettersOfSelected
<1> QED BY <1>4, <1>6, <1>9


----------------------------------------------------------------------------
(* The pieces of a page *)

\* The page that a response holds.
PageIs == response \in Responses

\* A piece ends where the next one begins, or with the page.
LEMMA PieceEndIs ==
    ASSUME PageIs, NEW p \in response.starts
    PROVE  /\ PieceEnd(p) \in p..Len(Body) /\ PieceEnd(p) \in Nat
           /\ p \in 1..Len(Body) /\ Len(Body) \in Nat
           /\ PieceEnd(p) + 1 \in response.starts \/ PieceEnd(p) = Len(Body)
           /\ \A q \in p..Len(Body) : q + 1 \in response.starts => PieceEnd(p) <= q
<1> HIDE DEF Symbol
<1> DEFINE S == {q \in p..Len(Body) : q + 1 \in response.starts \/ q = Len(Body)}
<1>1. IsPage(Body) /\ response.starts \subseteq 1..Len(Body)
  BY BodiesArePages DEF PageIs
<1>2. Len(Body) \in Nat /\ p \in 1..Len(Body)
  BY <1>1, LenProperties DEF IsPage
<1>3. S \in SUBSET Nat /\ Len(Body) \in S
  BY <1>2
<1>4. PieceEnd(p) = Min(S)
  BY DEF PieceEnd
<1>5. Min(S) \in S /\ \A x \in S : Min(S) <= x
  <2> HIDE DEF S
  <2> QED BY <1>3, MinProperties
<1>6. PieceEnd(p) \in S /\ \A q \in S : PieceEnd(p) <= q
  BY <1>4, <1>5
<1> QED BY <1>2, <1>3, <1>6

\* Whatever follows a start is in a piece.
LEMMA PieceOf ==
    ASSUME PageIs, NEW a \in response.starts, NEW q \in a..Len(Body)
    PROVE  \E p \in response.starts : a <= p /\ p <= q /\ q <= PieceEnd(p)
<1> DEFINE S == {p \in response.starts : p <= q}
<1>1. response.starts \subseteq 1..Len(Body)
  BY BodiesArePages DEF PageIs
<1>2. a \in 1..Len(Body) /\ Len(Body) \in Nat
  BY PieceEndIs
<1>3. q \in Nat /\ q <= Len(Body) /\ a <= q
  BY <1>2
<1>4. a \in S /\ S \in SUBSET (0..Len(Body))
  BY <1>1, <1>3
<1> DEFINE p == Max(S)
<1>5. p \in S /\ \A x \in S : x <= p
  <2> HIDE DEF S
  <2> QED BY <1>2, <1>4, MaxProperties
<1> HIDE DEF p
<1>6. p \in response.starts /\ a <= p /\ p <= q
  BY <1>4, <1>5
<1> DEFINE e == PieceEnd(p)
<1>7. e \in p..Len(Body) /\ e \in Nat /\ p \in Nat /\ (e + 1 \in response.starts \/ e = Len(Body))
  BY <1>1, <1>6, PieceEndIs
<1> HIDE DEF e
<1>8. ASSUME e < q
      PROVE  FALSE
  <2>1. e + 1 \in response.starts /\ e + 1 <= q
    BY <1>3, <1>7, <1>8
  <2>2. e + 1 <= p
    BY <1>5, <2>1
  <2> QED BY <1>7, <2>2
<1>9. q <= e
  BY <1>3, <1>7, <1>8
<1> QED BY <1>6, <1>9 DEF e

\* And in one piece only.
LEMMA PieceUnique ==
    ASSUME PageIs, NEW p \in response.starts, NEW r \in response.starts,
           NEW q \in Nat, p <= q, q <= PieceEnd(p), r <= q, q <= PieceEnd(r)
    PROVE  p = r
<1>1. ASSUME NEW x \in response.starts, NEW y \in response.starts,
             x < y, y <= q, q <= PieceEnd(x)
      PROVE  FALSE
  <2>1. x \in 1..Len(Body) /\ y \in 1..Len(Body) /\ PieceEnd(x) \in Nat /\ Len(Body) \in Nat
    BY PieceEndIs
  <2> DEFINE z == y - 1
  <2>2. z \in x..Len(Body) /\ z + 1 = y
    BY <1>1, <2>1
  <2> HIDE DEF z
  <2>3. PieceEnd(x) <= z
    BY <2>2, PieceEndIs
  <2> QED BY <1>1, <2>1, <2>2, <2>3
<1>2. p \in Nat /\ r \in Nat
  <2>1. p \in 1..Len(Body) /\ r \in 1..Len(Body) /\ Len(Body) \in Nat
    BY PieceEndIs
  <2> QED BY <2>1
<1>3. ~(p < r) /\ ~(r < p)
  BY <1>1
<1> QED BY <1>2, <1>3

\* The symbols of a piece.
LEMMA PieceIs ==
    ASSUME PageIs, NEW p \in response.starts
    PROVE  LET e == PieceEnd(p)
           IN  /\ Piece(p) \in Seq(Symbol) /\ Len(Piece(p)) = e - p + 1
               /\ \A k \in 1..e - p + 1 : Piece(p)[k] = Body[p + k - 1]
               /\ \A q \in p..e : Piece(p)[q - p + 1] = Body[q]
<1> HIDE DEF Symbol
<1>1. Body \in Seq(Symbol)
  BY BodiesArePages DEF PageIs, IsPage
<1> DEFINE e == PieceEnd(p)
<1>2. e \in p..Len(Body) /\ p \in 1..Len(Body) /\ Len(Body) \in Nat
  BY PieceEndIs
<1>3. Piece(p) = SubSeq(Body, p, e)
  BY DEF Piece
<1> HIDE DEF e
<1>4. p \in 1..Len(Body) + 1 /\ e \in 0..Len(Body) /\ p <= e
  BY <1>2
<1>5. /\ Piece(p) \in Seq(Symbol) /\ Len(Piece(p)) = e - p + 1
      /\ \A k \in 1..e - p + 1 : Piece(p)[k] = Body[p + k - 1]
      /\ \A q \in p..e : Piece(p)[q - p + 1] = Body[q]
  BY <1>1, <1>3, <1>4, PartSymbols
<1> QED BY <1>5 DEF e

\* A text that ends in a symbol, and has none of some before it.
LEMMA EndsInIs ==
    ASSUME NEW t \in Seq(Symbol), NEW c, NEW Symbols, EndsIn(t, c, Symbols)
    PROVE  /\ Len(t) \in Nat /\ Len(t) >= 1 /\ t[Len(t)] = c
           /\ \A k \in 1..Len(t) : k < Len(t) => t[k] \notin Symbols
<1> HIDE DEF Symbol
<1>1. t # <<>> /\ t[Len(t)] = c /\ Without(Front(t), Symbols)
  BY DEF EndsIn, Last
<1>2. Len(t) \in Nat /\ Len(t) >= 1
  BY <1>1, LenProperties, EmptySeq
<1> DEFINE n == Len(t) - 1
           f == SubSeq(t, 1, n)
<1>3. Front(t) = f
  BY DEF Front
<1>4. n \in 0..Len(t)
  BY <1>2
<1>5. \A k \in 1..Len(t) : k < Len(t) => k \in 1..n
  BY <1>2
<1> HIDE DEF n
<1>6. f \in Seq(Symbol) /\ Len(f) = n /\ \A k \in 1..n : f[k] = t[k]
  BY <1>4, PrefixSymbols
<1> HIDE DEF f
<1>7. DOMAIN f = 1..n
  BY <1>6, LenProperties
<1>8. \A k \in 1..n : t[k] \notin Symbols
  BY <1>1, <1>3, <1>6, <1>7 DEF Without
<1> QED BY <1>1, <1>2, <1>5, <1>8

\* Where the search of the pass stops.
LEMMA FoundAt ==
    ASSUME text \in Seq(Symbol), NEW Symbols, NEW p \in Nat, 1 <= p,
           NEW r \in p..Len(text), text[r] \in Symbols,
           \A q \in p..Len(text) : q < r => text[q] \notin Symbols
    PROVE  Find(Symbols, p) = r
<1> HIDE DEF Symbol
<1> DEFINE f == Find(Symbols, p)
<1>1. \/ f = 0 /\ \A q \in p..Len(text) : text[q] \notin Symbols
      \/ /\ f \in p..Len(text) /\ text[f] \in Symbols
         /\ \A q \in p..Len(text) : q < f => text[q] \notin Symbols
  BY FindIs
<1> HIDE DEF f
<1>2. f \in p..Len(text) /\ ~(r < f) /\ ~(f < r)
  BY <1>1
<1>3. f = r
  BY <1>2
<1> QED BY <1>3 DEF f


\* An element opens with a tag, and a text holds none.
LEMMA PieceOpens ==
    ASSUME PageIs, NEW p \in response.starts
    PROVE  /\ IsElement(Piece(p)) => Body[p] \in TagOpens
           /\ IsText(Piece(p)) => \A q \in p..PieceEnd(p) : Body[q] \notin TagOpens
<1> HIDE DEF Symbol
<1> DEFINE e == PieceEnd(p)
           s == Piece(p)
<1>1. e \in p..Len(Body) /\ p \in 1..Len(Body) /\ Len(Body) \in Nat
  BY PieceEndIs
<1>2. /\ s \in Seq(Symbol) /\ Len(s) = e - p + 1
      /\ \A k \in 1..e - p + 1 : s[k] = Body[p + k - 1]
      /\ \A q \in p..e : s[q - p + 1] = Body[q]
  BY PieceIs
<1> HIDE DEF e, s
<1>3. 1 \in 1..e - p + 1 /\ p + 1 - 1 = p
  BY <1>1
<1>4. s[1] = Body[p]
  BY <1>2, <1>3
<1>5. IsElement(s) => s[1] \in TagOpens
  BY DEF IsElement, TagOpens
<1>6. ASSUME IsText(s), NEW q \in p..e
      PROVE  Body[q] \notin TagOpens
  <2> DEFINE k == q - p + 1
  <2>1. k \in 1..Len(s) /\ s[k] = Body[q]
    BY <1>1, <1>2
  <2> HIDE DEF k
  <2>2. DOMAIN s = 1..Len(s)
    BY <1>2, LenProperties
  <2> QED BY <1>6, <2>1, <2>2 DEF IsText, Without
<1> QED BY <1>4, <1>5, <1>6 DEF e, s

\* The branches of the pass at the element that it finds.
LEMMA StripAt ==
    ASSUME NEW j \in Nat, j # 0, NextOpen = j, StripMarkup
    PROVE  \/ text[j] = CommentOpen /\ DropElement(j, OrRest(CommentEnd(j)))
           \/ IsRaw(j) /\ DropElement(j, OrRest(RawEnd(j)))
           \/ /\ text[j] # CommentOpen /\ ~IsRaw(j)
              /\ LET k == Find(Brackets, j + 1)
                 IN  IF k = 0 THEN KeepRest ELSE DropElement(j, k)
BY DEF StripMarkup

\* The pass drops the element that it finds, to its end.
LEMMA DropsElement ==
    ASSUME PageIs, text = Body, NEW j \in response.starts, IsElement(Piece(j)),
           NextOpen = j, StripMarkup
    PROVE  DropElement(j, PieceEnd(j))
<1> HIDE DEF Symbol
<1> DEFINE e == PieceEnd(j)
           s == Piece(j)
           n == j + 1
<1>1. e \in j..Len(Body) /\ j \in 1..Len(Body) /\ Len(Body) \in Nat
  BY PieceEndIs
<1>2. /\ s \in Seq(Symbol) /\ Len(s) = e - j + 1
      /\ \A k \in 1..e - j + 1 : s[k] = Body[j + k - 1]
      /\ \A q \in j..e : s[q - j + 1] = Body[q]
  BY PieceIs
<1>3. IsElement(s)
  OBVIOUS
<1>4. text \in Seq(Symbol)
  BY BodiesArePages DEF PageIs, IsPage
<1> HIDE DEF e, s
<1>5. Len(s) >= 2
  BY <1>3 DEF IsElement
<1>6. j \in Nat /\ j # 0 /\ e \in Nat /\ j + 1 <= e /\ e <= Len(text)
  BY <1>1, <1>2, <1>5
<1>7. /\ n \in Nat /\ 1 <= n /\ n \in j..e /\ n <= Len(text) /\ j < Len(text)
      /\ e \in n..Len(text) /\ n - 1 = j
  BY <1>1, <1>6
<1>8. s[1] = text[j] /\ s[2] = text[n] /\ s[Len(s)] = text[e]
  <2>1. /\ 1 \in 1..e - j + 1 /\ j + 1 - 1 = j /\ 2 \in 1..e - j + 1 /\ j + 2 - 1 = n
        /\ e \in j..e
    BY <1>1, <1>6
  <2> QED BY <1>2, <2>1
<1>9. ASSUME NEW Symbols, \A k \in 1..Len(s) : k < Len(s) => s[k] \notin Symbols,
             NEW q \in n..Len(text), q < e
      PROVE  text[q] \notin Symbols
  <2> DEFINE k == q - j + 1
  <2>1. q \in j..e /\ k \in 1..Len(s) /\ k < Len(s)
    BY <1>1, <1>2, <1>6, <1>7, <1>9
  <2>2. s[k] = text[q]
    BY <1>2, <2>1
  <2> HIDE DEF k
  <2> QED BY <1>9, <2>1, <2>2
<1>10. \/ text[j] = CommentOpen /\ DropElement(j, OrRest(CommentEnd(j)))
       \/ IsRaw(j) /\ DropElement(j, OrRest(RawEnd(j)))
       \/ /\ text[j] # CommentOpen /\ ~IsRaw(j)
          /\ IF Find(Brackets, n) = 0 THEN KeepRest ELSE DropElement(j, Find(Brackets, n))
  BY <1>6, StripAt
<1>11. IsRaw(j) <=> text[j] = RawOpen /\ text[n] \notin Letters
  BY <1>7 DEF IsRaw
<1>12. CommentEnd(j) = Find({"-->"}, n)
  BY DEF CommentEnd
<1> HIDE DEF n
<1>13. CASE /\ s[1] \in TagOpens \ {CommentOpen} /\ s[2] \in Letters
            /\ EndsIn(s, ">", Brackets)
  <2>1. /\ s[Len(s)] = ">"
        /\ \A k \in 1..Len(s) : k < Len(s) => s[k] \notin Brackets
    BY <1>2, <1>13, EndsInIs
  <2>2. Find(Brackets, n) = e
    <3>1. text[e] \in Brackets
      BY <1>8, <2>1 DEF Brackets
    <3>2. \A q \in n..Len(text) : q < e => text[q] \notin Brackets
      BY <1>9, <2>1
    <3> QED BY <1>4, <1>7, <3>1, <3>2, FoundAt
  <2>3. text[j] # CommentOpen /\ ~IsRaw(j)
    BY <1>8, <1>11, <1>13
  <2> QED BY <1>6, <1>10, <2>2, <2>3 DEF e
<1>14. CASE s[1] = CommentOpen /\ EndsIn(s, "-->", {"-->"})
  <2>1. /\ s[Len(s)] = "-->"
        /\ \A k \in 1..Len(s) : k < Len(s) => s[k] \notin {"-->"}
    BY <1>2, <1>14, EndsInIs
  <2>2. Find({"-->"}, n) = e
    <3>1. text[e] \in {"-->"}
      BY <1>8, <2>1
    <3>2. \A q \in n..Len(text) : q < e => text[q] \notin {"-->"}
      BY <1>9, <2>1
    <3> DEFINE C == {"-->"}
    <3> HIDE DEF C
    <3>3. text[e] \in C /\ \A q \in n..Len(text) : q < e => text[q] \notin C
      BY <3>1, <3>2 DEF C
    <3>4. Find(C, n) = e
      BY <1>4, <1>7, <3>3, FoundAt
    <3> QED BY <3>4 DEF C
  <2>3. text[j] = CommentOpen /\ ~IsRaw(j)
    BY <1>8, <1>11, <1>14 DEF CommentOpen, RawOpen
  <2>4. OrRest(CommentEnd(j)) = e
    BY <1>6, <1>12, <2>2 DEF OrRest
  <2> QED BY <1>10, <2>3, <2>4 DEF e
<1>15. CASE /\ s[1] = RawOpen /\ s[2] = ">"
            /\ \E p \in DOMAIN s :
                  /\ EndsIn(SubSeq(s, 1, p), RawClose, {RawClose})
                  /\ EndsIn(SubSeq(s, p, Len(s)), ">", Brackets)
  <2>1. DOMAIN s = 1..Len(s)
    BY <1>2, LenProperties
  <2>2. PICK p \in 1..Len(s) :
               /\ EndsIn(SubSeq(s, 1, p), RawClose, {RawClose})
               /\ EndsIn(SubSeq(s, p, Len(s)), ">", Brackets)
    BY <1>15, <2>1
  <2> DEFINE a == SubSeq(s, 1, p)
             b == SubSeq(s, p, Len(s))
             m == Len(s)
             c == j + p - 1
  <2>3. m \in Nat /\ p \in Nat /\ p <= m /\ p \in 0..m /\ p \in 1..m + 1 /\ m \in 0..m /\ 1 <= p
    BY <1>2, LenProperties
  <2>4. a \in Seq(Symbol) /\ Len(a) = p /\ \A k \in 1..p : a[k] = s[k]
    BY <1>2, <2>3, PrefixSymbols
  <2>5. /\ b \in Seq(Symbol) /\ Len(b) = m - p + 1
        /\ \A q \in p..m : b[q - p + 1] = s[q]
    BY <1>2, <2>3, PartSymbols
  <2>6. EndsIn(a, RawClose, {RawClose}) /\ EndsIn(b, ">", Brackets)
    BY <2>2
  <2>7. c \in j..e /\ c \in Nat /\ c \in j..Len(text) /\ e \in c..Len(text) /\ 1 <= c
    BY <1>1, <1>2, <1>6, <2>3
  <2> HIDE DEF a, b
  <2>8. a[Len(a)] = RawClose /\ \A k \in 1..Len(a) : k < Len(a) => a[k] \notin {RawClose}
    BY <2>4, <2>6, EndsInIs
  <2>9. b[Len(b)] = ">" /\ \A k \in 1..Len(b) : k < Len(b) => b[k] \notin Brackets
    BY <2>5, <2>6, EndsInIs
  <2>10. Find({RawClose}, j) = c
    <3> DEFINE C == {RawClose}
    <3>1. s[p] = RawClose
      <4>1. p \in 1..p
        BY <2>3
      <4> QED BY <2>4, <2>8, <4>1
    <3>2. text[c] \in C
      <4>1. p \in 1..e - j + 1
        BY <1>2
      <4>2. s[p] = Body[j + p - 1]
        BY <1>2, <4>1
      <4> QED BY <3>1, <4>2
    <3>3. ASSUME NEW q \in j..Len(text), q < c
          PROVE  text[q] \notin C
      <4> DEFINE k == q - j + 1
      <4>1. q \in j..e /\ k \in 1..p /\ k < p
        BY <1>6, <2>3, <2>7, <3>3
      <4>2. s[k] = text[q]
        BY <1>2, <4>1
      <4> HIDE DEF k
      <4> QED BY <2>4, <2>8, <4>1, <4>2
    <3> HIDE DEF C, c
    <3>4. Find(C, j) = c
      <4>1. 1 <= j
        BY <1>1
      <4> QED BY <1>4, <1>6, <2>7, <3>2, <3>3, <4>1, FoundAt
    <3> QED BY <3>4 DEF C
  <2>11. Find(Brackets, c) = e
    <3>1. text[e] \in Brackets
      <4>1. m \in p..m /\ m - p + 1 = Len(b)
        BY <2>3, <2>5
      <4>2. b[m - p + 1] = s[m]
        BY <2>5, <4>1
      <4> QED BY <1>8, <2>9, <4>1, <4>2 DEF Brackets
    <3>2. ASSUME NEW q \in c..Len(text), q < e
          PROVE  text[q] \notin Brackets
      <4> DEFINE x == q - j + 1
                 k == x - p + 1
      <4>1. q \in j..e /\ x \in p..m
        BY <1>1, <1>2, <1>6, <2>3, <2>7, <3>2
      <4>2. s[x] = text[q]
        BY <1>2, <4>1
      <4>3. k \in 1..Len(b) /\ k < Len(b)
        BY <1>1, <1>2, <1>6, <2>3, <2>5, <2>7, <3>2
      <4> HIDE DEF x
      <4>4. b[k] = s[x]
        BY <2>5, <4>1
      <4> HIDE DEF k
      <4> QED BY <2>9, <4>2, <4>3, <4>4
    <3> HIDE DEF c
    <3> QED BY <1>4, <2>7, <3>1, <3>2, FoundAt
  <2> HIDE DEF c
  <2>12. text[j] # CommentOpen /\ IsRaw(j)
    <3>1. ">" \notin Letters
      BY MarkupAssumption DEF Brackets
    <3> QED BY <1>8, <1>11, <1>15, <3>1 DEF CommentOpen, RawOpen
  <2>13. OrRest(RawEnd(j)) = e
    <3>1. c # 0
      BY <2>7
    <3> QED BY <1>6, <2>10, <2>11, <3>1 DEF OrRest, RawEnd
  <2> QED BY <1>10, <2>12, <2>13 DEF e
<1> QED BY <1>3, <1>13, <1>14, <1>15 DEF IsElement


\* What the reader has seen of the page before n.
SeenBefore(n) ==
    Selected(Body, {q \in DOMAIN Body : q < n /\ Body[q] \in Letters /\ InText(q)})

\* Between a start and the next element there is text.
LEMMA NoOpenIsText ==
    ASSUME PageIs, IsWhole, NEW a \in response.starts, NEW q \in a..Len(Body),
           \A x \in a..q : Body[x] \notin TagOpens
    PROVE  InText(q)
<1>1. PICK p \in response.starts : a <= p /\ p <= q /\ q <= PieceEnd(p)
  BY PieceOf
<1>2. /\ PieceEnd(p) \in Nat /\ p \in 1..Len(Body) /\ Len(Body) \in Nat
      /\ a \in 1..Len(Body)
  BY PieceEndIs
<1>3. p \in a..q /\ q \in p..PieceEnd(p)
  BY <1>1, <1>2
<1>4. ~IsElement(Piece(p))
  BY <1>3, PieceOpens
<1>5. IsText(Piece(p))
  BY <1>4 DEF IsWhole
<1> QED BY <1>3, <1>5 DEF InText

\* And an element has none.
LEMMA ElementIsNoText ==
    ASSUME PageIs, NEW j \in response.starts, Body[j] \in TagOpens,
           NEW q \in j..PieceEnd(j)
    PROVE  ~InText(q)
<1> SUFFICES ASSUME InText(q)
             PROVE  FALSE
  OBVIOUS
<1>1. PICK p \in response.starts : q \in p..PieceEnd(p) /\ IsText(Piece(p))
  BY DEF InText
<1>2. /\ p \in 1..Len(Body) /\ j \in 1..Len(Body) /\ Len(Body) \in Nat
      /\ PieceEnd(p) \in p..Len(Body) /\ PieceEnd(j) \in j..Len(Body)
  BY PieceEndIs
<1>3. q \in Nat /\ p <= q /\ q <= PieceEnd(p) /\ j <= q /\ q <= PieceEnd(j)
  BY <1>1, <1>2
<1>4. p = j
  BY <1>3, PieceUnique
<1>5. j \in j..PieceEnd(j)
  BY <1>2
<1> QED BY <1>1, <1>4, <1>5, PieceOpens

\* What the pass does on a page of whole pieces: it keeps text up to the next
\* element, and drops that element.
LEMMA WholeStep ==
    ASSUME PageIs, IsWhole, text = Body,
           i \in response.starts \cup {Len(Body) + 1}, StripMarkup
    PROVE  \/ KeepRest /\ \A q \in i..Len(Body) : Body[q] \notin TagOpens
           \/ \E j \in response.starts :
                 /\ i <= j /\ \A q \in i..Len(Body) : q < j => Body[q] \notin TagOpens
                 /\ Body[j] \in TagOpens /\ DropElement(j, PieceEnd(j))
<1> HIDE DEF Symbol
<1>1. /\ Body \in Seq(Symbol) /\ text \in Seq(Symbol)
      /\ response.starts \subseteq 1..Len(Body)
  BY BodiesArePages DEF PageIs, IsPage
<1>2. Len(Body) \in Nat /\ i \in Nat /\ i \in 1..Len(Body) + 1
  BY <1>1, LenProperties
<1> DEFINE j == NextOpen
<1>3. \/ j = 0 /\ \A q \in i..Len(text) : text[q] \notin TagOpens
      \/ /\ j \in i..Len(text) /\ text[j] \in TagOpens
         /\ \A q \in i..Len(text) : q < j => text[q] \notin TagOpens
  BY <1>1, <1>2, FindIs DEF NextOpen
<1>4. CASE j = 0
  <2>1. KeepRest
    BY <1>4 DEF StripMarkup
  <2> QED BY <1>2, <1>3, <1>4, <2>1
<1>5. CASE j # 0
  <2> HIDE DEF j
  <2>1. /\ j \in i..Len(Body) /\ Body[j] \in TagOpens
        /\ \A q \in i..Len(Body) : q < j => Body[q] \notin TagOpens
    BY <1>3, <1>5
  <2>2. i \in response.starts
    BY <1>2, <2>1
  <2>3. PICK p \in response.starts : i <= p /\ p <= j /\ j <= PieceEnd(p)
    BY <2>1, <2>2, PieceOf
  <2>4. /\ p \in 1..Len(Body) /\ PieceEnd(p) \in Nat /\ j \in Nat
    BY <1>2, <2>1, PieceEndIs
  <2>5. j \in p..PieceEnd(p) /\ p \in i..Len(Body)
    BY <1>2, <2>3, <2>4
  <2>6. IsElement(Piece(p))
    <3>1. ~IsText(Piece(p))
      BY <2>1, <2>5, PieceOpens
    <3> QED BY <3>1 DEF IsWhole
  <2>7. Body[p] \in TagOpens
    BY <2>6, PieceOpens
  <2>8. p = j
    BY <2>1, <2>3, <2>4, <2>5, <2>7
  <2>9. DropElement(j, PieceEnd(j))
    BY <2>6, <2>8, DropsElement DEF j
  <2> QED BY <2>1, <2>3, <2>8, <2>9
<1> QED BY <1>4, <1>5

\* What the reader sees of the text up to the next element.
LEMMA SeenToOpen ==
    ASSUME PageIs, IsWhole, NEW a \in response.starts \cup {Len(Body) + 1},
           NEW j \in 1..Len(Body) + 1, a <= j,
           \A q \in a..Len(Body) : q < j => Body[q] \notin TagOpens
    PROVE  SeenBefore(j) = SeenBefore(a) \o LettersOf(SubSeq(Body, a, j - 1))
<1> HIDE DEF Symbol
<1>1. Body \in Seq(Symbol) /\ response.starts \subseteq 1..Len(Body)
  BY BodiesArePages DEF PageIs, IsPage
<1>2. Len(Body) \in Nat /\ a \in Nat /\ a \in 1..Len(Body) + 1 /\ DOMAIN Body = 1..Len(Body)
  BY <1>1, LenProperties
<1> DEFINE n == a - 1
           b == j - 1
           P == {q \in DOMAIN Body : q < a /\ Body[q] \in Letters /\ InText(q)}
           Q == {q \in a..b : Body[q] \in Letters}
           R == {q \in DOMAIN Body : q < j /\ Body[q] \in Letters /\ InText(q)}
<1>3. n \in 0..Len(Body) /\ b \in 0..Len(Body) /\ n + 1 = a
  BY <1>2
<1>4. ASSUME NEW q \in a..b
      PROVE  InText(q) /\ q \in DOMAIN Body /\ q < j
  <2>1. q \in a..Len(Body) /\ q < j /\ q \in 1..Len(Body)
    BY <1>2, <1>3
  <2>2. a \in response.starts
    BY <1>2, <2>1
  <2>3. \A x \in a..q : x \in a..Len(Body) /\ x < j
    BY <1>2, <2>1
  <2> QED BY <1>2, <2>1, <2>2, <2>3, NoOpenIsText
<1>5. R = P \cup Q
  <2>1. ASSUME NEW q \in R
        PROVE  q \in P \cup Q
    <3>1. q \in 1..Len(Body) /\ (q < a \/ q \in a..b)
      BY <1>2
    <3> QED BY <3>1
  <2>2. ASSUME NEW q \in P
        PROVE  q \in R
    <3>1. q \in 1..Len(Body) /\ q < j
      BY <1>2
    <3> QED BY <3>1
  <2>3. ASSUME NEW q \in Q
        PROVE  q \in R
    BY <1>4
  <2> HIDE DEF P, Q, R
  <2> QED BY <2>1, <2>2, <2>3
<1>6. P \in SUBSET (1..n) /\ Q \in SUBSET (a..Len(Body))
  BY <1>2, <1>3
<1>7. LettersOf(SubSeq(Body, a, b)) = Selected(Body, Q)
  <2> HIDE DEF b
  <2> QED BY <1>1, <1>2, <1>3, LettersOfPart
<1> HIDE DEF P, Q, R, n, b
<1>8. Selected(Body, P \cup Q) = Selected(Body, P) \o Selected(Body, Q)
  <2> DEFINE s == Body
  <2> HIDE DEF s
  <2>1. Q \in SUBSET (n + 1..Len(s))
    BY <1>3, <1>6 DEF s
  <2>2. s \in Seq(Symbol) /\ n \in 0..Len(s) /\ P \in SUBSET (1..n)
    BY <1>1, <1>3, <1>6 DEF s
  <2>3. Selected(s, P \cup Q) = Selected(s, P) \o Selected(s, Q)
    BY <2>1, <2>2, SelectedUnion
  <2> QED BY <2>3 DEF s
<1> QED BY <1>5, <1>7, <1>8 DEF SeenBefore, P, R, b

\* And nothing of the element.
LEMMA SeenPastElement ==
    ASSUME PageIs, NEW j \in response.starts, Body[j] \in TagOpens
    PROVE  SeenBefore(PieceEnd(j) + 1) = SeenBefore(j)
<1> HIDE DEF Symbol
<1>1. Body \in Seq(Symbol) /\ DOMAIN Body = 1..Len(Body)
  BY BodiesArePages, LenProperties DEF PageIs, IsPage
<1>2. /\ PieceEnd(j) \in j..Len(Body) /\ j \in 1..Len(Body) /\ Len(Body) \in Nat
      /\ PieceEnd(j) \in Nat
  BY PieceEndIs
<1> DEFINE e == PieceEnd(j)
<1>3. \A q \in j..e : ~InText(q)
  BY ElementIsNoText
<1> HIDE DEF e
<1>4. \A q \in 1..Len(Body) : q < e + 1 /\ InText(q) <=> q < j /\ InText(q)
  <2> SUFFICES ASSUME NEW q \in 1..Len(Body)
               PROVE  q < e + 1 /\ InText(q) <=> q < j /\ InText(q)
    OBVIOUS
  <2>1. e \in Nat /\ j <= e
    BY <1>2 DEF e
  <2>2. q < j => q < e + 1
    BY <1>2, <2>1
  <2>3. q < e + 1 => q < j \/ q \in j..e
    BY <1>2, <2>1
  <2> QED BY <1>3, <2>2, <2>3
<1>5. {q \in DOMAIN Body : q < e + 1 /\ Body[q] \in Letters /\ InText(q)}
         = {q \in DOMAIN Body : q < j /\ Body[q] \in Letters /\ InText(q)}
  BY <1>1, <1>4
<1> QED BY <1>5 DEF SeenBefore, e


\* On a page of whole pieces the pass stands at a piece's start, or at the end,
\* and has kept what a reader sees of the pieces before.
StripInv ==
    /\ phase = "fetch" => text = <<>>
    /\ phase = "strip" /\ text # <<>> /\ text = Body /\ IsWhole
       => \E n \in response.starts \cup {Len(Body) + 1} :
             i = n /\ LettersOf(out) = SeenBefore(n)
    /\ OnlyMarkupIsRemoved

\* A step of the pass over such a page.
LEMMA StripKeepsSeen ==
    ASSUME PageType, phase = "strip", text # <<>>, text = Body, IsWhole, StripInv,
           StripMarkup
    PROVE  \/ phase' = "normalize" /\ LettersOf(out') = ReaderSees
           \/ /\ phase' = "strip"
              /\ \E n \in response.starts \cup {Len(Body) + 1} :
                    i' = n /\ LettersOf(out') = SeenBefore(n)
<1> HIDE DEF Symbol
<1>0. PageIs /\ out \in Seq(Symbol)
  BY DEF PageType, PageIs
<1>1. /\ Body \in Seq(Symbol) /\ response.starts \subseteq 1..Len(Body)
  BY <1>0, BodiesArePages DEF PageIs, IsPage
<1>2. Len(Body) \in Nat /\ DOMAIN Body = 1..Len(Body)
  BY <1>1, LenProperties
<1>3. i \in response.starts \cup {Len(Body) + 1} /\ LettersOf(out) = SeenBefore(i)
  BY DEF StripInv
<1>4. i \in 1..Len(Body) + 1 /\ i \in Nat
  BY <1>1, <1>2, <1>3
<1>5. CASE KeepRest /\ \A q \in i..Len(Body) : Body[q] \notin TagOpens
  <2> DEFINE j == Len(Body) + 1
             b == j - 1
             rest == SubSeq(Body, i, b)
  <2>1. j \in 1..Len(Body) + 1 /\ i <= j /\ b = Len(Body) /\ b \in 0..Len(Body)
    BY <1>2, <1>4
  <2>2. out' = out \o rest /\ phase' = "normalize"
    BY <1>5, <2>1 DEF KeepRest
  <2>3. SeenBefore(j) = SeenBefore(i) \o LettersOf(rest)
    <3> HIDE DEF j
    <3> QED BY <1>0, <1>3, <1>5, <2>1, SeenToOpen
  <2>4. rest \in Seq(Symbol)
    <3> HIDE DEF b
    <3> QED BY <1>1, <1>4, <2>1, PartSymbols
  <2> HIDE DEF rest
  <2>5. LettersOf(out \o rest) = LettersOf(out) \o LettersOf(rest)
    BY <1>0, <2>4, LettersConcat
  <2>6. SeenBefore(j) = ReaderSees
    <3>1. \A q \in DOMAIN Body : q < j
      BY <1>2
    <3> HIDE DEF j
    <3> QED BY <3>1 DEF SeenBefore, ReaderSees
  <2> QED BY <1>3, <2>2, <2>3, <2>5, <2>6
<1>6. CASE \E j \in response.starts :
              /\ i <= j /\ \A q \in i..Len(Body) : q < j => Body[q] \notin TagOpens
              /\ Body[j] \in TagOpens /\ DropElement(j, PieceEnd(j))
  <2>1. PICK j \in response.starts :
              /\ i <= j /\ \A q \in i..Len(Body) : q < j => Body[q] \notin TagOpens
              /\ Body[j] \in TagOpens /\ DropElement(j, PieceEnd(j))
    BY <1>6
  <2>2. /\ j \in 1..Len(Body) /\ PieceEnd(j) \in j..Len(Body)
        /\ PieceEnd(j) + 1 \in response.starts \/ PieceEnd(j) = Len(Body)
    BY <1>0, PieceEndIs
  <2> DEFINE b == j - 1
             part == SubSeq(Body, i, b)
             n == PieceEnd(j) + 1
  <2>3. j \in 1..Len(Body) + 1 /\ b \in 0..Len(Body)
    BY <1>2, <2>2
  <2>4. out' = out \o part \o <<Space>> /\ i' = n /\ phase' = "strip"
    BY <2>1 DEF DropElement
  <2>5. SeenBefore(j) = SeenBefore(i) \o LettersOf(part)
    BY <1>0, <1>3, <2>1, <2>3, SeenToOpen
  <2>6. part \in Seq(Symbol)
    <3> HIDE DEF b
    <3> QED BY <1>1, <1>4, <2>3, PartSymbols
  <2> HIDE DEF part
  <2>7. /\ out \o part \in Seq(Symbol) /\ <<Space>> \in Seq(Symbol)
        /\ LettersOf(out \o part) = LettersOf(out) \o LettersOf(part)
    <3>1. <<Space>> \in Seq(Symbol)
      <4>1. Space \in Symbol
        BY DEF Symbol
      <4> QED BY <4>1
    <3> QED BY <1>0, <2>6, <3>1, LettersConcat, ConcatSymbols
  <2>8. LettersOf(out') = LettersOf(out \o part) \o << >>
    BY <2>4, <2>7, LettersConcat, LettersOfSpace
  <2>9. SeenBefore(n) = SeenBefore(j)
    BY <1>0, <2>1, SeenPastElement
  <2>10. LettersOf(out \o part) = SeenBefore(j)
    BY <1>3, <2>5, <2>7
  <2>11. LettersOf(out') = SeenBefore(n)
    <3> DEFINE t == LettersOf(out \o part)
    <3>1. t \in Seq(Symbol)
      <4> DEFINE u == out \o part
      <4>1. u \in Seq(Symbol)
        BY <2>7
      <4> HIDE DEF u
      <4>2. {p \in DOMAIN u : u[p] \in Letters} \in SUBSET (1..Len(u))
        BY <4>1, LenProperties
      <4>3. LettersOf(u) \in Seq(Symbol)
        BY <4>1, <4>2, SelectedType DEF LettersOf
      <4> QED BY <4>3 DEF u
    <3> HIDE DEF t
    <3>2. t \o << >> = t
      BY <3>1, ConcatEmptySeq
    <3> QED BY <2>8, <2>9, <2>10, <3>2 DEF t
  <2>12. n \in response.starts \cup {Len(Body) + 1}
    BY <2>2
  <2> HIDE DEF n
  <2> QED BY <2>4, <2>11, <2>12
<1> QED BY <1>0, <1>3, <1>5, <1>6, WholeStep

\* _strip_markup: of a page that is made of text and of whole elements the pass
\* keeps the letters of the text, every one of them and no others.
THEOREM MarkupIsRemoved == Spec => []OnlyMarkupIsRemoved
<1> HIDE DEF Symbol
<1>1. Init => StripInv
  BY DEF Init, StripInv, OnlyMarkupIsRemoved
<1>2. PageType /\ StripInv /\ [Next]_vars => StripInv'
  <2> SUFFICES ASSUME PageType, StripInv, [Next]_vars
               PROVE  StripInv'
    OBVIOUS
  <2>0. response' = response
    BY DEF Next, vars, Fetch, StripMarkup, Normalize, Quote
  <2>1. Body' = Body
    BY <2>0 DEF Body
  <2>2. ReaderSees' = ReaderSees /\ \A n : SeenBefore(n)' = SeenBefore(n)
    BY <2>0 DEF ReaderSees, SeenBefore, InText, Piece, PieceEnd, Body
  <2>3. IsWhole' = IsWhole
    BY <2>0 DEF IsWhole, Piece, PieceEnd, Body
  <2>4. CASE Fetch
    <3>1. phase = "fetch" /\ text = <<>>
      BY <2>4 DEF Fetch, StripInv
    <3>2. CASE text' = <<>> /\ phase' # "fetch"
      BY <3>2 DEF StripInv, OnlyMarkupIsRemoved
    <3>3. CASE ~(text' = <<>> /\ phase' # "fetch")
      <4>1. \A status : ~Unreadable(status)
        BY <3>1, <3>3 DEF Unreadable
      <4>2. /\ text' = DecodedBody(Body)
            /\ \/ /\ phase' = "strip" /\ i' = 1 /\ out' = <<>>
               \/ /\ phase' = "normalize"
                  /\ ~LooksHtml(DecodedBody(Body), response.content_type)
        BY <2>4, <4>1 DEF Fetch
      <4>3. CASE phase' = "strip" /\ i' = 1 /\ out' = <<>>
        <5>1. ASSUME text' # <<>>, text' = Body, IsWhole
              PROVE  1 \in response.starts \cup {Len(Body) + 1}
                     /\ LettersOf(<< >>) = SeenBefore(1)
          <6>1. 1 \in response.starts
            BY <5>1 DEF IsWhole
          <6>2. LettersOf(<< >>) = << >>
            <7>1. {p \in DOMAIN << >> : << >>[p] \in Letters} = {}
              OBVIOUS
            <7> QED BY <7>1, SelectedNone DEF LettersOf
          <6>3. SeenBefore(1) = << >>
            <7>1. DOMAIN Body = 1..Len(Body)
              BY BodiesArePages, LenProperties DEF PageType, IsPage
            <7>2. {q \in DOMAIN Body : q < 1 /\ Body[q] \in Letters /\ InText(q)} = {}
              BY <7>1
            <7> QED BY <7>2, SelectedNone DEF SeenBefore
          <6> QED BY <6>1, <6>2, <6>3
        <5> QED BY <2>0, <2>1, <2>2, <2>3, <4>3, <5>1 DEF StripInv, OnlyMarkupIsRemoved
      <4>4. CASE /\ phase' = "normalize"
                 /\ ~LooksHtml(DecodedBody(Body), response.content_type)
        <5>1. text' = Body => ~IsWhole
          BY <4>2, <4>4 DEF IsWhole
        <5> QED BY <2>1, <2>3, <4>4, <5>1 DEF StripInv, OnlyMarkupIsRemoved
      <4> QED BY <4>2, <4>3, <4>4
    <3> QED BY <3>2, <3>3
  <2>5. CASE StripMarkup
    <3>1. phase = "strip" /\ phase' \in {"strip", "normalize"} /\ text' = text
      BY <2>5 DEF StripMarkup, DropElement, KeepRest
    <3>2. ASSUME text # <<>>, text = Body, IsWhole
          PROVE  \/ phase' = "normalize" /\ LettersOf(out') = ReaderSees
                 \/ /\ phase' = "strip"
                    /\ \E n \in response.starts \cup {Len(Body) + 1} :
                          i' = n /\ LettersOf(out') = SeenBefore(n)
      BY <2>5, <3>1, <3>2, StripKeepsSeen
    <3>3. CASE text # <<>> /\ text = Body /\ IsWhole
      <4>1. CASE phase' = "normalize" /\ LettersOf(out') = ReaderSees
        BY <2>2, <4>1 DEF StripInv, OnlyMarkupIsRemoved
      <4>2. CASE phase' = "strip" /\ \E n \in response.starts \cup {Len(Body) + 1} :
                                        i' = n /\ LettersOf(out') = SeenBefore(n)
        BY <2>0, <2>1, <2>2, <4>2 DEF StripInv, OnlyMarkupIsRemoved
      <4> QED BY <3>2, <3>3, <4>1, <4>2
    <3>4. CASE ~(text # <<>> /\ text = Body /\ IsWhole)
      BY <2>1, <2>3, <3>1, <3>4 DEF StripInv, OnlyMarkupIsRemoved
    <3> QED BY <3>3, <3>4
  <2>6. CASE Normalize \/ Quote
    <3>1. /\ phase \in {"normalize", "read"} /\ phase' \in {"read", "done"}
          /\ text' = text /\ out' = out
      BY <2>6 DEF Normalize, Quote
    <3> QED BY <2>1, <2>2, <2>3, <3>1 DEF StripInv, OnlyMarkupIsRemoved
  <2>7. CASE UNCHANGED vars
    BY <2>0, <2>1, <2>2, <2>3, <2>7 DEF vars, StripInv, OnlyMarkupIsRemoved
  <2> QED BY <2>4, <2>5, <2>6, <2>7 DEF Next
<1>3. StripInv => OnlyMarkupIsRemoved
  BY DEF StripInv
<1> QED BY <1>1, <1>2, <1>3, PagesAreTexts, PTL DEF Spec


----------------------------------------------------------------------------
(* A source that is read to its end *)

\* A page that no cap cuts is decoded to its last symbol, or not at all.
LEMMA UncutBodyIs ==
    ASSUME NEW body, IsPage(body), ~BytesCut(body), DecodedBody(body) # Undecodable
    PROVE  DecodedBody(body) = body
<1> HIDE DEF Symbol, Byte
<1> DEFINE L == Len(body)
           e == Encode(body)
           raw == UpTo(e, BODY_BYTES_CAP)
           cuts == {c \in BytesDropped(BytesCut(body)) :
                       c <= Len(raw) /\ IsUtf8(SubSeq(raw, 1, Len(raw) - c))}
<1>1. body \in Seq(Symbol) /\ \A k \in 1..L : BytesOf(body[k]) \in 1..4
  BY DEF IsPage
<1>2. L \in Nat /\ L \in 0..L /\ BODY_BYTES_CAP \in Nat
  BY <1>1, LenProperties, TextCapsAssumption
<1>3. PICK off : Offsets(off, body) /\ BytesAt(e, off, body, L)
  BY EncodedBytes
<1>4. \A k \in 0..L : off[k] \in Nat
  BY <1>2, <1>3 DEF Offsets
<1>5. e \in Seq(Byte) /\ Len(e) = off[L] /\ Len(e) \in Nat
  BY <1>2, <1>3, <1>4 DEF BytesAt
<1>6. Len(e) <= BODY_BYTES_CAP
  BY <1>2, <1>5 DEF BytesCut
<1>7. cuts # {}
  BY DEF DecodedBody, Decode
<1>8. PICK c \in cuts : TRUE
  BY <1>7
<1>9. c = 0 /\ IsUtf8(SubSeq(raw, 1, Len(raw) - c))
  BY <1>8 DEF BytesDropped
<1> HIDE DEF e, cuts
<1>10. raw = e
  <2>1. PICK n \in 0..Len(e) : raw = SubSeq(e, 1, n) /\ (Len(e) <= BODY_BYTES_CAP => n = Len(e))
    BY <1>2, <1>5, UpToIs
  <2> QED BY <1>5, <1>6, <2>1, PrefixAll
<1> HIDE DEF raw
<1>11. IsUtf8(e)
  <2>1. Len(raw) - c = Len(e)
    BY <1>5, <1>9, <1>10
  <2> QED BY <1>5, <1>9, <1>10, <2>1, PrefixAll
<1>12. \A k \in 1..L : body[k] # Invalid
  <2> SUFFICES ASSUME NEW k \in 1..L
               PROVE  body[k] # Invalid
    OBVIOUS
  <2>1. k - 1 \in 0..L /\ k \in 0..L
    BY <1>2
  <2> DEFINE p == off[k - 1] + 1
  <2>2. 1 \in 1..BytesOf(body[k])
    <3>1. BytesOf(body[k]) \in 1..4
      BY <1>1
    <3> QED BY <3>1
  <2>3. e[p] = <<body[k], 1>>
    BY <1>3, <2>2 DEF BytesAt
  <2>4. p \in 1..Len(e)
    <3>1. off[k - 1] < off[L] 
      <4>1. k - 1 < L
        BY <1>2
      <4> QED BY <1>2, <1>3, <2>1, <4>1, OffsetsGrow
    <3>2. off[k - 1] \in Nat /\ off[L] \in Nat
      BY <1>2, <1>4, <2>1
    <3> QED BY <1>5, <3>1, <3>2
  <2> HIDE DEF p
  <2>5. p \in DOMAIN e
    BY <1>5, <2>4, LenProperties
  <2>6. e[p][1] # Invalid
    BY <1>11, <2>5 DEF IsUtf8
  <2> QED BY <2>3, <2>6
<1>13. DecodedBody(body) = UpTo(body, Max(Whole(body)))
  BY <1>12, DecodedBodyIs
<1> DEFINE W == Max(Whole(body))
<1>14. W \in 0..L /\ \A n \in 0..L : off[n] <= BODY_BYTES_CAP => n <= W
  BY <1>3, WholeIs
<1> HIDE DEF W
<1>15. W = L
  <2>1. off[L] <= BODY_BYTES_CAP
    BY <1>5, <1>6
  <2>2. L <= W
    BY <1>2, <1>14, <2>1
  <2> QED BY <1>2, <1>14, <2>2
<1>16. UpTo(body, L) = body
  BY <1>1, <1>2, UpToPrefix, PrefixAll
<1> QED BY <1>13, <1>15, <1>16 DEF W

\* What becomes of a page between its decoding and the panel.
RetrievedInv ==
    /\ phase \in {"strip", "normalize"} =>
          /\ Body # <<>> /\ text = DecodedBody(Body) /\ text # Undecodable
    /\ phase \in {"fetch", "strip", "normalize"} => source.status # "RETRIEVED"
    /\ TruncationIsDeclared

\* A response that is not read is never recorded as RETRIEVED.
LEMMA NotRetrieved ==
    ASSUME Fetch
    PROVE  \/ source' = source /\ phase = "fetch"
           \/ source'.status # "RETRIEVED" /\ phase' = "done"
<1>1. \A status : Unreadable(status) /\ status # "RETRIEVED"
                     => source'.status # "RETRIEVED" /\ phase' = "done"
  BY DEF Unreadable
<1>2. \A code : StatusForHttp(code) # "RETRIEVED"
  BY DEF StatusForHttp
<1>3. CASE \E status : Unreadable(status) /\ status # "RETRIEVED"
  BY <1>1, <1>3
<1>4. CASE ~(\E status : Unreadable(status) /\ status # "RETRIEVED")
  <2>1. \A status : status # "RETRIEVED" => ~Unreadable(status)
    BY <1>4
  <2>2. ~Unreadable("TIMEOUT") /\ ~Unreadable("INVALID_CONTENT")
        /\ ~Unreadable("UNSUPPORTED_CONTENT")
        /\ ~Unreadable(StatusForHttp(response.status))
    BY <1>2, <2>1
  <2> QED BY <2>2 DEF Fetch
<1> QED BY <1>3, <1>4

\* _fetch_source: a source that is not marked PARTIAL was read to its end, and
\* no letter that a reader of the page sees is missing from the panel's text.
THEOREM TruncationIsMarked == Spec => []TruncationIsDeclared
<1> HIDE DEF Symbol
<1>1. Init => RetrievedInv
  BY DEF Init, RetrievedInv, TruncationIsDeclared
<1>2. PageType /\ OnlyMarkupIsRemoved /\ RetrievedInv /\ [Next]_vars => RetrievedInv'
  <2> SUFFICES ASSUME PageType, OnlyMarkupIsRemoved, RetrievedInv, [Next]_vars
               PROVE  RetrievedInv'
    OBVIOUS
  <2>0. response' = response
    BY DEF Next, vars, Fetch, StripMarkup, Normalize, Quote
  <2>1. Body' = Body
    BY <2>0 DEF Body
  <2>2. ReaderSees' = ReaderSees
    BY <2>0 DEF ReaderSees, InText, Piece, PieceEnd, Body
  <2>3. IsWhole' = IsWhole
    BY <2>0 DEF IsWhole, Piece, PieceEnd, Body
  <2>4. IsPage(Body) /\ out \in Seq(Symbol)
    BY BodiesArePages DEF PageType
  <2>5. CASE Fetch
    <3>1. CASE source'.status # "RETRIEVED" /\ phase' = "done"
      BY <3>1 DEF RetrievedInv, TruncationIsDeclared
    <3>2. CASE source' = source /\ phase = "fetch"
                  /\ ~(source'.status # "RETRIEVED" /\ phase' = "done")
      <4>1. source'.status # "RETRIEVED" /\ phase' # "done"
        BY <2>5, <3>2 DEF RetrievedInv
      <4>2. \A status : ~Unreadable(status)
        BY <4>1 DEF Unreadable
      <4>3. /\ Body # <<>> /\ text' = DecodedBody(Body) /\ text' # Undecodable
        BY <2>5, <4>2 DEF Fetch
      <4> QED BY <2>1, <4>1, <4>3 DEF RetrievedInv, TruncationIsDeclared
    <3> QED BY <2>5, <3>1, <3>2, NotRetrieved
  <2>6. CASE StripMarkup
    <3>1. phase = "strip" /\ phase' \in {"strip", "normalize"} /\ text' = text /\ source' = source
      BY <2>6 DEF StripMarkup, DropElement, KeepRest
    <3> QED BY <2>1, <3>1 DEF RetrievedInv, TruncationIsDeclared
  <2>7. CASE Normalize
    <3> DEFINE normalized == Collapse(out)
    <3>1. phase = "normalize" /\ phase' \in {"read", "done"}
      BY <2>7 DEF Normalize
    <3>2. CASE source'.status # "RETRIEVED"
      BY <3>1, <3>2 DEF RetrievedInv, TruncationIsDeclared
    <3>3. CASE source'.status = "RETRIEVED"
      <4>1. ~Truncated(Body, normalized) /\ panel_text' = UpTo(normalized, TEXT_CAP)
        BY <2>7, <3>3 DEF Normalize
      <4>2. ~BytesCut(Body) /\ ~(Len(normalized) > TEXT_CAP)
        BY <4>1 DEF Truncated
      <4>3. Body # <<>> /\ text = DecodedBody(Body) /\ text # Undecodable
        BY <3>1 DEF RetrievedInv
      <4>4. text = Body
        BY <2>4, <4>2, <4>3, UncutBodyIs
      <4>5. IsWhole => LettersOf(out) = ReaderSees
        BY <3>1, <4>3, <4>4 DEF OnlyMarkupIsRemoved
      <4>6. LettersOf(normalized) = LettersOf(out)
        BY <2>4, LettersOfCollapse
      <4>7. normalized \in Seq(Symbol)
        BY <2>4, CollapseType
      <4> HIDE DEF normalized
      <4>8. UpTo(normalized, TEXT_CAP) = normalized
        <5>1. Len(normalized) \in Nat /\ TEXT_CAP \in Nat
          BY <4>7, LenProperties, TextCapsAssumption
        <5>2. Len(normalized) <= TEXT_CAP
          BY <4>2, <5>1
        <5>3. PICK n \in 0..Len(normalized) :
                 /\ UpTo(normalized, TEXT_CAP) = SubSeq(normalized, 1, n)
                 /\ Len(normalized) <= TEXT_CAP => n = Len(normalized)
          BY <4>7, <5>1, UpToIs
        <5> QED BY <4>7, <5>2, <5>3, PrefixAll
      <4>9. IsWhole => LettersOf(panel_text') = ReaderSees
        BY <4>1, <4>5, <4>6, <4>8
      <4> QED BY <2>2, <2>3, <3>1, <4>9 DEF RetrievedInv, TruncationIsDeclared
    <3> QED BY <3>2, <3>3
  <2>8. CASE Quote
    <3>1. phase' = "done" /\ source' = source /\ panel_text' = panel_text
      BY <2>8 DEF Quote
    <3> QED BY <2>2, <2>3, <3>1 DEF RetrievedInv, TruncationIsDeclared
  <2>9. CASE UNCHANGED vars
    BY <2>1, <2>2, <2>3, <2>9 DEF vars, RetrievedInv, TruncationIsDeclared
  <2> QED BY <2>5, <2>6, <2>7, <2>8, <2>9 DEF Next
<1>3. RetrievedInv => TruncationIsDeclared
  BY DEF RetrievedInv
<1> QED BY <1>1, <1>2, <1>3, PagesAreTexts, MarkupIsRemoved, PTL DEF Spec

=============================================================================
