--------------------------- MODULE Admission_proofs ---------------------------
(***************************************************************************)
(* Theorems of Admission about URLs, domains, names, dates and stamps, for *)
(* every set of URLs and policies, every cap and every clock.              *)
(***************************************************************************)
EXTENDS Admission, FiniteSetTheorems, SequenceTheorems, TLAPS

\* The symbols of a text.  They are strings, as the ones named here are too,
\* which no prover knows of a literal.
Symbol == STRING \cup {Scheme, "/", ".", "443", "a", "b"}

----------------------------------------------------------------------------
(* Numbers and sets of numbers *)

\* A set of natural numbers that is not empty has a least one.
LEMMA LeastNumber ==
    ASSUME NEW S \in SUBSET Nat, S # {}
    PROVE  \E m \in S : \A x \in S : m <= x
<1>1. \E m \in S : \A x \in S : ~(<<x, m>> \in OpToRel(<, Nat))
  BY NatLessThanWellFounded, WFMin
<1>2. PICK m \in S : \A x \in S : ~(<<x, m>> \in OpToRel(<, Nat))
  BY <1>1
<1>3. \A x \in S : ~(x < m)
  BY <1>2 DEF OpToRel
<1> QED BY <1>3

\* Min is the least number of a set.
LEMMA MinProperties ==
    ASSUME NEW S \in SUBSET Nat, S # {}
    PROVE  Min(S) \in S /\ \A x \in S : Min(S) <= x
BY LeastNumber DEF Min

\* And Max the greatest one, if the set has a bound.
LEMMA MaxProperties ==
    ASSUME NEW n \in Nat, NEW S \in SUBSET (0..n), S # {}
    PROVE  Max(S) \in S /\ \A x \in S : x <= Max(S)
<1> DEFINE D == {n - x : x \in S}
<1>1. D \in SUBSET Nat /\ D # {}
  <2>1. \A x \in S : n - x \in Nat
    OBVIOUS
  <2>2. \E x \in S : TRUE
    OBVIOUS
  <2> QED BY <2>1, <2>2
<1>2. PICK m \in D : \A x \in D : m <= x
  BY <1>1, LeastNumber
<1>3. PICK y \in S : m = n - y
  BY <1>2
<1>6. \A x \in S : n - y <= n - x
  BY <1>2, <1>3
<1>4. \E z \in S : \A x \in S : z >= x
  BY <1>6
<1>5. Max(S) \in S /\ \A x \in S : Max(S) >= x
  BY <1>4 DEF Max
<1> QED BY <1>5

\* The place of p in a set of numbers, from the least one.
Rank(S, p) == Cardinality({q \in S : q <= p})

\* Nth numbers a finite set from its least number on, without gaps.
LEMMA NthProperties ==
    ASSUME NEW n \in Nat, NEW S \in SUBSET (0..n)
    PROVE  /\ IsFiniteSet(S) /\ Cardinality(S) \in Nat
           /\ \A p \in S : Rank(S, p) \in 1..Cardinality(S)
                              /\ Nth(S, Rank(S, p)) = p
           /\ \A k \in 1..Cardinality(S) : Nth(S, k) \in S
                                              /\ Rank(S, Nth(S, k)) = k
           /\ \A p, q \in S : p < q <=> Rank(S, p) < Rank(S, q)
<1>0. \A x \in S : x \in Nat
  OBVIOUS
<1>1. IsFiniteSet(S) /\ Cardinality(S) \in Nat
  <2>1. IsFiniteSet(0..n)
    BY FS_Interval
  <2>2. IsFiniteSet(S)
    BY <2>1, FS_Subset
  <2> QED BY <2>2, FS_CardinalityType
<1>2. ASSUME NEW p \in S
      PROVE  IsFiniteSet({q \in S : q <= p}) /\ Rank(S, p) \in 1..Cardinality(S)
  <2> DEFINE below == {q \in S : q <= p}
  <2>1. below \in SUBSET S /\ p \in below
    BY <1>0
  <2>2. IsFiniteSet(below) /\ Cardinality(below) <= Cardinality(S)
    BY <1>1, <2>1, FS_Subset
  <2>3. Cardinality(below) \in Nat /\ Cardinality(below) # 0
    BY <2>1, <2>2, FS_CardinalityType, FS_EmptySet
  <2> QED BY <1>1, <2>2, <2>3 DEF Rank
<1>8. \A p \in S : Rank(S, p) \in Nat
  <2> SUFFICES ASSUME NEW p \in S
               PROVE  Rank(S, p) \in Nat
    OBVIOUS
  <2>1. Rank(S, p) \in 1..Cardinality(S)
    BY <1>2
  <2> QED BY <1>1, <2>1
<1>3. ASSUME NEW p \in S, NEW q \in S, p < q
      PROVE  Rank(S, p) < Rank(S, q)
  <2> DEFINE low == {z \in S : z <= p}
             high == {z \in S : z <= q}
  <2>1. low \in SUBSET high /\ q \in high /\ q \notin low
    <3>1. \A z \in S : z <= p => z <= q
      BY <1>0, <1>3
    <3>2. q <= q /\ ~(q <= p)
      BY <1>0, <1>3
    <3> QED BY <3>1, <3>2
  <2>2. Cardinality(low) <= Cardinality(high) /\ Cardinality(low) # Cardinality(high)
    BY <1>2, <2>1, FS_Subset
  <2>3. Cardinality(low) \in Nat /\ Cardinality(high) \in Nat
    BY <1>2, FS_CardinalityType
  <2> QED BY <2>2, <2>3 DEF Rank
<1>4. \A p, q \in S : p < q <=> Rank(S, p) < Rank(S, q)
  <2> SUFFICES ASSUME NEW p \in S, NEW q \in S
               PROVE  p < q <=> Rank(S, p) < Rank(S, q)
    OBVIOUS
  <2>1. p < q \/ p = q \/ q < p
    BY <1>0
  <2>2. Rank(S, p) \in Nat /\ Rank(S, q) \in Nat
    BY <1>8
  <2>3. CASE p < q
    BY <1>3, <2>3
  <2>4. CASE p = q
    BY <2>2, <2>4
  <2>5. CASE q < p
    <3>1. Rank(S, q) < Rank(S, p)
      BY <1>3, <2>5
    <3> QED BY <1>0, <2>2, <2>5, <3>1
  <2> QED BY <2>1, <2>3, <2>4, <2>5
<1>5. ASSUME NEW k \in 1..Cardinality(S)
      PROVE  \E p \in S : Rank(S, p) = k
  <2> DEFINE f == [p \in S |-> Rank(S, p)]
             places == 1..Cardinality(S)
  <2>1. f \in [S -> places]
    BY <1>2
  <2>2. \A a, b \in S : f[a] = f[b] => a = b
    <3> SUFFICES ASSUME NEW a \in S, NEW b \in S, a # b
                 PROVE  f[a] # f[b]
      OBVIOUS
    <3>1. a < b \/ b < a
      BY <1>0
    <3>2. Rank(S, a) < Rank(S, b) \/ Rank(S, b) < Rank(S, a)
      BY <1>4, <3>1
    <3>3. Rank(S, a) \in Nat /\ Rank(S, b) \in Nat
      BY <1>8
    <3> QED BY <3>2, <3>3
  <2>3. f \in Injection(S, places)
    BY <2>1, <2>2 DEF Injection, IsInjective
  <2>4. IsFiniteSet(places) /\ Cardinality(places) = Cardinality(S)
    BY <1>1, FS_Interval
  <2>5. f \in Surjection(S, places)
    BY <2>3, <2>4, FS_Injection
  <2> QED BY <2>5 DEF Surjection
<1>6. ASSUME NEW k \in 1..Cardinality(S)
      PROVE  Nth(S, k) \in S /\ Rank(S, Nth(S, k)) = k
  BY <1>5 DEF Nth, Rank
<1>7. ASSUME NEW p \in S
      PROVE  Nth(S, Rank(S, p)) = p
  <2> DEFINE z == Nth(S, Rank(S, p))
  <2>1. z \in S /\ Rank(S, z) = Rank(S, p)
    BY <1>2, <1>6
  <2>2. ~(z < p) /\ ~(p < z)
    <3>1. Rank(S, p) \in Nat
      BY <1>8
    <3>2. ~(Rank(S, p) < Rank(S, p))
      BY <3>1
    <3> HIDE DEF z
    <3> QED BY <1>4, <2>1, <3>2
  <2>3. z \in Nat /\ p \in Nat
    BY <1>0, <2>1
  <2> QED BY <2>2, <2>3
<1> QED BY <1>1, <1>2, <1>4, <1>6, <1>7

----------------------------------------------------------------------------
(* Texts and their parts *)

\* The stops of a split are places of the text, or the one behind its end.
LEMMA StopsType ==
    ASSUME NEW t \in Seq(Symbol), NEW symbol
    PROVE  /\ Len(t) \in Nat /\ Len(t) + 1 \in Nat
           /\ Stops(t, symbol) \in SUBSET (0..Len(t) + 1)
           /\ Len(t) + 1 \in Stops(t, symbol)
           /\ \A i \in 1..Len(t) : i \in Stops(t, symbol) <=> t[i] = symbol
BY LenProperties DEF Stops, At

\* A part of a text: its length and its symbols.
LEMMA PartProperties ==
    ASSUME NEW t \in Seq(Symbol), NEW a \in 1..Len(t) + 1, NEW b \in 0..Len(t)
    PROVE  LET part == SubSeq(t, a, b) IN
           /\ part \in Seq(Symbol)
           /\ Len(part) = IF a <= b THEN b - a + 1 ELSE 0
           /\ \A i \in 1..b - a + 1 : part[i] = t[a + i - 1]
<1>1. Len(t) \in Nat /\ \A i \in 1..Len(t) : t[i] \in Symbol
  BY LenProperties
<1>2. a \in Int /\ b \in Int
  BY <1>1
<1>3. \A i \in a..b : t[i] \in Symbol
  BY <1>1
<1> QED BY <1>2, <1>3, SubSeqProperties

\* Where the part that ends at a stop begins.
Opening(stops, k) == IF k = 1 THEN 1 ELSE Nth(stops, k - 1) + 1

\* The k-th part of a text lies between two stops that have none between.
LEMMA SplitParts ==
    ASSUME NEW t \in Seq(Symbol), NEW symbol
    PROVE  LET stops == Stops(t, symbol)
               parts == Split(t, symbol)
           IN  /\ Cardinality(stops) \in Nat \ {0}
               /\ parts \in Seq(Seq(Symbol)) /\ Len(parts) = Cardinality(stops)
               /\ \A k \in 1..Len(parts) :
                     /\ Nth(stops, k) \in stops
                     /\ Opening(stops, k) \in 1..Nth(stops, k)
                     /\ \A q \in stops :
                           q < Nth(stops, k) => q < Opening(stops, k)
                     /\ parts[k] = SubSeq(t, Opening(stops, k), Nth(stops, k) - 1)
                     /\ Len(parts[k]) = Nth(stops, k) - Opening(stops, k)
<1> DEFINE stops == Stops(t, symbol)
           parts == Split(t, symbol)
           c == Cardinality(stops)
<1>1. /\ Len(t) \in Nat /\ Len(t) + 1 \in Nat
      /\ stops \in SUBSET (0..Len(t) + 1) /\ Len(t) + 1 \in stops
  BY StopsType
<1>2. \A q \in stops : q \in 1..Len(t) + 1
  BY <1>1, LenProperties DEF Stops, At
<1>3. /\ IsFiniteSet(stops) /\ c \in Nat
      /\ \A p \in stops : Rank(stops, p) \in 1..c /\ Nth(stops, Rank(stops, p)) = p
      /\ \A k \in 1..c : Nth(stops, k) \in stops /\ Rank(stops, Nth(stops, k)) = k
      /\ \A p, q \in stops : p < q <=> Rank(stops, p) < Rank(stops, q)
  <2> HIDE DEF stops
  <2> QED BY <1>1, NthProperties
<1>4. c \in Nat \ {0}
  BY <1>1, <1>3, FS_EmptySet
<1> HIDE DEF stops
<1>5. ASSUME NEW k \in 1..c
      PROVE  /\ Opening(stops, k) \in 1..Nth(stops, k)
             /\ \A q \in stops : q < Nth(stops, k) => q < Opening(stops, k)
  <2> DEFINE p == Nth(stops, k)
  <2>1. p \in stops /\ Rank(stops, p) = k /\ p \in 1..Len(t) + 1
    BY <1>2, <1>3
  <2>2. CASE k = 1
    <3>1. \A q \in stops : ~(q < p)
      <4> SUFFICES ASSUME NEW q \in stops, q < p
                   PROVE  FALSE
        OBVIOUS
      <4>1. Rank(stops, q) < 1 /\ Rank(stops, q) \in 1..c
        BY <1>3, <2>1, <2>2
      <4> QED BY <4>1
    <3> QED BY <2>1, <2>2, <3>1 DEF Opening
  <2>3. CASE k # 1
    <3> DEFINE a == Nth(stops, k - 1)
    <3>1. k - 1 \in 1..c
      BY <1>4, <2>3
    <3>2. a \in stops /\ Rank(stops, a) = k - 1 /\ a \in 1..Len(t) + 1
      BY <1>2, <1>3, <3>1
    <3> HIDE DEF a, p
    <3>3. a < p
      BY <1>3, <2>1, <3>2
    <3>4. ASSUME NEW q \in stops, q < p
          PROVE  q < a + 1
      <4>1. Rank(stops, q) < k /\ Rank(stops, q) \in 1..c
        BY <1>3, <2>1, <3>4
      <4>2. ~(Rank(stops, a) < Rank(stops, q))
        BY <3>2, <4>1
      <4>3. ~(a < q)
        BY <1>3, <3>2, <4>2
      <4> QED BY <1>2, <3>2, <4>3
    <3>5. Opening(stops, k) = a + 1
      BY <2>3 DEF Opening, a
    <3>6. a + 1 \in 1..p
      BY <2>1, <3>2, <3>3
    <3> QED BY <3>4, <3>5, <3>6 DEF p
  <2> QED BY <2>2, <2>3
<1>6. parts = [k \in 1..c |-> SubSeq(t, Opening(stops, k), Nth(stops, k) - 1)]
  BY DEF Split, Opening, stops
<1>7. ASSUME NEW k \in 1..c
      PROVE  LET part == SubSeq(t, Opening(stops, k), Nth(stops, k) - 1) IN
             /\ part \in Seq(Symbol)
             /\ Len(part) = Nth(stops, k) - Opening(stops, k)
  <2> DEFINE a == Opening(stops, k)
             b == Nth(stops, k)
  <2>1. b \in 1..Len(t) + 1 /\ a \in 1..b
    BY <1>2, <1>3, <1>5
  <2> HIDE DEF a, b
  <2>2. a \in 1..Len(t) + 1 /\ b - 1 \in 0..Len(t)
    BY <1>1, <2>1
  <2>3. /\ SubSeq(t, a, b - 1) \in Seq(Symbol)
        /\ Len(SubSeq(t, a, b - 1)) = IF a <= b - 1 THEN b - 1 - a + 1 ELSE 0
    BY <2>2, PartProperties
  <2>4. Len(SubSeq(t, a, b - 1)) = b - a
    BY <2>1, <2>3
  <2> QED BY <2>3, <2>4 DEF a, b
<1> HIDE DEF parts, c
<1>8. parts \in Seq(Seq(Symbol)) /\ Len(parts) = c
  BY <1>4, <1>6, <1>7
<1>9. \A k \in 1..c : parts[k] = SubSeq(t, Opening(stops, k), Nth(stops, k) - 1)
  BY <1>6
<1> QED BY <1>3, <1>4, <1>5, <1>7, <1>8, <1>9 DEF stops, parts, c

\* Every symbol that is not a separator is in a part.
LEMMA SymbolIsInAPart ==
    ASSUME NEW t \in Seq(Symbol), NEW symbol, NEW i \in 1..Len(t), t[i] # symbol
    PROVE  \E k \in 1..Len(Split(t, symbol)) :
              \E j \in 1..Len(Split(t, symbol)[k]) :
                  Split(t, symbol)[k][j] = t[i]
<1> DEFINE stops == Stops(t, symbol)
           later == {q \in stops : q >= i}
           p == Min(later)
           k == Rank(stops, p)
           parts == Split(t, symbol)
           a == Opening(stops, k)
<1>1. /\ Len(t) \in Nat /\ Len(t) + 1 \in Nat
      /\ stops \in SUBSET (0..Len(t) + 1) /\ Len(t) + 1 \in stops
      /\ i \notin stops
  BY StopsType
<1>2. /\ \A q \in stops : q \in 1..Len(t) + 1
  BY <1>1, LenProperties DEF Stops, At
<1>3. \A q \in stops : Rank(stops, q) \in 1..Cardinality(stops)
                          /\ Nth(stops, Rank(stops, q)) = q
  <2> HIDE DEF stops
  <2> QED BY <1>1, NthProperties
<1> HIDE DEF stops
<1>4. p \in later /\ \A q \in later : p <= q
  <2>1. later \in SUBSET Nat
    BY <1>2
  <2>2. Len(t) + 1 \in later
    BY <1>1
  <2>3. \A S \in SUBSET Nat : S # {} => Min(S) \in S /\ \A q \in S : Min(S) <= q
    BY MinProperties
  <2> QED BY <2>1, <2>2, <2>3
<1>5. p \in stops /\ p \in 1..Len(t) + 1 /\ i < p
  <2> HIDE DEF p
  <2>1. p \in stops /\ p >= i
    BY <1>4
  <2>2. p # i
    BY <1>1, <2>1
  <2> QED BY <1>2, <2>1, <2>2
<1> HIDE DEF p, later
<1>6. k \in 1..Cardinality(stops) /\ Nth(stops, k) = p
  BY <1>3, <1>5
<1> HIDE DEF k
<1>7. /\ Len(parts) = Cardinality(stops)
      /\ a \in 1..p /\ \A q \in stops : q < p => q < a
      /\ parts[k] = SubSeq(t, a, p - 1)
      /\ Len(parts[k]) = p - a
  BY <1>6, SplitParts DEF stops
<1>8. a <= i
  <2>1. CASE k = 1
    BY <2>1 DEF Opening
  <2>2. CASE k # 1
    <3> DEFINE prior == Nth(stops, k - 1)
    <3>1. a = prior + 1
      BY <2>2 DEF Opening
    <3>2. prior \in stops
      <4>1. Cardinality(stops) \in Nat
        BY SplitParts DEF stops
      <4>2. k - 1 \in 1..Cardinality(stops)
        BY <1>6, <2>2, <4>1
      <4>3. Len(parts) = Cardinality(stops)
        BY <1>7
      <4> QED BY <4>2, <4>3, SplitParts DEF stops
    <3> HIDE DEF prior
    <3>3. prior < p
      BY <1>2, <1>5, <1>7, <3>1, <3>2
    <3>4. ~(prior >= i)
      BY <1>2, <1>4, <1>5, <3>2, <3>3 DEF later
    <3> QED BY <1>2, <3>1, <3>2, <3>4
  <2> QED BY <2>1, <2>2
<1> HIDE DEF a, parts
<1>9. i - a + 1 \in 1..p - a
  BY <1>5, <1>7, <1>8
<1>10. parts[k][i - a + 1] = t[i]
  <2>1. a \in 1..Len(t) + 1 /\ p - 1 \in 0..Len(t)
    BY <1>1, <1>5, <1>7
  <2>2. i - a + 1 \in 1..p - 1 - a + 1
    BY <1>5, <1>7, <1>9
  <2>3. SubSeq(t, a, p - 1)[i - a + 1] = t[a + (i - a + 1) - 1]
    BY <2>1, <2>2, PartProperties
  <2>4. a + (i - a + 1) - 1 = i
    BY <2>1
  <2> QED BY <1>7, <2>3, <2>4
<1> QED BY <1>6, <1>7, <1>9, <1>10 DEF parts

\* Moving a finite set of numbers does not change how many they are.
LEMMA ShiftedSet ==
    ASSUME NEW n \in Nat, NEW S \in SUBSET (0..n), NEW c \in Nat
    PROVE  /\ IsFiniteSet({c + w : w \in S})
           /\ Cardinality({c + w : w \in S}) = Cardinality(S)
<1> DEFINE T == {c + w : w \in S}
           f == [w \in S |-> c + w]
<1>1. IsFiniteSet(S)
  BY NthProperties
<1>2. f \in [S -> T] /\ \A t \in T : \E w \in S : f[w] = t
  OBVIOUS
<1>3. \A a, b \in S : f[a] = f[b] => a = b
  OBVIOUS
<1> HIDE DEF f, T
<1>4. f \in Bijection(S, T)
  BY <1>2, <1>3 DEF Bijection, Injection, Surjection, IsInjective
<1>5. ExistsBijection(S, T)
  BY <1>4 DEF ExistsBijection
<1>6. IsFiniteSet(T) /\ Cardinality(T) = Cardinality(S)
  BY <1>1, <1>5, FS_Bijection
<1> QED BY <1>6 DEF T

\* A text ends with the separator at c and another text.
EndsBehind(t, d, symbol, c) ==
    /\ Len(t) = c + Len(d) /\ t[c] = symbol
    /\ \A i \in 1..Len(d) : t[c + i] = d[i]

\* The stops of such a text.
LEMMA StopsOfEnding ==
    ASSUME NEW t \in Seq(Symbol), NEW d \in Seq(Symbol), NEW symbol,
           NEW c \in 1..Len(t), EndsBehind(t, d, symbol, c)
    PROVE  LET S == Stops(t, symbol)
               U == Stops(d, symbol)
           IN  /\ c \in S
               /\ \A v \in U : c + v \in S /\ Rank(S, c + v) = Rank(S, c) + Rank(U, v)
               /\ Cardinality(S) = Rank(S, c) + Cardinality(U)
<1> DEFINE S == Stops(t, symbol)
           U == Stops(d, symbol)
           low == {q \in S : q <= c}
<1>0. /\ Len(t) = c + Len(d) /\ t[c] = symbol
      /\ \A i \in 1..Len(d) : t[c + i] = d[i]
  BY DEF EndsBehind
<1>1. /\ Len(t) \in Nat /\ Len(d) \in Nat /\ c \in Nat
      /\ S \in SUBSET (0..Len(t) + 1) /\ U \in SUBSET (0..Len(d) + 1)
      /\ Len(t) + 1 \in S /\ Len(d) + 1 \in U
      /\ Len(t) + 1 \in Nat /\ Len(d) + 1 \in Nat
  <2>1. c \in Nat
    BY StopsType
  <2> HIDE DEF S, U
  <2> QED BY <2>1, StopsType DEF S, U
<1>2. /\ \A q \in S : q \in 1..Len(t) + 1
      /\ \A v \in U : v \in 1..Len(d) + 1
  BY <1>1, LenProperties DEF Stops, At
<1>3. /\ \A i \in 1..Len(t) : i \in S <=> t[i] = symbol
      /\ \A i \in 1..Len(d) : i \in U <=> d[i] = symbol
  BY StopsType
<1>4. c \in S
  BY <1>0, <1>3
<1> HIDE DEF S, U
<1>5. ASSUME NEW v \in U
      PROVE  c + v \in S
  <2>1. CASE v = Len(d) + 1
    <3>1. c + v = Len(t) + 1
      BY <1>0, <1>1, <2>1
    <3> QED BY <1>1, <3>1
  <2>2. CASE v # Len(d) + 1
    <3>1. v \in 1..Len(d) /\ c + v \in 1..Len(t)
      BY <1>0, <1>1, <1>2, <2>2
    <3> QED BY <1>0, <1>3, <3>1
  <2> QED BY <2>1, <2>2
<1>6. ASSUME NEW q \in S, q > c
      PROVE  q - c \in U
  <2>1. CASE q = Len(t) + 1
    <3>1. q - c = Len(d) + 1
      BY <1>0, <1>1, <2>1
    <3> QED BY <1>1, <3>1
  <2>2. CASE q # Len(t) + 1
    <3>0. q \in 1..Len(t) + 1
      BY <1>2
    <3>1. q \in 1..Len(t) /\ q - c \in 1..Len(d) /\ c + (q - c) = q
      BY <1>0, <1>1, <1>6, <2>2, <3>0
    <3>2. t[q] = symbol
      BY <1>3, <3>1
    <3>3. d[q - c] = symbol
      BY <1>0, <3>1, <3>2
    <3> QED BY <1>3, <3>1, <3>3
  <2> QED BY <2>1, <2>2
<1>7. IsFiniteSet(low) /\ Cardinality(low) = Rank(S, c) /\ Rank(S, c) \in Nat
  <2>1. IsFiniteSet(S)
    BY <1>1, NthProperties
  <2>2. IsFiniteSet(low)
    <3>1. low \in SUBSET S
      OBVIOUS
    <3> HIDE DEF low
    <3> QED BY <2>1, <3>1, FS_Subset
  <2> QED BY <2>2, FS_CardinalityType DEF Rank
<1>8. ASSUME NEW v \in U
      PROVE  Rank(S, c + v) = Rank(S, c) + Rank(U, v)
  <2> DEFINE part == {w \in U : w <= v}
             moved == {c + w : w \in part}
  <2>1. part \in SUBSET (0..Len(d) + 1) /\ Len(d) + 1 \in Nat
    <3>1. part \subseteq U
      OBVIOUS
    <3> HIDE DEF part
    <3> QED BY <1>1, <3>1
  <2>2. IsFiniteSet(moved) /\ Cardinality(moved) = Rank(U, v)
    <3> HIDE DEF part
    <3>1. IsFiniteSet(moved) /\ Cardinality(moved) = Cardinality(part)
      BY <1>1, <2>1, ShiftedSet
    <3> QED BY <3>1 DEF part, Rank
  <2>3. {q \in S : q <= c + v} = low \cup moved
    <3>1. ASSUME NEW q \in S, q <= c + v
          PROVE  q \in low \cup moved
      <4>1. CASE q <= c
        BY <4>1
      <4>2. CASE ~(q <= c)
        <5>1. q > c /\ q - c <= v /\ c + (q - c) = q
          BY <1>1, <1>2, <3>1, <4>2
        <5>2. q - c \in part
          BY <1>6, <5>1
        <5> HIDE DEF part
        <5> QED BY <5>1, <5>2
      <4> QED BY <4>1, <4>2
    <3>2. ASSUME NEW q \in low
          PROVE  q \in S /\ q <= c + v
      BY <1>1, <1>2
    <3>3. ASSUME NEW w \in part
          PROVE  c + w \in S /\ c + w <= c + v
      BY <1>1, <1>2, <1>5
    <3> QED BY <3>1, <3>2, <3>3
  <2>4. low \cap moved = {}
    <3>1. ASSUME NEW w \in part
          PROVE  ~(c + w <= c)
      BY <1>1, <1>2
    <3> QED BY <3>1
  <2> HIDE DEF moved, low, part
  <2>5. Cardinality(low \cup moved) = Cardinality(low) + Cardinality(moved)
    <3>1. Cardinality(low \cap moved) = 0
      BY <2>4, FS_EmptySet
    <3>2. Cardinality(low \cup moved) =
              Cardinality(low) + Cardinality(moved) - Cardinality(low \cap moved)
      BY <1>7, <2>2, FS_Union
    <3>3. Cardinality(low) \in Nat /\ Cardinality(moved) \in Nat
      BY <1>7, <2>2, FS_CardinalityType
    <3> QED BY <3>1, <3>2, <3>3
  <2> QED BY <1>7, <2>2, <2>3, <2>5 DEF Rank
<1>9. Cardinality(S) = Rank(S, c) + Cardinality(U)
  <2>1. {q \in S : q <= Len(t) + 1} = S /\ {q \in U : q <= Len(d) + 1} = U
    BY <1>2
  <2>2. Rank(S, Len(t) + 1) = Cardinality(S) /\ Rank(U, Len(d) + 1) = Cardinality(U)
    BY <2>1 DEF Rank
  <2>3. c + (Len(d) + 1) = Len(t) + 1
    BY <1>0, <1>1
  <2> QED BY <1>1, <1>8, <2>2, <2>3
<1> QED BY <1>4, <1>5, <1>8, <1>9 DEF S, U

\* Such a text ends with the parts of the other one.
LEMMA SplitOfEnding ==
    ASSUME NEW t \in Seq(Symbol), NEW d \in Seq(Symbol), NEW symbol,
           NEW c \in 1..Len(t), EndsBehind(t, d, symbol, c)
    PROVE  LET A == Split(t, symbol)
               B == Split(d, symbol)
           IN  /\ Len(B) <= Len(A)
               /\ \A k \in 1..Len(B) : A[Len(A) - Len(B) + k] = B[k]
<1> DEFINE S == Stops(t, symbol)
           U == Stops(d, symbol)
           A == Split(t, symbol)
           B == Split(d, symbol)
           r == Rank(S, c)
<1>0. /\ Len(t) = c + Len(d) /\ t[c] = symbol
      /\ \A i \in 1..Len(d) : t[c + i] = d[i]
  BY DEF EndsBehind
<1>1. /\ Len(t) \in Nat /\ Len(d) \in Nat /\ c \in Nat
      /\ S \in SUBSET (0..Len(t) + 1) /\ U \in SUBSET (0..Len(d) + 1)
      /\ Len(t) + 1 \in Nat /\ Len(d) + 1 \in Nat
  <2>1. c \in Nat
    BY StopsType
  <2> HIDE DEF S, U
  <2> QED BY <2>1, StopsType DEF S, U
<1>2. /\ c \in S
      /\ \A v \in U : c + v \in S /\ Rank(S, c + v) = r + Rank(U, v)
      /\ Cardinality(S) = r + Cardinality(U)
  BY StopsOfEnding
<1>3. /\ Cardinality(U) \in Nat \ {0} /\ Cardinality(S) \in Nat \ {0}
      /\ Len(A) = Cardinality(S) /\ Len(B) = Cardinality(U)
      /\ \A k \in 1..Len(A) :
            A[k] = SubSeq(t, Opening(S, k), Nth(S, k) - 1)
      /\ \A k \in 1..Len(B) :
            /\ Nth(U, k) \in U
            /\ Opening(U, k) \in 1..Nth(U, k)
            /\ B[k] = SubSeq(d, Opening(U, k), Nth(U, k) - 1)
  BY SplitParts
<1> HIDE DEF S, U, A, B
<1>4. /\ \A p \in S : Rank(S, p) \in 1..Cardinality(S) /\ Nth(S, Rank(S, p)) = p
      /\ \A k \in 1..Cardinality(U) : Nth(U, k) \in U /\ Rank(U, Nth(U, k)) = k
  BY <1>1, NthProperties
<1>5. r \in 1..Cardinality(S) /\ Nth(S, r) = c
  BY <1>2, <1>4
<1> HIDE DEF r
<1>6. ASSUME NEW k \in 1..Cardinality(U)
      PROVE  Nth(S, r + k) = c + Nth(U, k)
  <2>1. Nth(U, k) \in U /\ Rank(U, Nth(U, k)) = k
    BY <1>4
  <2>2. c + Nth(U, k) \in S /\ Rank(S, c + Nth(U, k)) = r + k
    BY <1>2, <2>1
  <2> QED BY <1>4, <2>2
<1>7. ASSUME NEW k \in 1..Cardinality(U)
      PROVE  Opening(S, r + k) = c + Opening(U, k)
  <2> DEFINE j == r + k
  <2>1. j # 1 /\ j - 1 = r + (k - 1)
    BY <1>3, <1>5
  <2> HIDE DEF j
  <2>5. Opening(S, j) = Nth(S, j - 1) + 1
    BY <2>1 DEF Opening
  <2>2. Opening(S, r + k) = Nth(S, r + (k - 1)) + 1
    BY <2>1, <2>5 DEF j
  <2>3. CASE k = 1
    <3>1. r + (k - 1) = r
      BY <1>3, <1>5, <2>3
    <3> QED BY <1>5, <2>2, <2>3, <3>1 DEF Opening
  <2>4. CASE k # 1
    <3>1. k - 1 \in 1..Cardinality(U)
      BY <1>3, <2>4
    <3>2. Nth(S, r + (k - 1)) = c + Nth(U, k - 1)
      BY <1>6, <3>1
    <3>3. Nth(U, k - 1) \in Nat
      <4>1. Nth(U, k - 1) \in U
        BY <1>4, <3>1
      <4>2. \A v \in U : v \in Nat
        BY <1>1
      <4> QED BY <4>1, <4>2
    <3>4. Opening(U, k) = Nth(U, k - 1) + 1
      BY <2>4 DEF Opening
    <3> QED BY <1>1, <2>2, <3>2, <3>3, <3>4
  <2> QED BY <2>3, <2>4
<1>8. ASSUME NEW k \in 1..Len(B)
      PROVE  A[r + k] = B[k]
  <2> DEFINE a == Opening(U, k)
             b == Nth(U, k)
  <2>1. b \in 1..Len(d) + 1 /\ a \in 1..b
    <3>1. b \in U /\ a \in 1..b
      BY <1>3
    <3>2. b \in 0..Len(d) + 1
      BY <1>1, <3>1
    <3> QED BY <3>1, <3>2
  <2>2. r + k \in 1..Len(A)
    BY <1>2, <1>3, <1>5
  <2>3. A[r + k] = SubSeq(t, c + a, c + b - 1)
    <3> DEFINE x == Opening(S, r + k)
               y == Nth(S, r + k)
    <3>1. A[r + k] = SubSeq(t, x, y - 1)
      BY <1>3, <2>2
    <3>2. k \in 1..Cardinality(U)
      BY <1>3
    <3>3. x = c + a /\ y = c + b
      BY <1>6, <1>7, <3>2
    <3> HIDE DEF a, b, x, y
    <3>4. y - 1 = c + b - 1
      BY <1>1, <2>1, <3>3
    <3> QED BY <3>1, <3>3, <3>4
  <2>4. B[k] = SubSeq(d, a, b - 1)
    BY <1>3
  <2> HIDE DEF a, b
  <2>5. /\ c + a \in 1..Len(t) + 1 /\ c + b - 1 \in 0..Len(t)
        /\ a \in 1..Len(d) + 1 /\ b - 1 \in 0..Len(d)
    BY <1>0, <1>1, <2>1
  <2>6. /\ A[r + k] \in Seq(Symbol) /\ B[k] \in Seq(Symbol)
        /\ Len(A[r + k]) = b - a /\ Len(B[k]) = b - a
    <3>1. /\ A[r + k] \in Seq(Symbol)
          /\ Len(A[r + k]) = IF c + a <= c + b - 1
                             THEN c + b - 1 - (c + a) + 1 ELSE 0
      BY <2>3, <2>5, PartProperties
    <3>2. /\ B[k] \in Seq(Symbol)
          /\ Len(B[k]) = IF a <= b - 1 THEN b - 1 - a + 1 ELSE 0
      BY <2>4, <2>5, PartProperties
    <3> QED BY <1>1, <2>1, <3>1, <3>2
  <2>7. ASSUME NEW i \in 1..b - a
        PROVE  A[r + k][i] = B[k][i]
    <3> DEFINE x == c + a
               y == c + b - 1
    <3>1. i \in 1..y - x + 1 /\ i \in 1..b - 1 - a + 1
      BY <1>1, <2>1
    <3>2. A[r + k][i] = t[c + a + i - 1]
      <4>1. x \in 1..Len(t) + 1 /\ y \in 0..Len(t) /\ A[r + k] = SubSeq(t, x, y)
        BY <2>3, <2>5
      <4> HIDE DEF x, y
      <4>2. A[r + k][i] = t[x + i - 1]
        BY <3>1, <4>1, PartProperties
      <4> QED BY <4>2 DEF x
    <3>3. B[k][i] = d[a + i - 1]
      BY <2>4, <2>5, <3>1, PartProperties
    <3>4. a + i - 1 \in 1..Len(d) /\ c + a + i - 1 = c + (a + i - 1)
      BY <1>1, <2>1
    <3> QED BY <1>0, <3>2, <3>3, <3>4
  <2> QED BY <2>6, <2>7, SeqEqual
<1>9. Len(A) - Len(B) = r /\ Len(B) <= Len(A)
  BY <1>2, <1>3, <1>5
<1> QED BY <1>8, <1>9 DEF A, B

\* A sequence is a suffix if it is what another one ends with.
LEMMA SuffixProperties ==
    ASSUME NEW S, NEW s \in Seq(S), NEW t \in Seq(S)
    PROVE  IsSuffix(s, t) <=>
               /\ Len(s) <= Len(t)
               /\ \A i \in 1..Len(s) : t[Len(t) - Len(s) + i] = s[i]
<1> DEFINE rs == Reverse(s)
           rt == Reverse(t)
           n == Len(s)
           m == Len(t)
<1>1. n \in Nat /\ m \in Nat
  BY LenProperties
<1>2. \A i \in 1..n : s[i] \in S
  BY ElementOfSeq
<1>3. \A i \in 1..m : t[i] \in S
  BY ElementOfSeq
<1>4. /\ rs \in Seq(S) /\ Len(rs) = n
      /\ \A i \in 1..n : rs[i] = s[n - i + 1]
  <2>1. rs = [i \in 1..n |-> s[n - i + 1]]
    BY DEF Reverse
  <2>2. \A i \in 1..n : s[n - i + 1] \in S
    BY <1>1, <1>2
  <2> HIDE DEF rs, n
  <2> QED BY <1>1, <2>1, <2>2
<1>5. /\ rt \in Seq(S) /\ Len(rt) = m
      /\ \A i \in 1..m : rt[i] = t[m - i + 1]
  <2>1. rt = [i \in 1..m |-> t[m - i + 1]]
    BY DEF Reverse
  <2>2. \A i \in 1..m : t[m - i + 1] \in S
    BY <1>1, <1>3
  <2> HIDE DEF rt, m
  <2> QED BY <1>1, <2>1, <2>2
<1> HIDE DEF rs, rt
<1>6. IsSuffix(s, t) <=> n <= m /\ SubSeq(rs, 1, n) = SubSeq(rt, 1, n)
  BY <1>4, <1>5 DEF IsSuffix, IsPrefix, rs, rt
<1>7. SUFFICES ASSUME n <= m
               PROVE  SubSeq(rs, 1, n) = SubSeq(rt, 1, n) <=>
                          \A i \in 1..n : t[m - n + i] = s[i]
  BY <1>6
<1>8. SubSeq(rs, 1, n) = rs
  BY <1>4, SubSeqFull
<1>9. /\ SubSeq(rt, 1, n) \in Seq(S) /\ Len(SubSeq(rt, 1, n)) = n
      /\ \A i \in 1..n : SubSeq(rt, 1, n)[i] = t[m - i + 1]
  <2>1. \A i \in 1..n : rt[i] \in S
    BY <1>1, <1>3, <1>5, <1>7
  <2>2. /\ SubSeq(rt, 1, n) \in Seq(S)
        /\ Len(SubSeq(rt, 1, n)) = IF 1 <= n THEN n - 1 + 1 ELSE 0
        /\ \A i \in 1..n - 1 + 1 : SubSeq(rt, 1, n)[i] = rt[1 + i - 1]
    BY <1>1, <2>1, SubSeqProperties
  <2> HIDE DEF n, m
  <2> QED BY <1>1, <1>5, <1>7, <2>2
<1> HIDE DEF n, m
<1>10. rs = SubSeq(rt, 1, n) <=> \A i \in 1..n : s[n - i + 1] = t[m - i + 1]
  <2> DEFINE u == SubSeq(rt, 1, n)
  <2>1. /\ u \in Seq(S) /\ Len(u) = n
        /\ \A i \in 1..n : u[i] = t[m - i + 1]
    BY <1>9
  <2> HIDE DEF u
  <2>2. rs = u <=> \A i \in 1..n : rs[i] = u[i]
    <3>1. (\A i \in 1..n : rs[i] = u[i]) => rs = u
      BY <1>4, <2>1, SeqEqual
    <3> QED BY <3>1
  <2>3. (\A i \in 1..n : rs[i] = u[i])
            <=> (\A i \in 1..n : s[n - i + 1] = t[m - i + 1])
    <3>1. ASSUME NEW i \in 1..n
          PROVE  rs[i] = s[n - i + 1] /\ u[i] = t[m - i + 1]
      BY <1>4, <2>1
    <3> QED BY <3>1
  <2> QED BY <2>2, <2>3 DEF u
<1>11. (\A i \in 1..n : s[n - i + 1] = t[m - i + 1])
           <=> (\A i \in 1..n : t[m - n + i] = s[i])
  <2>1. ASSUME \A i \in 1..n : s[n - i + 1] = t[m - i + 1], NEW i \in 1..n
        PROVE  t[m - n + i] = s[i]
    <3>1. n - i + 1 \in 1..n /\ n - (n - i + 1) + 1 = i
          /\ m - (n - i + 1) + 1 = m - n + i
      BY <1>1
    <3> QED BY <2>1, <3>1
  <2>2. ASSUME \A i \in 1..n : t[m - n + i] = s[i], NEW i \in 1..n
        PROVE  s[n - i + 1] = t[m - i + 1]
    <3>1. n - i + 1 \in 1..n /\ m - n + (n - i + 1) = m - i + 1
      BY <1>1
    <3> QED BY <2>2, <3>1
  <2> QED BY <2>1, <2>2
<1> QED BY <1>8, <1>10, <1>11

\* A text without the separator is its own only part.
LEMMA OnePart ==
    ASSUME NEW t \in Seq(Symbol), NEW symbol,
           \A i \in 1..Len(t) : t[i] # symbol
    PROVE  /\ Cardinality(Stops(t, symbol)) = 1
           /\ Len(Split(t, symbol)) = 1
           /\ Last(Split(t, symbol)) = t
<1> DEFINE stops == Stops(t, symbol)
           parts == Split(t, symbol)
<1>1. Len(t) \in Nat
  BY LenProperties
<1>2. At(t, symbol) = {}
  BY LenProperties DEF At
<1>3. stops = {Len(t) + 1}
  BY <1>2 DEF Stops
<1>4. Cardinality(stops) = 1
  BY <1>3, FS_Singleton
<1>5. /\ Len(parts) = 1 /\ Nth(stops, 1) \in stops
      /\ parts[1] = SubSeq(t, Opening(stops, 1), Nth(stops, 1) - 1)
  <2>1. Len(parts) = 1
    BY <1>4, SplitParts
  <2>2. 1 \in 1..Len(parts)
    BY <2>1
  <2> QED BY <2>1, <2>2, SplitParts
<1> HIDE DEF stops, parts
<1>6. Nth(stops, 1) - 1 = Len(t) /\ Opening(stops, 1) = 1
  BY <1>1, <1>3, <1>5 DEF Opening
<1>7. parts[1] = t
  BY <1>5, <1>6, SubSeqFull
<1> QED BY <1>4, <1>5, <1>7 DEF Last, stops, parts

\* What is before a symbol: all symbols up to the first one of this kind.
LEMMA BeforeProperties ==
    ASSUME NEW t \in Seq(Symbol), NEW symbol
    PROVE  LET part == Before(t, symbol) IN
           /\ part \in Seq(Symbol) /\ Len(part) \in 0..Len(t)
           /\ part = SubSeq(t, 1, Len(part))
           /\ \A i \in 1..Len(part) : part[i] = t[i] /\ t[i] # symbol
           /\ Len(part) < Len(t) => t[Len(part) + 1] = symbol
<1> DEFINE part == Before(t, symbol)
           places == At(t, symbol)
<1>1. Len(t) \in Nat /\ DOMAIN t = 1..Len(t)
  BY LenProperties
<1>2. CASE places = {}
  <2>1. part = t
    BY <1>2 DEF Before
  <2>2. \A i \in 1..Len(t) : t[i] # symbol
    BY <1>1, <1>2 DEF At
  <2>3. SubSeq(t, 1, Len(t)) = t
    BY SubSeqFull
  <2> QED BY <1>1, <2>1, <2>2, <2>3
<1>3. CASE places # {}
  <2> DEFINE first == Min(places)
  <2>1. places \in SUBSET Nat /\ \A p \in places : p \in 1..Len(t) /\ t[p] = symbol
    BY <1>1 DEF At
  <2>2. \A i \in 1..Len(t) : t[i] = symbol => i \in places
    BY <1>1 DEF At
  <2> HIDE DEF places
  <2>3. first \in places /\ \A p \in places : first <= p
    BY <1>3, <2>1, MinProperties
  <2>4. part = SubSeq(t, 1, first - 1)
    BY <1>3 DEF Before, First, places
  <2> HIDE DEF part, first
  <2>5. first \in 1..Len(t) /\ first - 1 \in 0..Len(t) /\ t[first] = symbol
    BY <1>1, <2>1, <2>3
  <2>6. /\ part \in Seq(Symbol)
        /\ Len(part) = IF 1 <= first - 1 THEN first - 1 - 1 + 1 ELSE 0
        /\ \A i \in 1..first - 1 - 1 + 1 : part[i] = t[1 + i - 1]
    <3>1. 1 \in 1..Len(t) + 1
      BY <1>1
    <3> QED BY <2>4, <2>5, <3>1, PartProperties
  <2>7. Len(part) = first - 1
    BY <2>5, <2>6
  <2>8. \A i \in 1..Len(part) : part[i] = t[i]
    BY <2>5, <2>6, <2>7
  <2>9. ASSUME NEW i \in 1..Len(part)
        PROVE  t[i] # symbol
    <3>1. i \in 1..Len(t) /\ ~(first <= i)
      BY <1>1, <2>5, <2>7
    <3> QED BY <2>2, <2>3, <3>1
  <2>10. Len(part) + 1 = first
    BY <2>5, <2>7
  <2>11. Len(part) \in 0..Len(t)
    BY <2>5, <2>7
  <2> QED BY <2>4, <2>5, <2>6, <2>7, <2>8, <2>9, <2>10, <2>11 DEF part
<1> QED BY <1>2, <1>3

\* And it is determined by that.
LEMMA BeforeIs ==
    ASSUME NEW t \in Seq(Symbol), NEW symbol, NEW n \in 0..Len(t),
           \A i \in 1..n : t[i] # symbol,
           n < Len(t) => t[n + 1] = symbol
    PROVE  Before(t, symbol) = SubSeq(t, 1, n)
<1> DEFINE m == Len(Before(t, symbol))
<1>1. Len(t) \in Nat
  BY LenProperties
<1>2. /\ m \in 0..Len(t) /\ Before(t, symbol) = SubSeq(t, 1, m)
      /\ \A i \in 1..m : t[i] # symbol
      /\ m < Len(t) => t[m + 1] = symbol
  BY BeforeProperties
<1> HIDE DEF m
<1>3. ~(m < n)
  <2>1. m < n => m + 1 \in 1..n /\ m < Len(t)
    BY <1>1, <1>2
  <2> QED BY <1>2, <2>1
<1>4. ~(n < m)
  <2>1. n < m => n + 1 \in 1..m /\ n < Len(t)
    BY <1>1, <1>2
  <2> QED BY <1>2, <2>1
<1>5. m = n
  BY <1>1, <1>2, <1>3, <1>4
<1> QED BY <1>2, <1>5

\* Lower changes capitals only, into symbols that it does not change.
LEMMA LowerProperties ==
    ASSUME NEW t \in Seq(Symbol)
    PROVE  /\ Lower(t) \in Seq(Symbol) /\ Len(Lower(t)) = Len(t)
           /\ \A i \in 1..Len(t) :
                 /\ t[i] \notin DOMAIN Capital => Lower(t)[i] = t[i]
                 /\ t[i] \in DOMAIN Capital => Lower(t)[i] \in {"a", "b"}
           /\ Lower(Lower(t)) = Lower(t)
<1> DEFINE low == Lower(t)
<1>1. Len(t) \in Nat /\ DOMAIN t = 1..Len(t) /\ \A i \in 1..Len(t) : t[i] \in Symbol
  BY LenProperties
<1>2. /\ DOMAIN Capital = {"A", "B"}
      /\ Capital["A"] \in {"a", "b"} /\ Capital["B"] \in {"a", "b"}
  BY DEF Capital
<1> HIDE DEF Capital
<1>3. low = [p \in 1..Len(t) |-> IF t[p] \in DOMAIN Capital THEN Capital[t[p]]
                                 ELSE t[p]]
  BY <1>1 DEF Lower
<1> HIDE DEF low
<1>4. \A i \in 1..Len(t) :
          /\ low[i] \in Symbol
          /\ t[i] \notin DOMAIN Capital => low[i] = t[i]
          /\ t[i] \in DOMAIN Capital => low[i] \in {"a", "b"}
  <2> SUFFICES ASSUME NEW i \in 1..Len(t)
               PROVE  /\ low[i] \in Symbol
                      /\ t[i] \notin DOMAIN Capital => low[i] = t[i]
                      /\ t[i] \in DOMAIN Capital => low[i] \in {"a", "b"}
    OBVIOUS
  <2>1. low[i] = IF t[i] \in DOMAIN Capital THEN Capital[t[i]] ELSE t[i]
    BY <1>3
  <2>2. CASE t[i] \in DOMAIN Capital
    <3>1. low[i] = Capital[t[i]]
      BY <2>1, <2>2
    <3>2. t[i] = "A" \/ t[i] = "B"
      BY <1>2, <2>2
    <3>3. low[i] \in {"a", "b"}
      BY <1>2, <3>1, <3>2
    <3>4. "a" \in Symbol /\ "b" \in Symbol
      BY DEF Symbol
    <3>5. low[i] \in Symbol
      BY <3>3, <3>4
    <3> QED BY <2>2, <3>3, <3>5
  <2>3. CASE t[i] \notin DOMAIN Capital
    <3>1. low[i] = t[i]
      BY <2>1, <2>3
    <3> QED BY <1>1, <2>3, <3>1
  <2> QED BY <2>2, <2>3
<1>5. low \in Seq(Symbol) /\ Len(low) = Len(t) /\ DOMAIN low = 1..Len(t)
  BY <1>1, <1>3, <1>4
<1>6. \A i \in 1..Len(t) : low[i] \notin DOMAIN Capital
  BY <1>2, <1>4
<1>7. Lower(low) = low
  <2>1. Lower(low) = [p \in 1..Len(t) |-> low[p]]
    BY <1>5, <1>6 DEF Lower
  <2> QED BY <1>3, <2>1
<1> QED BY <1>4, <1>5, <1>7 DEF low

----------------------------------------------------------------------------
(* The parts of a URL *)

\* The two parts of a URL that follow its scheme, and its host.
AuthorityOf(url) == Before(Tail(url), "/")
PathOf(url) ==
    SubSeq(Tail(url), Len(AuthorityOf(url)) + 1, Len(Tail(url)))
HostPart(url) == HostIn(AuthorityOf(url))

\* The canonical URL of a host and a path, and what it divides into.
UrlOf(host, path) == <<Scheme>> \o host \o path
Page(host, path) ==
    [userinfo |-> FALSE, host |-> host, port |-> <<"443">>,
     rest |-> Decoded(path)]

\* The host and the path of a URL that is admitted.
RightParts(host, path) ==
    /\ host \in Seq(Symbol) /\ path \in Seq(Symbol)
    /\ HostIsRight(host) /\ Lower(host) = host
    /\ path # <<>> /\ path[1] = "/" /\ PathIsRight(path)
    /\ \A i \in 1..Len(path) : path[i] \notin {"#", " ", "\t", "\\"}
    /\ 1 + Len(host) + Len(path) <= URL_CAP

\* What no host contains.
NoHostSymbol == {":", "/", "?", "@", "#", "[", " ", "\t", "\\"}

\* A host that is right has labels of host symbols, and dots.
LEMMA RightHost ==
    ASSUME NEW host \in Seq(Symbol), HostIsRight(host)
    PROVE  /\ host # <<>>
           /\ \A i \in 1..Len(host) : host[i] \notin NoHostSymbol
<1>0. Len(Labels(host)) >= 2
  BY DEF HostIsRight
<1>1. /\ Len(Labels(host)) >= 2
      /\ \A k \in DOMAIN Labels(host) : LabelIsRight(Labels(host)[k])
  BY DEF HostIsRight
<1>2. /\ Labels(host) \in Seq(Seq(Symbol))
      /\ DOMAIN Labels(host) = 1..Len(Labels(host))
  <2>1. Labels(host) \in Seq(Seq(Symbol))
    BY SplitParts DEF Labels
  <2> QED BY <2>1, LenProperties
<1>3. host # <<>>
  <2> SUFFICES ASSUME host = <<>>
               PROVE  FALSE
    OBVIOUS
  <2>1. Len(host) = 0
    OBVIOUS
  <2>2. \A i \in 1..Len(host) : host[i] # "."
    BY <2>1
  <2>3. Len(Labels(host)) = 1
    BY <2>2, OnePart DEF Labels
  <2>4. ~(1 >= 2)
    OBVIOUS
  <2> QED BY <1>0, <2>3, <2>4
<1>4. ASSUME NEW i \in 1..Len(host), host[i] # "."
      PROVE  host[i] \in HostSymbols
  <2> DEFINE labels == Labels(host)
  <2>0. labels = Split(host, ".")
    BY DEF Labels
  <2>9. \E k \in 1..Len(Split(host, ".")) :
            \E j \in 1..Len(Split(host, ".")[k]) : Split(host, ".")[k][j] = host[i]
    BY <1>4, SymbolIsInAPart
  <2>1. PICK k \in 1..Len(Labels(host)) :
            \E j \in 1..Len(Labels(host)[k]) : Labels(host)[k][j] = host[i]
    <3> HIDE DEF labels
    <3> QED BY <2>0, <2>9 DEF labels
  <2>2. PICK j \in 1..Len(Labels(host)[k]) : Labels(host)[k][j] = host[i]
    BY <2>1
  <2>3. Labels(host)[k] \in Seq(Symbol)
    BY <1>2, ElementOfSeq
  <2>4. DOMAIN Labels(host)[k] = 1..Len(Labels(host)[k])
    BY <2>3, LenProperties
  <2>5. LabelIsRight(Labels(host)[k])
    BY <1>1, <1>2
  <2> QED BY <2>2, <2>4, <2>5 DEF LabelIsRight
<1>5. /\ HostSymbols \cap NoHostSymbol = {}
      /\ "." \notin NoHostSymbol
  BY DEF HostSymbols, NoHostSymbol, Small, Capital, Digits
<1> QED BY <1>3, <1>4, <1>5

\* What _url_parts takes out of an authority for the host.
LEMMA HostInAuthority ==
    ASSUME NEW authority \in Seq(Symbol)
    PROVE  /\ HostIn(authority) \in Seq(Symbol)
           /\ Len(HostIn(authority)) <= Len(authority)
           /\ Lower(HostIn(authority)) = HostIn(authority)
<1> DEFINE colons == At(authority, ":")
           raw == IF colons = {} THEN authority
                  ELSE SubSeq(authority, 1, Max(colons) - 1)
<1>1. Len(authority) \in Nat /\ DOMAIN authority = 1..Len(authority)
  BY LenProperties
<1>2. raw \in Seq(Symbol) /\ Len(raw) <= Len(authority)
  <2>1. CASE colons = {}
    BY <1>1, <2>1
  <2>2. CASE colons # {}
    <3>1. colons \in SUBSET (0..Len(authority)) /\ \A p \in colons : p \in 1..Len(authority)
      BY <1>1 DEF At
    <3> DEFINE last == Max(colons)
    <3>2. last \in colons
      <4> HIDE DEF colons
      <4> QED BY <1>1, <2>2, <3>1, MaxProperties
    <3>3. last \in 1..Len(authority)
      BY <3>1, <3>2
    <3>4. raw = SubSeq(authority, 1, last - 1)
      BY <2>2
    <3> HIDE DEF last, raw
    <3>5. last - 1 \in 0..Len(authority) /\ 1 \in 1..Len(authority) + 1
      BY <1>1, <3>3
    <3>6. /\ raw \in Seq(Symbol)
          /\ Len(raw) = IF 1 <= last - 1 THEN last - 1 - 1 + 1 ELSE 0
      BY <3>4, <3>5, PartProperties
    <3> QED BY <1>1, <3>3, <3>6
  <2> QED BY <2>1, <2>2
<1>3. HostIn(authority) = Lower(raw)
  BY DEF HostIn
<1> HIDE DEF raw
<1> QED BY <1>2, <1>3, LowerProperties

\* The text behind the first symbol.
LEMMA TailParts ==
    ASSUME NEW t \in Seq(Symbol), t # <<>>
    PROVE  /\ Tail(t) \in Seq(Symbol) /\ Len(Tail(t)) = Len(t) - 1
           /\ Len(t) \in Nat \ {0}
           /\ \A i \in 1..Len(Tail(t)) : Tail(t)[i] = t[i + 1]
<1>1. Len(t) \in Nat \ {0}
  BY EmptySeq, LenProperties
<1> QED BY <1>1, HeadTailProperties

\* What is between a part of a text and its end.
LEMMA RestParts ==
    ASSUME NEW t \in Seq(Symbol), NEW n \in 0..Len(t)
    PROVE  LET part == SubSeq(t, n + 1, Len(t)) IN
           /\ part \in Seq(Symbol) /\ Len(part) = Len(t) - n
           /\ \A i \in 1..Len(part) : n + i \in 1..Len(t) /\ part[i] = t[n + i]
<1> DEFINE part == SubSeq(t, n + 1, Len(t))
           a == n + 1
<1>1. Len(t) \in Nat
  BY LenProperties
<1>2. a \in 1..Len(t) + 1 /\ Len(t) \in 0..Len(t)
  BY <1>1
<1>3. /\ part \in Seq(Symbol)
      /\ Len(part) = IF a <= Len(t) THEN Len(t) - a + 1 ELSE 0
      /\ \A i \in 1..Len(t) - a + 1 : part[i] = t[a + i - 1]
  <2> HIDE DEF a
  <2>1. part = SubSeq(t, a, Len(t))
    BY DEF a
  <2> HIDE DEF part
  <2> QED BY <1>2, <2>1, PartProperties
<1> HIDE DEF part
<1>4. Len(part) = Len(t) - n
  BY <1>1, <1>3
<1>5. \A i \in 1..Len(part) :
          n + i \in 1..Len(t) /\ i \in 1..Len(t) - a + 1 /\ a + i - 1 = n + i
  BY <1>1, <1>4
<1> QED BY <1>3, <1>4, <1>5 DEF part

\* A URL that is admitted, condition by condition.
LEMMA AdmittedUrl ==
    ASSUME NEW url, CanonicalUrl(url) # Refused
    PROVE  LET rest == Tail(url)
               authority == AuthorityOf(url)
               path == PathOf(url)
           IN  /\ url # <<>> /\ ~(Len(url) > URL_CAP)
               /\ ~Has(url, Unprintable \cup {"\\"})
               /\ url[1] = Scheme
               /\ ~Has(rest, {"#"})
               /\ authority # <<>> /\ path # <<>>
               /\ AuthorityIsRight(authority) /\ PortIsRight(authority)
               /\ HostIsRight(HostPart(url)) /\ PathIsRight(path)
               /\ CanonicalUrl(url) = UrlOf(HostPart(url), path)
BY DEF CanonicalUrl, AuthorityOf, PathOf, HostPart, UrlOf

\* Conversely, these conditions admit a URL.
LEMMA AdmissionOf ==
    ASSUME NEW url, url # <<>>, ~(Len(url) > URL_CAP),
           ~Has(url, Unprintable \cup {"\\"}), url[1] = Scheme,
           ~Has(Tail(url), {"#"}), AuthorityOf(url) # <<>>, PathOf(url) # <<>>,
           AuthorityIsRight(AuthorityOf(url)), PortIsRight(AuthorityOf(url)),
           HostIsRight(HostPart(url)), PathIsRight(PathOf(url))
    PROVE  CanonicalUrl(url) = UrlOf(HostPart(url), PathOf(url))
BY DEF CanonicalUrl, AuthorityOf, PathOf, HostPart, UrlOf

\* The host of an admitted URL and its path are right, and the generic syntax
\* divides the URL into them too.
LEMMA AdmittedParts ==
    ASSUME NEW url \in Seq(Symbol), CanonicalUrl(url) # Refused
    PROVE  /\ RightParts(HostPart(url), PathOf(url))
           /\ CanonicalUrl(url) = UrlOf(HostPart(url), PathOf(url))
           /\ Generic(url) = Page(HostPart(url), PathOf(url))
<1> DEFINE rest == Tail(url)
           authority == AuthorityOf(url)
           path == PathOf(url)
           host == HostPart(url)
           n == Len(authority)
<1>1. /\ url # <<>> /\ ~(Len(url) > URL_CAP)
      /\ ~Has(url, Unprintable \cup {"\\"})
      /\ ~Has(rest, {"#"})
      /\ authority # <<>> /\ path # <<>>
      /\ AuthorityIsRight(authority) /\ PortIsRight(authority)
      /\ HostIsRight(host) /\ PathIsRight(path)
      /\ CanonicalUrl(url) = UrlOf(host, path)
  BY AdmittedUrl
<1>2. /\ rest \in Seq(Symbol) /\ Len(rest) = Len(url) - 1
      /\ Len(url) \in Nat \ {0}
      /\ \A i \in 1..Len(rest) : rest[i] = url[i + 1]
  BY <1>1, TailParts
<1>3. \A i \in 1..Len(url) : url[i] \notin {" ", "\t", "\\"}
  BY <1>1, LenProperties DEF Has, Unprintable
<1>4. \A i \in 1..Len(rest) : rest[i] \notin {"#", " ", "\t", "\\"}
  <2>1. \A i \in 1..Len(rest) : rest[i] # "#"
    BY <1>1, <1>2, LenProperties DEF Has
  <2>2. \A i \in 1..Len(rest) : i + 1 \in 1..Len(url)
    BY <1>2
  <2> QED BY <1>2, <1>3, <2>1, <2>2
<1> HIDE DEF rest
<1>5. /\ authority \in Seq(Symbol) /\ n \in 0..Len(rest)
      /\ authority = SubSeq(rest, 1, n)
      /\ \A i \in 1..n : authority[i] = rest[i] /\ rest[i] # "/"
      /\ n < Len(rest) => rest[n + 1] = "/"
  BY <1>2, BeforeProperties DEF AuthorityOf, rest
<1>6. path = SubSeq(rest, n + 1, Len(rest))
  BY DEF PathOf, rest
<1>7. host = HostIn(authority)
  BY DEF HostPart
<1> HIDE DEF authority, path, host, n
<1>8. /\ path \in Seq(Symbol) /\ Len(path) = Len(rest) - n
      /\ \A i \in 1..Len(path) : n + i \in 1..Len(rest) /\ path[i] = rest[n + i]
  BY <1>2, <1>5, <1>6, RestParts
<1>9. n < Len(rest) /\ path[1] = "/" /\ rest[n + 1] = "/" /\ Len(rest) \in Nat
  <2>1. Len(path) # 0 /\ Len(path) \in Nat
    BY <1>1, <1>8, EmptySeq, LenProperties
  <2>2. n < Len(rest) /\ Len(rest) \in Nat
    BY <1>2, <1>5, <1>8, <2>1
  <2>3. path[1] = rest[n + 1]
    BY <1>8, <2>1
  <2> QED BY <1>5, <2>2, <2>3
<1>10. \A i \in 1..Len(path) : path[i] \notin {"#", " ", "\t", "\\"}
  BY <1>4, <1>8
<1>11. /\ host \in Seq(Symbol) /\ Len(host) <= n /\ Lower(host) = host
       /\ Len(host) \in Nat
  BY <1>5, <1>7, HostInAuthority, LenProperties DEF n
<1>12. RightParts(host, path)
  <2>1. 1 + Len(host) + Len(path) <= URL_CAP
    BY <1>1, <1>2, <1>5, <1>8, <1>11, InputsAssumption
  <2> QED BY <1>1, <1>8, <1>9, <1>10, <1>11, <2>1 DEF RightParts
<1>13. \A i \in 1..n : authority[i] \notin {"?", "@", "#", "/"}
  <2>1. \A i \in 1..n : authority[i] \notin {"?", "@"}
    BY <1>1, <1>5, LenProperties DEF AuthorityIsRight, Has, n
  <2>2. \A i \in 1..n : i \in 1..Len(rest)
    BY <1>5, <1>9
  <2> QED BY <1>4, <1>5, <2>1, <2>2
<1>14. Generic(url) = Page(host, path)
  <2> DEFINE ends == UNION {At(rest, s) : s \in {"/", "?", "#"}}
             stops == ends \cup {Len(rest) + 1}
             host_port == Last(Split(authority, "@"))
             colon == Max(At(host_port, ":") \cup {0})
  <2>1. Min(stops) = n + 1
    <3>1. stops \in SUBSET Nat
      BY <1>2, <1>9, LenProperties DEF At
    <3>2. n + 1 \in stops
      BY <1>2, <1>5, <1>9, LenProperties DEF At
    <3>3. \A p \in stops : n + 1 <= p
      <4> SUFFICES ASSUME NEW p \in stops
                   PROVE  n + 1 <= p
        OBVIOUS
      <4>1. CASE p = Len(rest) + 1
        BY <1>5, <1>9, <4>1
      <4>2. CASE p \in ends
        <5>1. p \in 1..Len(rest) /\ rest[p] \in {"/", "?", "#"}
          BY <1>2, <4>2, LenProperties DEF At
        <5>2. p \notin 1..n
          BY <1>5, <1>13, <5>1
        <5> QED BY <1>5, <5>1, <5>2
      <4> QED BY <4>1, <4>2
    <3>6. \A p \in stops : p \in Nat
      BY <3>1
    <3> HIDE DEF stops
    <3>4. Min(stops) \in stops /\ \A p \in stops : Min(stops) <= p
      BY <3>1, <3>2, MinProperties
    <3>5. Min(stops) \in Nat /\ n + 1 \in Nat
      BY <3>2, <3>4, <3>6
    <3> QED BY <3>2, <3>3, <3>4, <3>5
  <2>2. SubSeq(rest, 1, Min(stops) - 1) = authority
    <3>1. Min(stops) - 1 = n
      BY <1>5, <1>9, <2>1
    <3> QED BY <1>5, <3>1
  <2>3. host_port = authority
    BY <1>5, <1>13, OnePart DEF n
  <2>4. Has(authority, {"@"}) = FALSE
    BY <1>5, <1>13, LenProperties DEF Has, n
  <2>5. path = SubSeq(rest, Len(authority) + 1, Len(rest))
    BY <1>6 DEF n
  <2>6. Generic(url) =
           [userinfo |-> Has(authority, {"@"}),
            host |-> Lower(IF colon = 0 THEN authority
                           ELSE SubSeq(authority, 1, colon - 1)),
            port |-> IF colon = 0 THEN <<"443">>
                     ELSE SubSeq(authority, colon + 1, Len(authority)),
            rest |-> Decoded(path)]
    <3>1. At(path, "#") = {}
      BY <1>8, <1>10, LenProperties DEF At
    <3>2. Before(path, "#") = path
      BY <3>1 DEF Before
    <3> QED BY <2>2, <2>3, <2>5, <3>2 DEF Generic, rest
  <2> DEFINE colons == At(authority, ":")
             last == Max(colons)
  <2>7. colons \in SUBSET (0..n) /\ (\A p \in colons : p \in 1..n) /\ n \in Nat
    BY <1>5, LenProperties DEF At, n
  <2>8. CASE colons = {}
    <3>1. colon = 0
      <4>1. {} \cup {0} = {0} /\ {0} \in SUBSET (0..n) /\ {0} # {}
        BY <2>7
      <4>2. Max({0}) \in {0}
        BY <2>7, <4>1, MaxProperties
      <4> QED BY <2>3, <2>8, <4>1, <4>2
    <3>2. host = Lower(authority)
      BY <1>7, <2>8 DEF HostIn
    <3> HIDE DEF colon
    <3>3. /\ Lower(IF colon = 0 THEN authority
                   ELSE SubSeq(authority, 1, colon - 1)) = host
          /\ (IF colon = 0 THEN <<"443">>
              ELSE SubSeq(authority, colon + 1, Len(authority))) = <<"443">>
      BY <3>1, <3>2
    <3> QED BY <2>4, <2>6, <3>3 DEF Page
  <2>9. CASE colons # {}
    <3>1. colon = last /\ last \in 1..n
      <4> HIDE DEF colons
      <4>1. last \in colons /\ \A x \in colons : x <= last
        BY <2>7, <2>9, MaxProperties DEF last
      <4>7. last \in 1..n
        BY <2>7, <4>1
      <4> HIDE DEF last
      <4> DEFINE with == colons \cup {0}
      <4>2. with \in SUBSET (0..n) /\ with # {} /\ last \in with
        BY <2>7, <4>1
      <4>6. \A x \in with : x \in Nat /\ x <= last
        <5>1. \A x \in colons : x \in Nat /\ x <= last
          BY <2>7, <4>1
        <5>2. 0 <= last
          BY <2>7, <4>7
        <5> QED BY <5>1, <5>2
      <4>3. colon = Max(with)
        BY <2>3 DEF colons
      <4> HIDE DEF with, last, colon
      <4>4. Max(with) \in with /\ \A x \in with : x <= Max(with)
        BY <2>7, <4>2, MaxProperties
      <4>5. colon = last
        <5>1. Max(with) <= last /\ last <= Max(with)
          BY <4>2, <4>4, <4>6
        <5>2. Max(with) \in Nat /\ last \in Nat
          BY <4>2, <4>4, <4>6
        <5> QED BY <4>3, <5>1, <5>2
      <4> QED BY <4>5, <4>7
    <3>2. host = Lower(SubSeq(authority, 1, last - 1))
      BY <1>7, <2>9 DEF HostIn
    <3>3. SubSeq(authority, last + 1, Len(authority)) = <<"443">>
      BY <1>1, <2>9 DEF PortIsRight
    <3> HIDE DEF colon, last
    <3>4. colon # 0 /\ colon = last
      BY <3>1
    <3>5. /\ Lower(IF colon = 0 THEN authority
                   ELSE SubSeq(authority, 1, colon - 1)) = host
          /\ (IF colon = 0 THEN <<"443">>
              ELSE SubSeq(authority, colon + 1, Len(authority))) = <<"443">>
      BY <3>2, <3>3, <3>4
    <3> QED BY <2>4, <2>6, <3>5 DEF Page
  <2> QED BY <2>8, <2>9
<1> QED BY <1>1, <1>12, <1>14 DEF host, path

\* Two texts, one behind the other.
LEMMA ConcatParts ==
    ASSUME NEW s \in Seq(Symbol), NEW t \in Seq(Symbol)
    PROVE  /\ s \o t \in Seq(Symbol) /\ Len(s \o t) = Len(s) + Len(t)
           /\ Len(s) \in Nat /\ Len(t) \in Nat
           /\ \A i \in 1..Len(s) : (s \o t)[i] = s[i]
           /\ \A i \in 1..Len(t) : (s \o t)[Len(s) + i] = t[i]
<1>1. Len(s) \in Nat /\ Len(t) \in Nat
  BY LenProperties
<1>2. /\ s \o t \in Seq(Symbol) /\ Len(s \o t) = Len(s) + Len(t)
      /\ \A i \in 1..Len(s) + Len(t) :
            (s \o t)[i] = IF i <= Len(s) THEN s[i] ELSE t[i - Len(s)]
  BY ConcatProperties
<1>3. \A i \in 1..Len(s) : i \in 1..Len(s) + Len(t) /\ i <= Len(s)
  BY <1>1
<1>4. \A i \in 1..Len(t) : /\ Len(s) + i \in 1..Len(s) + Len(t)
                           /\ ~(Len(s) + i <= Len(s)) /\ Len(s) + i - Len(s) = i
  BY <1>1
<1> QED BY <1>1, <1>2, <1>3, <1>4

\* The canonical URL of a host and a path divides into them again.
LEMMA PartsOfUrl ==
    ASSUME NEW host \in Seq(Symbol), NEW path \in Seq(Symbol),
           \A i \in 1..Len(host) : host[i] \notin NoHostSymbol,
           path # <<>>, path[1] = "/", Lower(host) = host
    PROVE  LET url == UrlOf(host, path) IN
           /\ url \in Seq(Symbol) /\ Len(url) = 1 + Len(host) + Len(path)
           /\ url # <<>> /\ url[1] = Scheme /\ Tail(url) = host \o path
           /\ AuthorityOf(url) = host /\ PathOf(url) = path
           /\ HostPart(url) = host /\ HostOf(url) = host
<1> DEFINE url == UrlOf(host, path)
           rest == host \o path
           front == <<Scheme>> \o host
           h == Len(host)
<1>1. h \in Nat /\ Len(path) \in Nat \ {0}
  BY EmptySeq, LenProperties
<1>2. <<Scheme>> \in Seq(Symbol) /\ Len(<<Scheme>>) = 1
  <2>1. Scheme \in Symbol
    BY DEF Symbol
  <2> HIDE DEF Scheme
  <2> QED BY <2>1
<1>3. /\ front \in Seq(Symbol) /\ Len(front) = 1 + h
      /\ front[1] = Scheme /\ \A i \in 1..h : front[1 + i] = host[i]
  <2>1. /\ <<Scheme>> \o host \in Seq(Symbol) /\ Len(<<Scheme>> \o host) = Len(<<Scheme>>) + h
        /\ \A i \in 1..Len(<<Scheme>>) : (<<Scheme>> \o host)[i] = <<Scheme>>[i]
        /\ \A i \in 1..h : (<<Scheme>> \o host)[Len(<<Scheme>>) + i] = host[i]
    BY <1>2, ConcatParts
  <2>2. 1 \in 1..Len(<<Scheme>>) /\ <<Scheme>>[1] = Scheme
    BY <1>2
  <2> QED BY <1>2, <2>1, <2>2
<1>4. url = front \o path
  BY DEF UrlOf
<1> HIDE DEF front, url
<1>5. /\ url \in Seq(Symbol) /\ Len(url) = 1 + h + Len(path)
      /\ \A i \in 1..1 + h : url[i] = front[i]
      /\ \A i \in 1..Len(path) : url[1 + h + i] = path[i]
  <2>1. /\ front \o path \in Seq(Symbol)
        /\ Len(front \o path) = Len(front) + Len(path)
        /\ \A i \in 1..Len(front) : (front \o path)[i] = front[i]
        /\ \A i \in 1..Len(path) : (front \o path)[Len(front) + i] = path[i]
    BY <1>3, ConcatParts
  <2> QED BY <1>3, <1>4, <2>1
<1>6. url # <<>> /\ url[1] = Scheme
  <2>1. 1 \in 1..1 + h /\ Len(url) # 0
    BY <1>1, <1>5
  <2> QED BY <1>3, <1>5, <2>1, EmptySeq
<1>7. /\ rest \in Seq(Symbol) /\ Len(rest) = h + Len(path)
      /\ \A i \in 1..h : rest[i] = host[i]
      /\ \A i \in 1..Len(path) : rest[h + i] = path[i]
  BY ConcatParts
<1> HIDE DEF rest
<1>8. Tail(url) = rest
  <2>1. /\ Tail(url) \in Seq(Symbol) /\ Len(Tail(url)) = h + Len(path)
        /\ \A i \in 1..Len(Tail(url)) : Tail(url)[i] = url[i + 1]
    BY <1>1, <1>5, <1>6, TailParts
  <2>2. ASSUME NEW i \in 1..h + Len(path)
        PROVE  Tail(url)[i] = rest[i]
    <3>1. CASE i <= h
      <4>1. i \in 1..h /\ i + 1 \in 1..1 + h /\ i + 1 = 1 + i
        BY <1>1, <3>1
      <4> QED BY <1>3, <1>5, <1>7, <2>1, <4>1
    <3>2. CASE ~(i <= h)
      <4>1. i - h \in 1..Len(path) /\ i + 1 = 1 + h + (i - h) /\ i = h + (i - h)
        BY <1>1, <3>2
      <4>2. url[1 + h + (i - h)] = path[i - h] /\ rest[h + (i - h)] = path[i - h]
        BY <1>5, <1>7, <4>1
      <4> QED BY <2>1, <4>1, <4>2
    <3> QED BY <3>1, <3>2
  <2> QED BY <1>7, <2>1, <2>2, SeqEqual
<1>9. SubSeq(rest, 1, h) = host
  <2>1. h \in 0..Len(rest) /\ 1 \in 1..Len(rest) + 1
    BY <1>1, <1>7
  <2>2. /\ SubSeq(rest, 1, h) \in Seq(Symbol)
        /\ Len(SubSeq(rest, 1, h)) = IF 1 <= h THEN h - 1 + 1 ELSE 0
        /\ \A i \in 1..h - 1 + 1 : SubSeq(rest, 1, h)[i] = rest[1 + i - 1]
    BY <1>7, <2>1, PartProperties
  <2>3. Len(SubSeq(rest, 1, h)) = h /\ \A i \in 1..h : SubSeq(rest, 1, h)[i] = host[i]
    BY <1>1, <1>7, <2>2
  <2> QED BY <2>2, <2>3, SeqEqual
<1>10. AuthorityOf(url) = host
  <2>1. \A i \in 1..h : rest[i] # "/"
    BY <1>7 DEF NoHostSymbol
  <2>2. h \in 0..Len(rest) /\ rest[h + 1] = "/"
    BY <1>1, <1>7
  <2>3. Before(rest, "/") = SubSeq(rest, 1, h)
    BY <1>7, <2>1, <2>2, BeforeIs
  <2> QED BY <1>8, <1>9, <2>3 DEF AuthorityOf
<1>11. PathOf(url) = path
  <2>1. PathOf(url) = SubSeq(rest, h + 1, Len(rest))
    BY <1>8, <1>10 DEF PathOf
  <2>2. h \in 0..Len(rest)
    BY <1>1, <1>7
  <2>3. /\ SubSeq(rest, h + 1, Len(rest)) \in Seq(Symbol)
        /\ Len(SubSeq(rest, h + 1, Len(rest))) = Len(rest) - h
        /\ \A i \in 1..Len(SubSeq(rest, h + 1, Len(rest))) :
              SubSeq(rest, h + 1, Len(rest))[i] = rest[h + i]
    BY <1>7, <2>2, RestParts
  <2>4. Len(rest) - h = Len(path)
    BY <1>1, <1>7
  <2> QED BY <1>7, <2>1, <2>3, <2>4, SeqEqual
<1>12. At(host, ":") = {}
  BY LenProperties DEF At, NoHostSymbol
<1>13. HostPart(url) = host
  BY <1>10, <1>12 DEF HostPart, HostIn
<1>14. HostOf(url) = host
  <2>1. Before(host, ":") = host
    BY <1>12 DEF Before
  <2> QED BY <1>10, <2>1 DEF HostOf, AuthorityOf
<1> QED BY <1>5, <1>6, <1>8, <1>10, <1>11, <1>13, <1>14 DEF url, rest, h

\* A URL of a right host and a right path is admitted as it is.
LEMMA PartsAdmitted ==
    ASSUME NEW host, NEW path, RightParts(host, path)
    PROVE  LET url == UrlOf(host, path) IN
           /\ url \in Seq(Symbol) /\ CanonicalUrl(url) = url
           /\ HostPart(url) = host /\ PathOf(url) = path /\ HostOf(url) = host
<1> DEFINE url == UrlOf(host, path)
           rest == host \o path
<1>1. /\ host \in Seq(Symbol) /\ path \in Seq(Symbol)
      /\ HostIsRight(host) /\ Lower(host) = host
      /\ path # <<>> /\ path[1] = "/" /\ PathIsRight(path)
      /\ \A i \in 1..Len(path) : path[i] \notin {"#", " ", "\t", "\\"}
      /\ 1 + Len(host) + Len(path) <= URL_CAP
  BY DEF RightParts
<1>2. host # <<>> /\ \A i \in 1..Len(host) : host[i] \notin NoHostSymbol
  BY <1>1, RightHost
<1>3. /\ url \in Seq(Symbol) /\ Len(url) = 1 + Len(host) + Len(path)
      /\ url # <<>> /\ url[1] = Scheme /\ Tail(url) = rest
      /\ AuthorityOf(url) = host /\ PathOf(url) = path
      /\ HostPart(url) = host /\ HostOf(url) = host
  BY <1>1, <1>2, PartsOfUrl
<1>4. /\ rest \in Seq(Symbol) /\ Len(rest) = Len(host) + Len(path)
      /\ Len(host) \in Nat /\ Len(path) \in Nat
      /\ \A i \in 1..Len(host) : rest[i] = host[i]
      /\ \A i \in 1..Len(path) : rest[Len(host) + i] = path[i]
  BY <1>1, ConcatParts
<1> HIDE DEF rest, url
<1>5. \A i \in 1..Len(rest) : rest[i] \notin {"#", " ", "\t", "\\"}
  <2> SUFFICES ASSUME NEW i \in 1..Len(rest)
               PROVE  rest[i] \notin {"#", " ", "\t", "\\"}
    OBVIOUS
  <2>1. CASE i <= Len(host)
    <3>1. i \in 1..Len(host)
      BY <1>4, <2>1
    <3> QED BY <1>2, <1>4, <3>1 DEF NoHostSymbol
  <2>2. CASE ~(i <= Len(host))
    <3>1. i - Len(host) \in 1..Len(path) /\ Len(host) + (i - Len(host)) = i
      BY <1>4, <2>2
    <3>2. rest[Len(host) + (i - Len(host))] = path[i - Len(host)]
      BY <1>4, <3>1
    <3> QED BY <1>1, <3>1, <3>2
  <2> QED BY <2>1, <2>2
<1>6. ~Has(rest, {"#"})
  BY <1>4, <1>5, LenProperties DEF Has
<1>7. ~Has(url, Unprintable \cup {"\\"})
  <2>1. ASSUME NEW i \in 1..Len(url)
        PROVE  url[i] \notin {" ", "\t", "\\"}
    <3>1. CASE i = 1
      BY <1>3, <3>1 DEF Scheme
    <3>2. CASE i # 1
      <4>1. i - 1 \in 1..Len(rest) /\ i - 1 + 1 = i
        BY <1>3, <1>4, <3>2
      <4>2. rest[i - 1] = url[i - 1 + 1]
        BY <1>3, <4>1, TailParts
      <4> QED BY <1>5, <4>1, <4>2
    <3> QED BY <3>1, <3>2
  <2> QED BY <1>3, <2>1, LenProperties DEF Has, Unprintable
<1>8. AuthorityIsRight(host)
  <2>1. ~Has(host, {"?", "@"})
    BY <1>1, <1>2, LenProperties DEF Has, NoHostSymbol
  <2>2. 1 \in 1..Len(host)
    <3>1. Len(host) # 0 /\ Len(host) \in Nat
      BY <1>1, <1>2, EmptySeq, LenProperties
    <3> QED BY <3>1
  <2>3. host[1] # "["
    BY <1>2, <2>2 DEF NoHostSymbol
  <2> QED BY <2>1, <2>3 DEF AuthorityIsRight
<1>9. PortIsRight(host)
  <2>1. At(host, ":") = {}
    BY <1>1, <1>2, LenProperties DEF At, NoHostSymbol
  <2> QED BY <2>1 DEF PortIsRight
<1>10. ~(Len(url) > URL_CAP)
  <2>1. URL_CAP \in Nat
    BY InputsAssumption
  <2>2. Len(url) = 1 + Len(host) + Len(path)
    BY <1>3
  <2>3. 1 + Len(host) + Len(path) <= URL_CAP
    BY <1>1
  <2>4. Len(host) \in Nat /\ Len(path) \in Nat
    BY <1>4
  <2> QED BY <2>1, <2>2, <2>3, <2>4
<1>11. CanonicalUrl(url) = UrlOf(HostPart(url), PathOf(url))
  BY <1>1, <1>2, <1>3, <1>6, <1>7, <1>8, <1>9, <1>10, AdmissionOf
<1>12. CanonicalUrl(url) = url
  BY <1>3, <1>11 DEF url
<1> QED BY <1>3, <1>12 DEF url

\* A URL that is admitted as it is, is the URL of its host and path, and both
\* ways of taking the host out of it agree.
LEMMA CanonicalParts ==
    ASSUME NEW url \in Seq(Symbol), url # Refused, CanonicalUrl(url) = url
    PROVE  /\ RightParts(HostPart(url), PathOf(url))
           /\ url = UrlOf(HostPart(url), PathOf(url))
           /\ Generic(url) = Page(HostPart(url), PathOf(url))
           /\ HostOf(url) = HostPart(url)
<1> DEFINE host == HostPart(url)
           path == PathOf(url)
<1>1. /\ RightParts(host, path) /\ url = UrlOf(host, path)
      /\ Generic(url) = Page(host, path)
  BY AdmittedParts
<1>2. HostOf(UrlOf(host, path)) = host
  <2> HIDE DEF host, path
  <2> QED BY <1>1, PartsAdmitted
<1> QED BY <1>1, <1>2

\* A URL that is admitted is advised in a form that is admitted as it is and
\* that names the same page.
LEMMA AdvisedForm ==
    ASSUME NEW url \in Seq(Symbol), CanonicalUrl(url) # Refused
    PROVE  LET advised == CanonicalUrl(url) IN
           /\ advised \in Seq(Symbol) /\ CanonicalUrl(advised) = advised
           /\ Generic(advised) = Generic(url)
<1> DEFINE host == HostPart(url)
           path == PathOf(url)
           advised == CanonicalUrl(url)
<1>1. /\ RightParts(host, path) /\ advised = UrlOf(host, path)
      /\ Generic(url) = Page(host, path)
  BY AdmittedParts
<1> HIDE DEF host, path
<1>2. /\ advised \in Seq(Symbol) /\ CanonicalUrl(advised) = advised
      /\ HostPart(advised) = host /\ PathOf(advised) = path
  <2>1. /\ UrlOf(host, path) \in Seq(Symbol)
        /\ CanonicalUrl(UrlOf(host, path)) = UrlOf(host, path)
        /\ HostPart(UrlOf(host, path)) = host /\ PathOf(UrlOf(host, path)) = path
    BY <1>1, PartsAdmitted
  <2> QED BY <1>1, <2>1
<1> HIDE DEF advised
<1>3. CanonicalUrl(advised) # Refused
  BY <1>2 DEF advised
<1>4. Generic(advised) = Page(HostPart(advised), PathOf(advised))
  BY <1>2, <1>3, AdmittedParts
<1> QED BY <1>1, <1>2, <1>4 DEF advised

\* The labels of a subdomain end with the labels of the domain.
LEMMA SubdomainLabels ==
    ASSUME NEW host \in Seq(Symbol), NEW d \in Seq(Symbol),
           host = d \/ EndsWith(host, <<".">> \o d)
    PROVE  IsSuffix(Labels(d), Labels(host))
<1>1. Len(host) \in Nat /\ Len(d) \in Nat
  BY LenProperties
<1>2. /\ Labels(host) \in Seq(Seq(Symbol)) /\ Labels(d) \in Seq(Seq(Symbol))
  BY SplitParts DEF Labels
<1>3. /\ Len(Labels(d)) <= Len(Labels(host))
      /\ \A k \in 1..Len(Labels(d)) :
            Labels(host)[Len(Labels(host)) - Len(Labels(d)) + k] = Labels(d)[k]
  <2>1. CASE host = d
    <3>1. Len(Labels(d)) \in Nat
      BY <1>2, LenProperties
    <3>2. \A k \in 1..Len(Labels(d)) : Len(Labels(d)) - Len(Labels(d)) + k = k
      BY <3>1
    <3> QED BY <2>1, <3>1, <3>2
  <2>2. CASE EndsWith(host, <<".">> \o d)
    <3> DEFINE dot == <<".">>
               tail == dot \o d
               c == Len(host) - Len(d)
    <3>1. dot \in Seq(Symbol) /\ Len(dot) = 1 /\ dot[1] = "."
      <4>1. "." \in Symbol
        BY DEF Symbol
      <4> QED BY <4>1
    <3> HIDE DEF dot
    <3>2. /\ tail \in Seq(Symbol) /\ Len(tail) = 1 + Len(d)
          /\ tail[1] = "." /\ \A i \in 1..Len(d) : tail[1 + i] = d[i]
      <4>1. /\ dot \o d \in Seq(Symbol) /\ Len(dot \o d) = Len(dot) + Len(d)
            /\ \A i \in 1..Len(dot) : (dot \o d)[i] = dot[i]
            /\ \A i \in 1..Len(d) : (dot \o d)[Len(dot) + i] = d[i]
        BY <3>1, ConcatParts
      <4>2. 1 \in 1..Len(dot)
        BY <3>1
      <4> QED BY <3>1, <4>1, <4>2
    <3>3. IsSuffix(tail, host)
      BY <2>2 DEF EndsWith, dot
    <3> HIDE DEF tail
    <3>4. /\ Len(tail) <= Len(host)
          /\ \A i \in 1..Len(tail) : host[Len(host) - Len(tail) + i] = tail[i]
      BY <3>2, <3>3, SuffixProperties
    <3>5. c \in 1..Len(host) /\ Len(host) = c + Len(d)
      BY <1>1, <3>2, <3>4
    <3>6. host[c] = "."
      <4>1. 1 \in 1..Len(tail) /\ Len(host) - Len(tail) + 1 = c
        BY <1>1, <3>2
      <4> QED BY <3>2, <3>4, <4>1
    <3>7. ASSUME NEW i \in 1..Len(d)
          PROVE  host[c + i] = d[i]
      <4>1. 1 + i \in 1..Len(tail) /\ Len(host) - Len(tail) + (1 + i) = c + i
        BY <1>1, <3>2
      <4>2. host[Len(host) - Len(tail) + (1 + i)] = tail[1 + i]
        BY <3>4, <4>1
      <4> QED BY <3>2, <4>1, <4>2
    <3> HIDE DEF c
    <3>8. EndsBehind(host, d, ".", c)
      BY <3>5, <3>6, <3>7 DEF EndsBehind
    <3> QED BY <3>5, <3>8, SplitOfEnding DEF Labels
  <2> QED BY <2>1, <2>2
<1> QED BY <1>2, <1>3, SuffixProperties

----------------------------------------------------------------------------
(* What is submitted, step by step *)

\* What every state keeps of the policy, the URL and the request: the policy
\* was admitted; a URL is one of those submitted or the advice on one; and the
\* request carries the URL as it was admitted, with its host.
Kept ==
    /\ policy # Nothing => policy \in Policies /\ PolicyIsRight(policy)
    /\ source_url # Nothing =>
           /\ policy # Nothing
           /\ source_url \in Seq(Symbol) /\ source_url # Refused
    /\ request # Nothing =>
           /\ source_url # Nothing
           /\ CanonicalUrl(source_url) = source_url
           /\ request.source_url = source_url
           /\ request.source_domain = HostOf(source_url)
           /\ DomainAllowed(HostOf(source_url), ToSet(policy.authority_domains))

\* What is submitted is a text, and is not the word of refusal.
LEMMA SubmittedUrls ==
    ASSUME NEW url \in Urls
    PROVE  url \in Seq(Symbol) /\ url # Refused
<1>1. url \in Seq(STRING) /\ url # Refused
  BY InputsAssumption
<1>2. STRING \subseteq Symbol
  BY DEF Symbol
<1> QED BY <1>1, <1>2, SeqMonotonic

\* Before the first policy there is nothing to keep.
LEMMA KeptInit == Init => Kept
BY DEF Init, Kept

\* Each step of the admission keeps the policy, the URL and the request right.
LEMMA KeptNext == Kept /\ [Next]_vars => Kept'
<1> SUFFICES ASSUME Kept, [Next]_vars
             PROVE  Kept'
  OBVIOUS
<1>1. CASE NextDay
  BY <1>1 DEF NextDay, Kept
<1>2. CASE CreatePolicy
  <2>1. /\ policy = Nothing /\ source_url = Nothing /\ request = Nothing
        /\ policy' \in Policies /\ PolicyIsRight(policy')
        /\ source_url' = source_url /\ request' = request
    BY <1>2 DEF CreatePolicy, Kept
  <2>2. (policy # Nothing => policy \in Policies /\ PolicyIsRight(policy))'
    BY <2>1 DEF PolicyIsRight, ComponentsAreRight, ValidDomain, ValidIdent
  <2> QED BY <2>1, <2>2 DEF Kept
<1>3. CASE ComposeUrl
  <2>1. /\ policy # Nothing /\ source_url = Nothing /\ request = Nothing
        /\ source_url' \in Urls /\ policy' = policy /\ request' = request
    BY <1>3 DEF ComposeUrl, Kept
  <2>2. source_url' \in Seq(Symbol) /\ source_url' # Refused
    BY <2>1, SubmittedUrls
  <2> QED BY <2>1, <2>2 DEF Kept
<1>4. CASE TakeAdvice
  <2>1. /\ source_url # Nothing /\ request = Nothing
        /\ CanonicalUrl(source_url) # Refused
        /\ source_url' = CanonicalUrl(source_url)
        /\ policy' = policy /\ request' = request
    BY <1>4 DEF TakeAdvice
  <2>2. source_url \in Seq(Symbol)
    BY <2>1 DEF Kept
  <2>3. source_url' \in Seq(Symbol) /\ source_url' # Refused
    BY <2>1, <2>2, AdvisedForm
  <2> QED BY <2>1, <2>3 DEF Kept
<1>5. ASSUME NEW claim \in Texts, NEW claim_context \in Texts,
             RequestVerification(claim, claim_context)
      PROVE  Kept'
  <2>1. /\ source_url # Nothing /\ CanonicalUrl(source_url) = source_url
        /\ DomainAllowed(HostOf(source_url), ToSet(policy.authority_domains))
        /\ request'.source_url = source_url
        /\ request'.source_domain = HostOf(source_url)
        /\ policy' = policy /\ source_url' = source_url
    BY <1>5 DEF RequestVerification
  <2> QED BY <2>1 DEF Kept
<1>6. CASE UNCHANGED vars
  BY <1>6 DEF vars, Kept
<1> QED BY <1>1, <1>2, <1>3, <1>4, <1>5, <1>6 DEF Next

\* So they are right in every state that is reached.
LEMMA KeptAlways == Spec => []Kept
BY KeptInit, KeptNext, PTL DEF Spec

\* An interval from 1 tells where it ends.
LEMMA SameInterval ==
    ASSUME NEW m \in Nat, NEW n \in Nat, 1..m = 1..n
    PROVE  m = n
<1>1. ~(m < n)
  <2>1. m < n => n \in 1..n /\ n \notin 1..m
    OBVIOUS
  <2> QED BY <2>1
<1>2. ~(n < m)
  <2>1. n < m => m \in 1..m /\ m \notin 1..n
    OBVIOUS
  <2> QED BY <2>1
<1> QED BY <1>1, <1>2

\* Texts that agree once decoded still do behind the same beginning.
LEMMA DecodedBehind ==
    ASSUME NEW s \in Seq(Symbol), NEW p \in Seq(Symbol), NEW q \in Seq(Symbol),
           Decoded(p) = Decoded(q)
    PROVE  Decoded(s \o p) = Decoded(s \o q)
<1> DEFINE value(x) == IF x \in DOMAIN Unreserved THEN Unreserved[x] ELSE x
<1>1. \A t : Decoded(t) = [k \in DOMAIN t |-> value(t[k])]
  BY DEF Decoded
<1> HIDE DEF value
<1>2. /\ DOMAIN p = 1..Len(p) /\ DOMAIN q = 1..Len(q)
      /\ Len(p) \in Nat /\ Len(q) \in Nat /\ Len(s) \in Nat
  BY LenProperties
<1>3. DOMAIN p = DOMAIN q /\ \A k \in DOMAIN p : value(p[k]) = value(q[k])
  <2>1. [k \in DOMAIN p |-> value(p[k])] = [k \in DOMAIN q |-> value(q[k])]
    BY <1>1
  <2> QED BY <2>1
<1>4. Len(p) = Len(q)
  <2>1. 1..Len(p) = 1..Len(q)
    BY <1>2, <1>3
  <2> QED BY <1>2, <2>1, SameInterval
<1>5. /\ s \o p \in Seq(Symbol) /\ Len(s \o p) = Len(s) + Len(p)
      /\ s \o q \in Seq(Symbol) /\ Len(s \o q) = Len(s) + Len(q)
      /\ \A k \in 1..(Len(s) + Len(p)) :
            (s \o p)[k] = IF k <= Len(s) THEN s[k] ELSE p[k - Len(s)]
      /\ \A k \in 1..(Len(s) + Len(q)) :
            (s \o q)[k] = IF k <= Len(s) THEN s[k] ELSE q[k - Len(s)]
  BY ConcatProperties
<1>6. DOMAIN (s \o p) = DOMAIN (s \o q)
  BY <1>4, <1>5, LenProperties
<1>7. ASSUME NEW k \in DOMAIN (s \o p)
      PROVE  value((s \o p)[k]) = value((s \o q)[k])
  <2>1. k \in 1..(Len(s) + Len(p)) /\ k \in 1..(Len(s) + Len(q))
    BY <1>4, <1>5, LenProperties
  <2>2. CASE k <= Len(s)
    BY <1>5, <2>1, <2>2
  <2>3. CASE ~(k <= Len(s))
    <3>1. (s \o p)[k] = p[k - Len(s)] /\ (s \o q)[k] = q[k - Len(s)]
      BY <1>5, <2>1, <2>3
    <3>2. k - Len(s) \in 1..Len(p)
      BY <1>2, <2>1, <2>3
    <3> QED BY <1>2, <1>3, <3>1, <3>2
  <2> QED BY <2>2, <2>3
<1>8. [k \in DOMAIN (s \o p) |-> value((s \o p)[k])]
         = [k \in DOMAIN (s \o q) |-> value((s \o q)[k])]
  BY <1>6, <1>7
<1> QED BY <1>1, <1>8

\* A canonical URL is determined, needless encoding aside, by the page that
\* it names.
LEMMA SpellingOfPage ==
    ASSUME NEW u \in Seq(Symbol), u # Refused, CanonicalUrl(u) = u,
           NEW v \in Seq(Symbol), v # Refused, CanonicalUrl(v) = v,
           Generic(u) = Generic(v)
    PROVE  Decoded(u) = Decoded(v)
<1>1. /\ u = UrlOf(HostPart(u), PathOf(u))
      /\ Generic(u) = Page(HostPart(u), PathOf(u))
      /\ HostPart(u) \in Seq(Symbol) /\ PathOf(u) \in Seq(Symbol)
  BY CanonicalParts DEF RightParts
<1>2. /\ v = UrlOf(HostPart(v), PathOf(v))
      /\ Generic(v) = Page(HostPart(v), PathOf(v))
      /\ PathOf(v) \in Seq(Symbol)
  BY CanonicalParts DEF RightParts
<1>3. Page(HostPart(u), PathOf(u)) = Page(HostPart(v), PathOf(v))
  BY <1>1, <1>2
<1>4. HostPart(u) = HostPart(v) /\ Decoded(PathOf(u)) = Decoded(PathOf(v))
  BY <1>3 DEF Page
<1> DEFINE start == <<Scheme>> \o HostPart(u)
<1>5. u = start \o PathOf(u) /\ v = start \o PathOf(v)
  BY <1>1, <1>2, <1>4 DEF UrlOf
<1>6. start \in Seq(Symbol)
  <2>1. <<Scheme>> \in Seq(Symbol)
    BY DEF Symbol
  <2> QED BY <1>1, <2>1, ConcatProperties
<1> HIDE DEF start
<1>7. Decoded(start \o PathOf(u)) = Decoded(start \o PathOf(v))
  BY <1>1, <1>2, <1>4, <1>6, DecodedBehind
<1> QED BY <1>5, <1>7

\* OnlyEncodingVaries: whatever is submitted, any other URL of a request's page
\* that request_verification admits differs from the one the request carries
\* in needless percent-encoding alone.
THEOREM SpellingsDifferInEncoding == Spec => []OnlyEncodingVaries
<1>1. Kept => OnlyEncodingVaries
  <2> SUFFICES ASSUME Kept, request # Nothing,
                      NEW url \in Urls, CanonicalUrl(url) = url,
                      Generic(url) = Generic(request.source_url)
               PROVE  Decoded(url) = Decoded(request.source_url)
    BY DEF OnlyEncodingVaries, CanonicalUrls
  <2>1. /\ source_url \in Seq(Symbol) /\ source_url # Refused
        /\ CanonicalUrl(source_url) = source_url
        /\ request.source_url = source_url
    BY DEF Kept
  <2>2. url \in Seq(Symbol) /\ url # Refused
    BY SubmittedUrls
  <2>3. Generic(url) = Generic(source_url)
    BY <2>1
  <2> QED BY <2>1, <2>2, <2>3, SpellingOfPage
<1> QED BY <1>1, KeptAlways, PTL

\* AdviceIsRight: the canonical form in a refusal of request_verification is
\* one that it admits, and names the page that was asked for.
THEOREM AdviceIsAdmitted == Spec => AdviceIsRight
<1>1. Kept /\ [Next]_vars =>
          [source_url # Nothing /\ source_url' # source_url =>
              /\ CanonicalUrl(source_url') = source_url'
              /\ Generic(source_url') = Generic(source_url)]_vars
  <2> SUFFICES ASSUME Kept, Next, source_url # Nothing,
                      source_url' # source_url
               PROVE  /\ CanonicalUrl(source_url') = source_url'
                      /\ Generic(source_url') = Generic(source_url)
    BY DEF vars
  <2>1. TakeAdvice
    BY DEF Next, NextDay, CreatePolicy, ComposeUrl, RequestVerification
  <2>2. /\ CanonicalUrl(source_url) # Refused
        /\ source_url' = CanonicalUrl(source_url)
    BY <2>1 DEF TakeAdvice
  <2>3. source_url \in Seq(Symbol)
    BY DEF Kept
  <2>4. /\ CanonicalUrl(CanonicalUrl(source_url)) = CanonicalUrl(source_url)
        /\ Generic(CanonicalUrl(source_url)) = Generic(source_url)
    BY <2>2, <2>3, AdvisedForm
  <2> QED BY <2>2, <2>4
<1> QED BY <1>1, KeptAlways, PTL DEF Spec, AdviceIsRight

\* SourceIsUnderListedDomain: the host that _host_of stores is the one the
\* generic syntax finds, and ends with the labels of a listed domain.
THEOREM SourceIsUnderADomain == Spec => []SourceIsUnderListedDomain
<1>1. Kept => SourceIsUnderListedDomain
  <2> DEFINE domains == ToSet(policy.authority_domains)
             host == HostOf(source_url)
  <2> SUFFICES ASSUME Kept, request # Nothing, policy.authority_domains # <<>>
               PROVE  LET h == Generic(request.source_url).host IN
                      /\ h = request.source_domain
                      /\ \E d \in domains : IsSuffix(Labels(d), Labels(h))
    BY DEF SourceIsUnderListedDomain
  <2>1. /\ source_url \in Seq(Symbol) /\ source_url # Refused
        /\ CanonicalUrl(source_url) = source_url
        /\ request.source_url = source_url /\ request.source_domain = host
        /\ DomainAllowed(host, domains)
        /\ policy \in Policies
    BY DEF Kept
  <2>2. /\ RightParts(HostPart(source_url), PathOf(source_url))
        /\ Generic(source_url) = Page(HostPart(source_url), PathOf(source_url))
        /\ host = HostPart(source_url)
    BY <2>1, CanonicalParts
  <2>3. Generic(source_url).host = host /\ host \in Seq(Symbol)
    <3> HIDE DEF host
    <3>1. Generic(source_url).host = HostPart(source_url)
      BY <2>2 DEF Page
    <3>2. HostPart(source_url) \in Seq(Symbol)
      BY <2>2 DEF RightParts
    <3> QED BY <2>2, <3>1, <3>2
  <2>4. /\ policy.authority_domains \in Seq(Seq(STRING))
    BY <2>1, InputsAssumption
  <2>5. domains # {} /\ \A d \in domains : d \in Seq(Symbol)
    <3> DEFINE list == policy.authority_domains
    <3>1. DOMAIN list = 1..Len(list) /\ Len(list) \in Nat
      BY <2>4, LenProperties
    <3>2. Len(list) # 0
      BY <2>4, EmptySeq
    <3>3. domains = {list[k] : k \in DOMAIN list}
      BY DEF ToSet
    <3>4. \A k \in 1..Len(list) : list[k] \in Seq(STRING)
      BY <2>4, ElementOfSeq
    <3>5. STRING \subseteq Symbol
      BY DEF Symbol
    <3>6. \A k \in 1..Len(list) : list[k] \in Seq(Symbol)
      BY <3>4, <3>5, SeqMonotonic
    <3>7. 1 \in 1..Len(list)
      BY <3>1, <3>2
    <3> HIDE DEF domains, list
    <3> QED BY <3>1, <3>3, <3>6, <3>7
  <2> HIDE DEF domains, host
  <2>6. PICK d \in domains : host = d \/ EndsWith(host, <<".">> \o d)
    BY <2>1, <2>5 DEF DomainAllowed
  <2>7. IsSuffix(Labels(d), Labels(host))
    BY <2>3, <2>5, <2>6, SubdomainLabels
  <2> QED BY <2>1, <2>3, <2>7
<1> QED BY <1>1, KeptAlways, PTL

\* SubjectsStayApart: what _components_error admits beside the built-in
\* subjects, _upper_keys never folds into one.
THEOREM NoTwoSubjectsShareAKey == Spec => []SubjectsStayApart
<1>1. Kept => SubjectsStayApart
  <2> SUFFICES ASSUME Kept, policy # Nothing
               PROVE  LET subjects == Subjects(policy) IN
                      \A k, l \in DOMAIN subjects :
                          UpperOf(subjects[k]) = UpperOf(subjects[l]) => k = l
    BY DEF SubjectsStayApart
  <2> DEFINE T == {"SOURCE_SHAPE", "FRESHNESS"} \cup STRING
             shape == <<"SOURCE_SHAPE">>
             fresh == IF policy.freshness_required THEN <<"FRESHNESS">> ELSE <<>>
             front == shape \o fresh
             n == Len(front)
             list == policy.components
             ids == [k \in DOMAIN list |-> list[k].component_id]
             subjects == Subjects(policy)
  <2>1. policy \in Policies /\ ComponentsAreRight(list)
    BY DEF Kept, PolicyIsRight
  <2>2. list \in Seq(Components)
    BY <2>1, InputsAssumption
  <2>3. DOMAIN list = 1..Len(list) /\ Len(list) \in Nat
    BY <2>2, LenProperties
  <2>4. \A k \in 1..Len(list) :
            /\ list[k].component_id \in Idents
            /\ UpperOf(list[k].component_id) \notin {"SOURCE_SHAPE", "FRESHNESS"}
    BY <2>1, <2>3 DEF ComponentsAreRight, ValidIdent, BUILT_IN_SUBJECTS
  <2>5. \A k, l \in 1..Len(list) :
            list[k].component_id = list[l].component_id => k = l
    BY <2>1, <2>3 DEF ComponentsAreRight
  <2> HIDE DEF list
  <2>6. ids \in Seq(T) /\ Len(ids) = Len(list)
        /\ \A k \in 1..Len(list) : ids[k] = list[k].component_id
    <3>1. \A k \in 1..Len(list) : list[k].component_id \in T
      BY <2>4, UpperAssumption
    <3> HIDE DEF T
    <3> QED BY <2>3, <3>1
  <2>7. /\ front \in Seq(T) /\ n \in {1, 2}
        /\ front[1] = "SOURCE_SHAPE" /\ (n = 2 => front[2] = "FRESHNESS")
    <3>1. "SOURCE_SHAPE" \in T /\ "FRESHNESS" \in T
      OBVIOUS
    <3> HIDE DEF T
    <3>2. CASE policy.freshness_required
      <4>1. fresh = <<"FRESHNESS">>
        BY <3>2
      <4> HIDE DEF fresh
      <4>2. /\ shape \in Seq(T) /\ Len(shape) = 1 /\ shape[1] = "SOURCE_SHAPE"
            /\ fresh \in Seq(T) /\ Len(fresh) = 1 /\ fresh[1] = "FRESHNESS"
        BY <3>1, <4>1
      <4> HIDE DEF shape
      <4>3. /\ shape \o fresh \in Seq(T) /\ Len(shape \o fresh) = 1 + 1
            /\ \A k \in 1..1 + 1 :
                  (shape \o fresh)[k] = IF k <= 1 THEN shape[k] ELSE fresh[k - 1]
        BY <4>2, ConcatProperties
      <4> QED BY <4>2, <4>3
    <3>3. CASE ~policy.freshness_required
      <4>1. front = <<"SOURCE_SHAPE">>
        BY <3>3
      <4> HIDE DEF front
      <4> QED BY <3>1, <4>1
    <3> QED BY <3>2, <3>3
  <2>8. subjects = front \o ids
    BY DEF Subjects, list
  <2> HIDE DEF T, front, ids, subjects, n
  <2>9. /\ DOMAIN subjects = 1..n + Len(list)
        /\ \A k \in 1..n + Len(list) :
              subjects[k] = IF k <= n THEN front[k] ELSE ids[k - n]
    <3>1. /\ front \o ids \in Seq(T) /\ Len(front \o ids) = n + Len(list)
          /\ \A k \in 1..n + Len(list) :
                (front \o ids)[k] = IF k <= n THEN front[k] ELSE ids[k - n]
      <4>1. /\ front \o ids \in Seq(T) /\ Len(front \o ids) = Len(front) + Len(ids)
            /\ \A k \in 1..Len(front) + Len(ids) :
                  (front \o ids)[k] = IF k <= Len(front) THEN front[k]
                                      ELSE ids[k - Len(front)]
        <5>1. front \in Seq(T) /\ ids \in Seq(T)
          BY <2>6, <2>7
        <5> QED BY <5>1, ConcatProperties
      <4>2. Len(front) = n /\ Len(ids) = Len(list)
        BY <2>6 DEF n
      <4> QED BY <4>1, <4>2
    <3>2. subjects \in Seq(T) /\ Len(subjects) = n + Len(list)
      BY <2>8, <3>1
    <3>3. DOMAIN subjects = 1..n + Len(list)
      BY <3>2, LenProperties
    <3> QED BY <2>8, <3>1, <3>3
  <2>10. ASSUME NEW k \in 1..n + Len(list)
         PROVE  \/ k = 1 /\ UpperOf(subjects[k]) = "SOURCE_SHAPE"
                \/ k = 2 /\ UpperOf(subjects[k]) = "FRESHNESS"
                \/ /\ k - n \in 1..Len(list)
                   /\ subjects[k] = list[k - n].component_id
    <3>1. CASE k <= n
      <4>1. k = 1 \/ (k = 2 /\ n = 2)
        <5>1. k \in Nat /\ k # 0
          BY <2>3, <2>7
        <5> QED BY <2>7, <3>1, <5>1
      <4>2. subjects[k] = front[k]
        BY <2>9, <3>1
      <4> QED BY <2>7, <4>1, <4>2, UpperAssumption
    <3>2. CASE ~(k <= n)
      <4>1. k - n \in 1..Len(list)
        BY <2>3, <2>7, <3>2
      <4>2. subjects[k] = ids[k - n]
        BY <2>9, <3>2
      <4> QED BY <2>6, <4>1, <4>2
    <3> QED BY <3>1, <3>2
  <2>11. ASSUME NEW k \in 1..n + Len(list), NEW l \in 1..n + Len(list),
                UpperOf(subjects[k]) = UpperOf(subjects[l])
         PROVE  k = l
    <3>1. CASE /\ k - n \in 1..Len(list) /\ subjects[k] = list[k - n].component_id
               /\ l - n \in 1..Len(list) /\ subjects[l] = list[l - n].component_id
      <4>1. list[k - n].component_id = list[l - n].component_id
        BY <2>4, <2>11, <3>1, UpperAssumption
      <4>2. k - n = l - n
        BY <2>5, <3>1, <4>1
      <4> QED BY <2>3, <2>7, <4>2
    <3>2. "SOURCE_SHAPE" # "FRESHNESS"
      OBVIOUS
    <3> QED BY <2>4, <2>10, <2>11, <3>1, <3>2
  <2> QED BY <2>9, <2>11 DEF subjects
<1> QED BY <1>1, KeptAlways, PTL

----------------------------------------------------------------------------
(* The calendar *)

\* The days of an era before a year of it that begins in March, and the days of
\* such a year before a day of its month mp.
YearStart(yoe) == yoe * 365 + yoe \div 4 - yoe \div 100
MonthStart(mp) == (153 * mp + 2) \div 5
MarchMonth(month) == IF month > 2 THEN month - 3 ELSE month + 9

\* The days before the March year y.
DaysBefore(y) == (y \div 400) * 146097 + YearStart(y - (y \div 400) * 400)

\* The years of a date.
Years == 1970..9999

\* The years of a date, and the year before and after it, are numbers.
LEMMA YearsAre ==
    ASSUME NEW y \in Years
    PROVE  /\ y \in Nat \ {0} /\ y - 1 \in Nat /\ y + 1 \in Nat \ {0}
           /\ y + 1 <= 9999 => y + 1 \in Years
BY DEF Years

\* A date of the calendar that turns day by day.
RightDate(d) ==
    /\ d \in [year : Years, month : 1..12, day : Nat]
    /\ d.day >= 1 /\ d.day <= MonthLength(d.year, d.month)

\* What _valid_date takes for the length of a month.
LEMMA MonthLengths ==
    ASSUME NEW year \in Nat, NEW month \in 1..12
    PROVE  /\ MonthLength(year, month) = IF month = 2 /\ LeapYear(year) THEN 29
                                         ELSE MonthLimits[month]
           /\ MonthLength(year, month) \in 28..31
<1>1. /\ MonthLimits[1] = 31 /\ MonthLimits[2] = 28 /\ MonthLimits[3] = 31
      /\ MonthLimits[4] = 30 /\ MonthLimits[5] = 31 /\ MonthLimits[6] = 30
      /\ MonthLimits[7] = 31 /\ MonthLimits[8] = 31 /\ MonthLimits[9] = 30
      /\ MonthLimits[10] = 31 /\ MonthLimits[11] = 30 /\ MonthLimits[12] = 31
  BY DEF MonthLimits
<1>2. year % 400 = 0 => year % 4 = 0
  OBVIOUS
<1>3. \/ month = 1 \/ month = 2 \/ month = 3 \/ month = 4 \/ month = 5 \/ month = 6
      \/ month = 7 \/ month = 8 \/ month = 9 \/ month = 10 \/ month = 11
      \/ month = 12
  OBVIOUS
<1>4. CASE month = 2
  BY <1>1, <1>2, <1>4 DEF MonthLength, LeapYear
<1>5. CASE month # 2
  BY <1>1, <1>3, <1>5 DEF MonthLength
<1> QED BY <1>4, <1>5

\* A right date is a valid one, and the next number is that of a day as long as
\* the month has one.
LEMMA RightIsValid ==
    ASSUME NEW d, RightDate(d)
    PROVE  /\ ValidDate(d) /\ ~ValidDate([d EXCEPT !.day = 0])
           /\ ValidDate([d EXCEPT !.day = @ + 1])
                  <=> d.day < MonthLength(d.year, d.month)
<1>1. /\ d.year \in Years /\ d.month \in 1..12 /\ d.day \in Nat
      /\ d.day >= 1 /\ d.day <= MonthLength(d.year, d.month)
      /\ MonthLength(d.year, d.month) \in 28..31
      /\ MonthLength(d.year, d.month) = IF d.month = 2 /\ LeapYear(d.year) THEN 29
                                        ELSE MonthLimits[d.month]
  <2>1. /\ d.year \in Years /\ d.month \in 1..12 /\ d.day \in Nat
        /\ d.day >= 1 /\ d.day <= MonthLength(d.year, d.month)
    BY DEF RightDate
  <2>2. d.year \in Nat
    BY <2>1, YearsAre
  <2>3. \A year \in Nat : \A month \in 1..12 :
           /\ MonthLength(year, month) \in 28..31
           /\ MonthLength(year, month) = IF month = 2 /\ LeapYear(year) THEN 29
                                         ELSE MonthLimits[month]
    BY MonthLengths
  <2> QED BY <2>1, <2>2, <2>3
<1>2. d \in [year : Years, month : 1..12, day : Nat]
  BY DEF RightDate
<1>3. ValidDate(d)
  BY <1>1 DEF ValidDate, Years
<1> DEFINE none == [d EXCEPT !.day = 0]
           next == [d EXCEPT !.day = @ + 1]
<1>4. none.day = 0
  BY <1>2
<1>5. next.year = d.year /\ next.month = d.month /\ next.day = d.day + 1
  BY <1>2
<1> HIDE DEF none, next
<1>6. ~ValidDate(none)
  BY <1>4 DEF ValidDate
<1>7. ValidDate(next) <=> d.day + 1 <= MonthLength(d.year, d.month)
  BY <1>1, <1>5 DEF ValidDate, Years
<1>8. d.day + 1 <= MonthLength(d.year, d.month) <=> d.day < MonthLength(d.year, d.month)
  BY <1>1
<1> QED BY <1>3, <1>6, <1>7, <1>8 DEF none, next

\* The number of a day, in parts.
LEMMA DayNumber ==
    ASSUME NEW d, d.year \in Nat \ {0}, d.month \in 1..12, d.day \in Nat
    PROVE  /\ MarchYear(d) \in Nat
           /\ DaysFromCivil(d) = DaysBefore(MarchYear(d))
                 + MonthStart(MarchMonth(d.month)) + d.day - 1 - 719468
<1>1. MarchYear(d) \in Nat
  BY DEF MarchYear
<1> DEFINE y == MarchYear(d)
           era == y \div 400
           yoe == y - era * 400
           mp == MarchMonth(d.month)
<1>2. DaysFromCivil(d) =
         era * 146097
           + (yoe * 365 + yoe \div 4 - yoe \div 100
                + ((153 * mp + 2) \div 5 + d.day - 1)) - 719468
  BY <1>1 DEF DaysFromCivil, MarchMonth
<1>3. era \in Int /\ yoe \in Int /\ mp \in Int
  BY <1>1 DEF MarchMonth
<1> HIDE DEF y, era, yoe, mp
<1>4. yoe \div 4 \in Int /\ yoe \div 100 \in Int /\ (153 * mp + 2) \div 5 \in Int
  BY <1>3
<1> DEFINE a == yoe \div 4
           b == yoe \div 100
           c == (153 * mp + 2) \div 5
<1>5. DaysBefore(y) = era * 146097 + (yoe * 365 + a - b) /\ MonthStart(mp) = c
  BY DEF DaysBefore, YearStart, MonthStart, era, yoe
<1>6. a \in Int /\ b \in Int /\ c \in Int
  BY <1>4
<1>7. DaysFromCivil(d) = era * 146097 + (yoe * 365 + a - b + (c + d.day - 1)) - 719468
  BY <1>2
<1> HIDE DEF a, b, c
<1>8. DaysFromCivil(d) = (era * 146097 + (yoe * 365 + a - b)) + c + d.day - 1 - 719468
  BY <1>3, <1>6, <1>7
<1> QED BY <1>1, <1>5, <1>8 DEF y, mp

\* A year that begins in March has 365 days, or 366 when the next February has
\* a leap day.
LEMMA YearLength ==
    ASSUME NEW y \in Nat
    PROVE  /\ DaysBefore(y) \in Int
           /\ DaysBefore(y + 1) = DaysBefore(y) + IF LeapYear(y + 1) THEN 366 ELSE 365
<1> DEFINE e == y \div 400
           r == y - e * 400
<1>1. e \in Nat /\ r \in 0..399 /\ y = e * 400 + r
  OBVIOUS
<1> HIDE DEF e, r
<1>2. r \div 4 \in Int /\ r \div 100 \in Int
  BY <1>1
<1>3. DaysBefore(y) = e * 146097 + (r * 365 + r \div 4 - r \div 100)
  BY DEF DaysBefore, YearStart, e, r
<1>4. CASE r = 399
  <2>1. (y + 1) \div 400 = e + 1
    BY <1>1, <1>4
  <2>2. y + 1 - (e + 1) * 400 = 0
    BY <1>1, <1>4
  <2>3. DaysBefore(y + 1) = (e + 1) * 146097 + (0 * 365 + 0 \div 4 - 0 \div 100)
    BY <2>1, <2>2 DEF DaysBefore, YearStart
  <2>4. LeapYear(y + 1)
    BY <1>1, <1>4 DEF LeapYear
  <2>5. 0 \div 4 = 0 /\ 0 \div 100 = 0 /\ 399 \div 4 = 99 /\ 399 \div 100 = 3
    OBVIOUS
  <2> QED BY <1>1, <1>2, <1>3, <1>4, <2>3, <2>4, <2>5
<1>5. CASE r # 399
  <2> DEFINE s == r + 1
  <2>1. (y + 1) \div 400 = e /\ s \in 1..399
    BY <1>1, <1>5
  <2>2. y + 1 - e * 400 = s
    BY <1>1
  <2>3. DaysBefore(y + 1) = e * 146097 + (s * 365 + s \div 4 - s \div 100)
    <3>1. DaysBefore(y + 1) = e * 146097 + YearStart(s)
      BY <2>1, <2>2 DEF DaysBefore
    <3> HIDE DEF s
    <3> QED BY <3>1 DEF YearStart
  <2>4. s \div 4 = r \div 4 + IF s % 4 = 0 THEN 1 ELSE 0
    BY <1>1, <1>5
  <2>5. s \div 100 = r \div 100 + IF s % 100 = 0 THEN 1 ELSE 0
    BY <1>1, <1>5
  <2>6. s % 100 = 0 => s % 4 = 0
    BY <2>1
  <2>7. LeapYear(y + 1) <=> s % 4 = 0 /\ s % 100 # 0
    <3>1. y + 1 = e * 400 + s
      BY <1>1
    <3>2. /\ (e * 400 + s) % 4 = s % 4 /\ (e * 400 + s) % 100 = s % 100
          /\ (e * 400 + s) % 400 # 0
      BY <1>1, <2>1
    <3> QED BY <3>1, <3>2 DEF LeapYear
  <2>8. s * 365 = r * 365 + 365 /\ s * 365 \in Int /\ e * 146097 \in Int
    BY <1>1
  <2> HIDE DEF s
  <2> QED BY <1>1, <1>2, <1>3, <2>3, <2>4, <2>5, <2>6, <2>7, <2>8
<1>6. DaysBefore(y) \in Int
  BY <1>1, <1>2, <1>3
<1> QED BY <1>4, <1>5, <1>6

\* The months of a year that begins in March follow each other.
LEMMA MonthOrder ==
    /\ MonthStart(0) = 0 /\ MonthStart(11) = 337
    /\ \A month \in (1..12) \ {2} :
          MonthStart(MarchMonth(IF month = 12 THEN 1 ELSE month + 1))
             = IF month \in {4, 6, 9, 11} THEN MonthStart(MarchMonth(month)) + 30
               ELSE IF month = 2 THEN 0 ELSE MonthStart(MarchMonth(month)) + 31
<1>2. /\ MonthStart(0) = 0 /\ MonthStart(1) = 31 /\ MonthStart(2) = 61
      /\ MonthStart(3) = 92 /\ MonthStart(4) = 122 /\ MonthStart(5) = 153
      /\ MonthStart(6) = 184 /\ MonthStart(7) = 214 /\ MonthStart(8) = 245
      /\ MonthStart(9) = 275 /\ MonthStart(10) = 306 /\ MonthStart(11) = 337
  BY DEF MonthStart
<1>3. /\ MarchMonth(3) = 0 /\ MarchMonth(4) = 1 /\ MarchMonth(5) = 2
      /\ MarchMonth(6) = 3 /\ MarchMonth(7) = 4 /\ MarchMonth(8) = 5
      /\ MarchMonth(9) = 6 /\ MarchMonth(10) = 7 /\ MarchMonth(11) = 8
      /\ MarchMonth(12) = 9 /\ MarchMonth(1) = 10 /\ MarchMonth(2) = 11
  BY DEF MarchMonth
<1>4. ASSUME NEW month \in (1..12) \ {2}
      PROVE  \/ month = 1 \/ month = 3 \/ month = 4 \/ month = 5 \/ month = 6
             \/ month = 7 \/ month = 8 \/ month = 9 \/ month = 10 \/ month = 11
             \/ month = 12
  OBVIOUS
<1> QED BY <1>2, <1>3, <1>4

\* The date of the next day.
NextDate(d) ==
    IF d.day < MonthLength(d.year, d.month)
    THEN [d EXCEPT !.day = @ + 1]
    ELSE IF d.month < 12
    THEN [d EXCEPT !.day = 1, !.month = @ + 1]
    ELSE [year |-> d.year + 1, month |-> 1, day |-> 1]

\* The next day has the next number.
LEMMA NextNumber ==
    ASSUME NEW d, RightDate(d), NextDate(d).year <= 9999
    PROVE  RightDate(NextDate(d)) /\ DaysFromCivil(NextDate(d)) = DaysFromCivil(d) + 1
<1> DEFINE next == NextDate(d)
<1>1. /\ d.year \in Years /\ d.month \in 1..12 /\ d.day \in Nat
      /\ d.day >= 1 /\ d.day <= MonthLength(d.year, d.month)
      /\ d \in [year : Years, month : 1..12, day : Nat]
  BY DEF RightDate
<1>2. d.year \in Nat \ {0} /\ d.year + 1 \in Nat \ {0}
  <2>1. d.year \in Years
    BY <1>1
  <2> QED BY <2>1, YearsAre
<1>3. \A year \in Nat : \A month \in 1..12 : MonthLength(year, month) \in 28..31
  BY MonthLengths
<1>4. DaysFromCivil(d) = DaysBefore(MarchYear(d)) + MonthStart(MarchMonth(d.month))
                            + d.day - 1 - 719468
  BY <1>1, <1>2, DayNumber
<1>5. /\ MarchYear(d) \in Nat /\ DaysBefore(MarchYear(d)) \in Int
      /\ MonthStart(MarchMonth(d.month)) \in Int
  <2>1. MarchYear(d) \in Nat
    BY <1>1, <1>2, DayNumber
  <2>2. MarchMonth(d.month) \in Nat
    BY <1>1 DEF MarchMonth
  <2>3. MonthStart(MarchMonth(d.month)) \in Int
    BY <2>2 DEF MonthStart
  <2> QED BY <2>1, <2>3, YearLength
<1>6. CASE d.day < MonthLength(d.year, d.month)
  <2>1. next = [d EXCEPT !.day = @ + 1]
    BY <1>6 DEF NextDate
  <2> HIDE DEF next
  <2>2. next.year = d.year /\ next.month = d.month /\ next.day = d.day + 1
    BY <1>1, <2>1
  <2>3. RightDate(next)
    <3>1. d.day + 1 <= MonthLength(d.year, d.month) /\ d.day + 1 >= 1
          /\ d.day + 1 \in Nat
      BY <1>1, <1>2, <1>3, <1>6
    <3>2. next \in [year : Years, month : 1..12, day : Nat]
      BY <1>1, <2>1, <3>1
    <3> QED BY <2>2, <3>1, <3>2 DEF RightDate
  <2>4. MarchYear(next) = MarchYear(d)
    BY <2>2 DEF MarchYear
  <2>5. DaysFromCivil(next) = DaysBefore(MarchYear(next))
           + MonthStart(MarchMonth(next.month)) + next.day - 1 - 719468
    <3>1. next.year \in Nat \ {0} /\ next.month \in 1..12 /\ next.day \in Nat
      BY <1>1, <1>2, <2>2
    <3> QED BY <3>1, DayNumber
  <2> QED BY <1>1, <1>4, <1>5, <2>2, <2>3, <2>4, <2>5 DEF next
<1>7. CASE ~(d.day < MonthLength(d.year, d.month)) /\ d.month < 12
  <2>1. next = [d EXCEPT !.day = 1, !.month = @ + 1]
    BY <1>7 DEF NextDate
  <2> HIDE DEF next
  <2>2. next.year = d.year /\ next.month = d.month + 1 /\ next.day = 1
    BY <1>1, <2>1
  <2>6. next.year \in Nat \ {0} /\ next.month \in 1..12 /\ next.day \in Nat
    BY <1>1, <1>2, <1>7, <2>2
  <2>3. RightDate(next)
    <3>1. next \in [year : Years, month : 1..12, day : Nat]
      <4>1. d.month + 1 \in 1..12
        BY <1>1, <1>7
      <4> DEFINE first == [d EXCEPT !.day = 1]
      <4>2. first \in [year : Years, month : 1..12, day : Nat]
        BY <1>1
      <4>3. next = [first EXCEPT !.month = d.month + 1]
        BY <1>1, <2>1
      <4> HIDE DEF first
      <4> QED BY <4>1, <4>2, <4>3
    <3>2. MonthLength(next.year, next.month) \in 28..31
      BY <1>3, <2>6
    <3> QED BY <2>2, <3>1, <3>2 DEF RightDate
  <2>5. DaysFromCivil(next) = DaysBefore(MarchYear(next))
           + MonthStart(MarchMonth(next.month)) + 1 - 1 - 719468
    BY <2>2, <2>6, DayNumber
  <2>7. d.day = MonthLength(d.year, d.month)
    BY <1>1, <1>2, <1>3, <1>7
  <2>8. CASE d.month = 2
    <3>1. MarchYear(next) = d.year /\ MarchYear(d) = d.year - 1
      BY <1>1, <2>2, <2>8 DEF MarchYear
    <3>2. DaysBefore(d.year) = DaysBefore(d.year - 1)
                                  + IF LeapYear(d.year) THEN 366 ELSE 365
      <4> DEFINE y == d.year - 1
      <4>1. y \in Nat /\ y + 1 = d.year
        BY <1>2
      <4>2. DaysBefore(y + 1) = DaysBefore(y) + IF LeapYear(y + 1) THEN 366 ELSE 365
        BY <4>1, YearLength
      <4> QED BY <4>1, <4>2
    <3>3. d.day = IF LeapYear(d.year) THEN 29 ELSE 28
      <4>1. MonthLimits[2] = 28
        BY DEF MonthLimits
      <4> QED BY <1>1, <1>2, <2>7, <2>8, <4>1, MonthLengths
    <3>4. MonthStart(MarchMonth(next.month)) = 0 /\ MonthStart(MarchMonth(d.month)) = 337
      <4>1. MarchMonth(3) = 0 /\ MarchMonth(2) = 11
        BY DEF MarchMonth
      <4> QED BY <2>2, <2>8, <4>1, MonthOrder
    <3> QED BY <1>4, <1>5, <2>3, <2>5, <3>1, <3>2, <3>3, <3>4 DEF next
  <2>9. CASE d.month # 2
    <3>1. MarchYear(next) = MarchYear(d)
      BY <1>1, <2>2, <2>9 DEF MarchYear
    <3>2. d.day = IF d.month \in {4, 6, 9, 11} THEN 30 ELSE 31
      BY <2>7, <2>9 DEF MonthLength
    <3>3. MonthStart(MarchMonth(next.month))
             = MonthStart(MarchMonth(d.month)) + d.day
      <4>1. d.month \in (1..12) \ {2} /\ d.month # 12
        BY <1>1, <1>7, <2>9
      <4> QED BY <2>2, <3>2, <4>1, MonthOrder
    <3> QED BY <1>1, <1>4, <1>5, <2>3, <2>5, <3>1, <3>3 DEF next
  <2> QED BY <2>8, <2>9
<1>8. CASE ~(d.day < MonthLength(d.year, d.month)) /\ ~(d.month < 12)
  <2>1. next = [year |-> d.year + 1, month |-> 1, day |-> 1] /\ d.month = 12
    BY <1>1, <1>8 DEF NextDate
  <2>0. next.year <= 9999
    OBVIOUS
  <2> HIDE DEF next
  <2>2. next.year = d.year + 1 /\ next.month = 1 /\ next.day = 1
    BY <2>1
  <2>3. RightDate(next)
    <3>1. d.year + 1 \in Years
      <4>1. d.year \in Years /\ d.year + 1 <= 9999
        BY <1>1, <2>0, <2>2
      <4> QED BY <4>1, YearsAre
    <3>2. next \in [year : Years, month : 1..12, day : Nat]
      BY <2>1, <3>1
    <3>3. MonthLength(next.year, next.month) \in 28..31
      BY <1>2, <1>3, <2>2
    <3> QED BY <2>2, <3>2, <3>3 DEF RightDate
  <2>4. MarchYear(next) = MarchYear(d)
    <3>1. MarchYear(next) = d.year + 1 - 1
      <4>1. 1 <= 2
        OBVIOUS
      <4> QED BY <1>2, <2>2, <4>1 DEF MarchYear
    <3>2. MarchYear(d) = d.year
      BY <2>1 DEF MarchYear
    <3> QED BY <1>2, <3>1, <3>2
  <2>5. DaysFromCivil(next) = DaysBefore(MarchYear(next))
           + MonthStart(MarchMonth(next.month)) + 1 - 1 - 719468
    <3>1. next.year \in Nat \ {0} /\ next.month \in 1..12 /\ next.day \in Nat
      BY <1>2, <2>2
    <3> QED BY <2>2, <3>1, DayNumber
  <2>6. d.day = 31
    <3>1. d.day = MonthLength(d.year, 12)
      BY <1>1, <1>2, <1>3, <1>8, <2>1
    <3> QED BY <3>1 DEF MonthLength
  <2>7. MonthStart(MarchMonth(next.month)) = MonthStart(MarchMonth(d.month)) + 31
    <3>1. 12 \in (1..12) \ {2} /\ 12 \notin {4, 6, 9, 11}
      OBVIOUS
    <3> QED BY <2>1, <2>2, <3>1, MonthOrder
  <2> QED BY <1>4, <1>5, <2>3, <2>4, <2>5, <2>6, <2>7 DEF next
<1> QED BY <1>6, <1>7, <1>8

\* The calendar is on a right date, and counts its number.
OnCalendar == RightDate(today) /\ days = DaysFromCivil(today)

\* The calendar starts at the epoch, which is day 0.
LEMMA CalendarInit == Init => OnCalendar
<1> SUFFICES ASSUME Init
             PROVE  OnCalendar
  OBVIOUS
<1>1. today = [year |-> 1970, month |-> 1, day |-> 1] /\ days = 0
  BY DEF Init, FirstDay
<1>2. today.year = 1970 /\ today.month = 1 /\ today.day = 1
  BY <1>1
<1>3. MonthLength(1970, 1) \in 28..31
  BY MonthLengths
<1>4. RightDate(today)
  <2>1. 1970 \in Years
    BY DEF Years
  <2> QED BY <2>1, <1>1, <1>2, <1>3 DEF RightDate
<1>5. MarchYear(today) = 1969 /\ MonthStart(MarchMonth(1)) = 306
  BY <1>2 DEF MarchYear, MarchMonth, MonthStart
<1>6. DaysBefore(1969) = 719162
  <2>1. 1969 \div 400 = 4 /\ 369 \div 4 = 92 /\ 369 \div 100 = 3
    OBVIOUS
  <2> QED BY <2>1 DEF DaysBefore, YearStart
<1>7. DaysFromCivil(today) = DaysBefore(MarchYear(today))
         + MonthStart(MarchMonth(today.month)) + today.day - 1 - 719468
  BY <1>2, DayNumber
<1>8. DaysFromCivil(today) = 0
  BY <1>2, <1>5, <1>6, <1>7
<1> QED BY <1>1, <1>4, <1>8 DEF OnCalendar

\* A day passing moves the date and its number together.
LEMMA CalendarNext == OnCalendar /\ [Next]_vars => OnCalendar'
<1> SUFFICES ASSUME OnCalendar, [Next]_vars
             PROVE  OnCalendar'
  OBVIOUS
<1>1. CASE NextDay
  <2>1. today' = NextDate(today) /\ today'.year <= LastYear /\ days' = days + 1
    BY <1>1 DEF NextDay, NextDate
  <2>2. today \in [year : Years, month : 1..12, day : Nat]
    BY DEF OnCalendar, RightDate
  <2>3. NextDate(today).year \in Nat
    <3>1. today.year \in Nat
      <4>1. today.year \in Years
        BY <2>2
      <4> QED BY <4>1, YearsAre
    <3> DEFINE d == today
    <3>2. [d EXCEPT !.day = @ + 1].year = d.year
      BY <2>2
    <3>3. [d EXCEPT !.day = 1, !.month = @ + 1].year = d.year
      BY <2>2
    <3>4. [year |-> d.year + 1, month |-> 1, day |-> 1].year = d.year + 1
      OBVIOUS
    <3>5. \/ NextDate(d) = [d EXCEPT !.day = @ + 1]
          \/ NextDate(d) = [d EXCEPT !.day = 1, !.month = @ + 1]
          \/ NextDate(d) = [year |-> d.year + 1, month |-> 1, day |-> 1]
      BY DEF NextDate
    <3> HIDE DEF d
    <3>6. NextDate(d).year = d.year \/ NextDate(d).year = d.year + 1
      BY <3>2, <3>3, <3>4, <3>5
    <3> QED BY <3>1, <3>6 DEF d
  <2>4. NextDate(today).year <= 9999
    BY <2>1, <2>3, YearsAssumption
  <2>5. /\ RightDate(NextDate(today))
        /\ DaysFromCivil(NextDate(today)) = DaysFromCivil(today) + 1
    BY <2>4, NextNumber DEF OnCalendar
  <2> QED BY <2>1, <2>5 DEF OnCalendar
<1>2. CASE UNCHANGED <<today, days>>
  BY <1>2 DEF OnCalendar, RightDate
<1>3. [Next]_vars => NextDay \/ UNCHANGED <<today, days>>
  BY DEF Next, vars, CreatePolicy, ComposeUrl, TakeAdvice, RequestVerification
<1> QED BY <1>1, <1>2, <1>3

\* So every date that is reached is right and has its number.
LEMMA CalendarAlways == Spec => []OnCalendar
BY CalendarInit, CalendarNext, PTL DEF Spec

\* DatesFollowTheCalendar: _days_from_civil numbers the days without a gap, and
\* _valid_date admits what the calendar turns through, in every year up to 9999.
THEOREM DaysAreCounted == Spec => []DatesFollowTheCalendar
<1>1. OnCalendar => DatesFollowTheCalendar
  BY RightIsValid DEF OnCalendar, DatesFollowTheCalendar
<1> QED BY <1>1, CalendarAlways, PTL

\* The days of a year of an era, from 0 on: 365, or 366 if the year ends with a
\* leap day.
DayOfYear(y, doy) ==
    /\ doy \in 0..365
    /\ doy = 365 => (y + 1) % 4 = 0 /\ ((y + 1) % 100 # 0 \/ y = 399)

\* A year of an era is found again from any of its days.
LEMMA YearFromDay ==
    ASSUME NEW y \in 0..399, NEW doy, DayOfYear(y, doy)
    PROVE  /\ YearOfEra(YearStart(y) + doy) = y
           /\ YearStart(y) + doy \in Nat /\ YearStart(y) + doy <= 146096
<1> DEFINE c == y \div 100
           q == (y % 100) \div 4
           r == (y % 100) % 4
           doe == YearStart(y) + doy
<1>0. /\ doy \in 0..365
      /\ doy = 365 => (y + 1) % 4 = 0 /\ ((y + 1) % 100 # 0 \/ y = 399)
  BY DEF DayOfYear
<1>1. c \in 0..3 /\ q \in 0..24 /\ r \in 0..3 /\ y = 100 * c + 4 * q + r
  OBVIOUS
<1>2. y \div 4 = 25 * c + q /\ y \div 100 = c
  BY <1>1
<1> HIDE DEF c, q, r
<1>3. doe = 36524 * c + 1461 * q + 365 * r + doy
  BY <1>0, <1>1, <1>2 DEF YearStart
<1>4. doy = 365 => r = 3 /\ (q = 24 => c = 3)
  <2>1. (y + 1) % 4 = 0 => r = 3
    BY <1>1
  <2>2. q = 24 /\ r = 3 /\ (y + 1) % 100 # 0 => FALSE
    BY <1>1
  <2>3. y = 399 => c = 3
    BY <1>1
  <2> QED BY <1>0, <2>1, <2>2, <2>3
<1> HIDE DEF doe
<1> DEFINE d == (24 * c + q + 365 * r + doy) \div 1460
           e == IF doe = 146096 THEN 1 ELSE 0
<1>5. /\ d \in 0..1 /\ (d = 1 => doy >= 1) /\ (doy = 365 => d = 1)
  BY <1>0, <1>1, <1>4
<1>6. doe \div 1460 = 25 * c + q + d
  BY <1>0, <1>1, <1>3
<1>7. doe = 146096 <=> c = 3 /\ q = 24 /\ r = 3 /\ doy = 365
  BY <1>0, <1>1, <1>3
<1>8. 1461 * q + 365 * r + doy = 36524 <=> c = 3 /\ q = 24 /\ r = 3 /\ doy = 365
  BY <1>0, <1>1, <1>4
<1>9. doe \div 36524 = c + e /\ doe \div 146096 = e
      /\ doe \in Nat /\ doe <= 146096
  <2> DEFINE rest == 1461 * q + 365 * r + doy
  <2>1. CASE doe = 146096
    <3>1. c = 3 /\ e = 1
      BY <1>7, <2>1
    <3>2. 146096 \div 36524 = 4 /\ 146096 \div 146096 = 1
      OBVIOUS
    <3>3. 146096 \in Nat /\ 146096 <= 146096
      OBVIOUS
    <3> QED BY <2>1, <3>1, <3>2, <3>3
  <2>2. CASE doe # 146096
    <3>1. e = 0
      BY <2>2
    <3>2. rest \in Nat /\ rest < 36524
      BY <1>0, <1>1, <1>7, <1>8, <2>2
    <3>3. doe = 36524 * c + rest
      BY <1>0, <1>1, <1>3
    <3> HIDE DEF rest
    <3>4. doe \div 36524 = c
      BY <1>0, <1>1, <3>2, <3>3
    <3>5. doe \in Nat /\ doe < 146096
      BY <1>0, <1>1, <2>2, <3>2, <3>3
    <3>6. doe \div 146096 = 0
      BY <3>5
    <3>7. c + e = c
      BY <1>0, <1>1, <3>1
    <3> HIDE DEF e
    <3>8. doe <= 146096
      BY <3>5
    <3> QED BY <3>1, <3>4, <3>5, <3>6, <3>7, <3>8
  <2> QED BY <2>1, <2>2
<1> HIDE DEF d, e
<1>10. doe - (25 * c + q + d) + (c + e) - e = 365 * y + (doy - d)
  <2>1. e \in Int
    BY DEF e
  <2> QED BY <1>0, <1>1, <1>3, <1>5, <2>1
<1>11. doy - d \in 0..364
  BY <1>0, <1>5
<1>12. (365 * y + (doy - d)) \div 365 = y
  <2> DEFINE x == doy - d
  <2>1. x \in 0..364
    BY <1>11
  <2> HIDE DEF x
  <2>2. (365 * y + x) \div 365 = y
    BY <2>1
  <2> QED BY <2>2 DEF x
<1>13. YearOfEra(doe) = y
  BY <1>6, <1>9, <1>10, <1>12 DEF YearOfEra
<1>14. doe \in Nat /\ doe <= 146096
  BY <1>9
<1> QED BY <1>13, <1>14 DEF doe

\* A day of a month, of which February may have its leap day.
DayOfMonth(mp, day) ==
    day \in 1..31 /\ (mp = 11 => day <= 29) /\ (mp \in {1, 3, 6, 8} => day <= 30)

\* A month is found again from any of its days.
LEMMA MonthFromDay ==
    ASSUME NEW mp \in 0..11, NEW day, DayOfMonth(mp, day)
    PROVE  /\ (5 * (MonthStart(mp) + day - 1) + 2) \div 153 = mp
           /\ MonthStart(mp) + day - 1 \in 0..365
           /\ MonthStart(mp) + day - 1 = 365 => mp = 11 /\ day = 29
BY DEF MonthStart, DayOfMonth

\* The date that _epoch_iso computes of a day.
DateOf(n) ==
    LET z == n + 719468
        era == (IF z >= 0 THEN z ELSE z - 146096) \div 146097
        doe == z - era * 146097
        yoe == YearOfEra(doe)
        doy == doe - (365 * yoe + yoe \div 4 - yoe \div 100)
        mp == (5 * doy + 2) \div 153
        m == IF mp < 10 THEN mp + 3 ELSE mp - 9
    IN  [year |-> yoe + era * 400 + (IF m <= 2 THEN 1 ELSE 0),
         month |-> m,
         day |-> doy - (153 * mp + 2) \div 5 + 1]

\* It is the date whose number the day is.
LEMMA DateFromNumber ==
    ASSUME NEW d, RightDate(d)
    PROVE  DaysFromCivil(d) \in Int /\ DateOf(DaysFromCivil(d)) = d
<1> DEFINE y == MarchYear(d)
           mp == MarchMonth(d.month)
           e == y \div 400
           yoe == y - e * 400
           doy == MonthStart(mp) + d.day - 1
           doe == YearStart(yoe) + doy
<1>1. /\ d \in [year : Years, month : 1..12, day : Nat]
      /\ d.year \in Nat \ {0} /\ d.month \in 1..12 /\ d.day \in Nat
      /\ d.day >= 1 /\ d.day <= MonthLength(d.year, d.month)
  <2>1. d.year \in Years
    BY DEF RightDate
  <2> QED BY <2>1, YearsAre DEF RightDate
<1>2. y \in Nat /\ y = IF d.month <= 2 THEN d.year - 1 ELSE d.year
  BY <1>1 DEF MarchYear
<1>3. /\ mp \in 0..11 /\ d.month = IF mp < 10 THEN mp + 3 ELSE mp - 9
      /\ mp = 11 <=> d.month = 2
      /\ mp \in {1, 3, 6, 8} <=> d.month \in {4, 6, 9, 11}
  BY <1>1 DEF MarchMonth
<1>4. DayOfMonth(mp, d.day)
  <2>1. MonthLength(d.year, d.month) \in 28..31
    BY <1>1, MonthLengths
  <2>2. d.month = 2 => MonthLength(d.year, d.month) <= 29
    <3>1. MonthLimits[2] = 28
      BY DEF MonthLimits
    <3> QED BY <1>1, <3>1, MonthLengths
  <2>3. d.month \in {4, 6, 9, 11} => MonthLength(d.year, d.month) = 30
    BY DEF MonthLength
  <2> QED BY <1>1, <1>3, <2>1, <2>2, <2>3 DEF DayOfMonth
<1>5. DaysFromCivil(d) = DaysBefore(y) + MonthStart(mp) + d.day - 1 - 719468
  BY <1>1, DayNumber
<1>6. DaysBefore(y) = e * 146097 + YearStart(yoe)
  BY DEF DaysBefore
<1>7. e \in Nat /\ yoe \in 0..399 /\ y = e * 400 + yoe
  <2>1. y \in Nat
    BY <1>2
  <2> HIDE DEF y
  <2> QED BY <2>1
<1> HIDE DEF y, mp, e, yoe
<1>8. /\ (5 * doy + 2) \div 153 = mp /\ doy \in 0..365
      /\ doy = 365 => mp = 11 /\ d.day = 29
  BY <1>3, <1>4, MonthFromDay
<1>9. MonthStart(mp) \in Int /\ YearStart(yoe) \in Int
  BY <1>3, <1>7 DEF MonthStart, YearStart
<1>10. DayOfYear(yoe, doy)
  <2> SUFFICES ASSUME doy = 365
               PROVE  (yoe + 1) % 4 = 0 /\ ((yoe + 1) % 100 # 0 \/ yoe = 399)
    BY <1>8 DEF DayOfYear
  <2>1. d.month = 2 /\ d.day = 29
    BY <1>3, <1>8
  <2>2. LeapYear(d.year)
    <3>1. MonthLimits[2] = 28
      BY DEF MonthLimits
    <3>2. MonthLength(d.year, 2) >= 29
      BY <1>1, <2>1
    <3> QED BY <1>1, <2>1, <3>1, <3>2, MonthLengths
  <2>3. d.year = e * 400 + yoe + 1
    BY <1>1, <1>2, <1>7, <2>1
  <2>4. LeapYear(e * 400 + yoe + 1)
    BY <2>2, <2>3
  <2> DEFINE s == yoe + 1
  <2>5. /\ (e * 400 + s) % 4 = s % 4 /\ (e * 400 + s) % 100 = s % 100
        /\ (e * 400 + s) % 400 = 0 => s = 400
    BY <1>7
  <2>6. e * 400 + yoe + 1 = e * 400 + s
    BY <1>7
  <2> HIDE DEF s
  <2>7. s % 4 = 0 /\ (s % 100 # 0 \/ s = 400)
    BY <2>4, <2>5, <2>6 DEF LeapYear
  <2> QED BY <1>7, <2>7 DEF s
<1> HIDE DEF doy
<1>11. YearOfEra(doe) = yoe /\ doe \in Nat /\ doe <= 146096
  BY <1>7, <1>10, YearFromDay
<1>12. DaysFromCivil(d) + 719468 = e * 146097 + doe /\ DaysFromCivil(d) \in Int
  BY <1>1, <1>5, <1>6, <1>7, <1>9 DEF doy
<1>13. doe - (365 * yoe + yoe \div 4 - yoe \div 100) = doy
  <2> DEFINE a == yoe \div 4
             b == yoe \div 100
  <2>1. a \in Int /\ b \in Int /\ YearStart(yoe) = yoe * 365 + a - b
    BY <1>7 DEF YearStart
  <2> HIDE DEF a, b
  <2>2. doe - (365 * yoe + a - b) = doy
    BY <1>7, <1>8, <2>1
  <2> QED BY <2>2 DEF a, b
<1> HIDE DEF doe
<1> DEFINE z == DaysFromCivil(d) + 719468
           n == DaysFromCivil(d)
<1>14. z >= 0 /\ z \div 146097 = e /\ z - e * 146097 = doe
  BY <1>7, <1>11, <1>12
<1>15. MonthStart(mp) = (153 * mp + 2) \div 5
  BY DEF MonthStart
<1> HIDE DEF z
<1>16. DateOf(n) = [year |-> yoe + e * 400 + (IF d.month <= 2 THEN 1 ELSE 0),
                    month |-> d.month, day |-> doy - MonthStart(mp) + 1]
  BY <1>3, <1>8, <1>11, <1>13, <1>14, <1>15 DEF DateOf, z
<1>17. yoe + e * 400 + (IF d.month <= 2 THEN 1 ELSE 0) = d.year
  BY <1>1, <1>2, <1>7
<1>18. doy - MonthStart(mp) + 1 = d.day
  BY <1>1, <1>9 DEF doy
<1> QED BY <1>1, <1>12, <1>16, <1>17, <1>18

\* A number of units and a rest are found again from their sum.
LEMMA Carry ==
    ASSUME NEW c \in Nat \ {0}, NEW q \in Int, NEW r \in 0..c - 1
    PROVE  (q * c + r) \div c = q /\ (q * c + r) % c = r
<1> DEFINE x == q * c + r
           p == x \div c
           s == x % c
<1>1. x \in Int /\ p \in Int /\ s \in 0..c - 1 /\ x = c * p + s
  OBVIOUS
<1> HIDE DEF x, p, s
<1>2. x = q * c + r
  BY DEF x
<1>3. (q - p) * c = s - r
  BY <1>1, <1>2
<1>4. ~(q - p >= 1)
  BY <1>1, <1>3
<1>5. ~(p - q >= 1)
  BY <1>1, <1>3
<1>6. q = p
  BY <1>1, <1>4, <1>5
<1> QED BY <1>1, <1>3, <1>6 DEF p, s, x

\* Units of units.
LEMMA Within ==
    ASSUME NEW n \in Nat, NEW c \in Nat \ {0}, NEW q \in 0..n - 1, NEW r \in 0..c - 1
    PROVE  q * c + r \in 0..n * c - 1
OBVIOUS

\* A stamp of a right date and a time of day is found again from its seconds.
LEMMA StampFromSeconds ==
    ASSUME NEW d, RightDate(d), NEW t \in Times
    PROVE  LET stamp == [date |-> d, hour |-> t.hour, minute |-> t.minute,
                         second |-> t.second]
           IN  ValidStamp(stamp) /\ EpochIso(IsoEpoch(stamp)) = stamp
<1> DEFINE stamp == [date |-> d, hour |-> t.hour, minute |-> t.minute,
                     second |-> t.second]
           h == t.hour
           m == t.minute
           s == t.second
           n == DaysFromCivil(d)
           H == SecondsPerHour
           D == SecondsPerDay
           inHour == m * SIXTY + s
           inDay == h * H + inHour
<1>1. h \in 0..HOURS - 1 /\ m \in 0..SIXTY - 1 /\ s \in 0..SIXTY - 1
  BY DEF Times
<1>2. HOURS \in Nat \ {0} /\ SIXTY \in Nat \ {0}
  BY ClockAssumption
<1>3. n \in Int /\ DateOf(n) = d /\ ValidDate(d)
  BY DateFromNumber, RightIsValid
<1>4. ValidStamp(stamp)
  <2>1. h < HOURS /\ m < SIXTY /\ s < SIXTY
    BY <1>1, <1>2
  <2> QED BY <1>3, <2>1 DEF ValidStamp
<1>5. IsoEpoch(stamp) = n * D + h * H + m * SIXTY + s
  BY DEF IsoEpoch
<1> HIDE DEF h, m, s, n
<1>6. H \in Nat \ {0} /\ H = SIXTY * SIXTY
  BY <1>2 DEF SecondsPerHour
<1>7. D = HOURS * H
  BY DEF SecondsPerDay
<1> HIDE DEF H, D
<1>8. D \in Nat \ {0}
  BY <1>2, <1>6, <1>7
<1>9. inHour \in 0..H - 1
  BY <1>1, <1>2, <1>6, Within
<1>10. inHour \div SIXTY = m
  <2>1. SIXTY \in Nat \ {0} /\ m \in Int /\ s \in 0..SIXTY - 1
    BY <1>1, <1>2
  <2> QED BY <2>1, Carry
<1> HIDE DEF inHour
<1>11. inDay \in 0..D - 1
  BY <1>1, <1>2, <1>6, <1>7, <1>9, Within
<1>12. inDay \div H = h /\ inDay % H = inHour
  <2>1. h \in Int
    BY <1>1, <1>2
  <2> QED BY <1>6, <1>9, <2>1, Carry
<1>13. inDay % SIXTY = s
  <2> DEFINE q == h * SIXTY + m
  <2>1. q \in Int /\ SIXTY \in Nat \ {0} /\ s \in 0..SIXTY - 1
    BY <1>1, <1>2
  <2>2. inDay = q * SIXTY + s
    BY <1>1, <1>2, <1>6 DEF inHour
  <2> HIDE DEF q, inDay
  <2>3. (q * SIXTY + s) % SIXTY = s
    BY <2>1, Carry
  <2> QED BY <2>2, <2>3
<1>14. IsoEpoch(stamp) = n * D + inDay
  <2>1. n * D \in Int /\ h * H \in Int /\ m * SIXTY \in Int /\ s \in Int
    BY <1>1, <1>2, <1>3, <1>6, <1>8
  <2> QED BY <1>5, <2>1 DEF inHour
<1> HIDE DEF inDay
<1> DEFINE seconds == IsoEpoch(stamp)
<1>15. seconds \div D = n /\ seconds - n * D = inDay
  <2>1. (n * D + inDay) \div D = n
    BY <1>3, <1>8, <1>11, Carry
  <2> DEFINE p == n * D
  <2>2. p \in Int /\ inDay \in Int
    BY <1>3, <1>8, <1>11
  <2>3. seconds = p + inDay
    BY <1>14
  <2> HIDE DEF seconds, p
  <2>4. seconds \div D = n
    BY <2>1, <2>3 DEF p
  <2>5. seconds - p = inDay
    BY <2>2, <2>3
  <2> QED BY <2>4, <2>5 DEF p
<1> HIDE DEF seconds
<1>16. EpochIso(seconds) =
          LET rest == seconds - (seconds \div D) * D
          IN  [date |-> DateOf(seconds \div D), hour |-> rest \div H,
               minute |-> (rest % H) \div SIXTY, second |-> rest % SIXTY]
  BY DEF EpochIso, DateOf, H, D
<1>17. EpochIso(seconds) = [date |-> DateOf(n), hour |-> inDay \div H,
                            minute |-> (inDay % H) \div SIXTY,
                            second |-> inDay % SIXTY]
  BY <1>15, <1>16
<1>18. EpochIso(seconds) = [date |-> d, hour |-> h, minute |-> m, second |-> s]
  BY <1>3, <1>10, <1>12, <1>13, <1>17
<1> QED BY <1>4, <1>18 DEF seconds, h, m, s

\* StampsRoundTrip: what _iso_epoch reads of a stamp, _epoch_iso writes again,
\* on a clock of any number of hours and minutes.
THEOREM StampsAreRead == Spec => []StampsRoundTrip
<1>1. OnCalendar => StampsRoundTrip
  BY StampFromSeconds DEF OnCalendar, StampsRoundTrip
<1> QED BY <1>1, CalendarAlways, PTL

=============================================================================
