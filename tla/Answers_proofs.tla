---------------------------- MODULE Answers_proofs ----------------------------
(***************************************************************************)
(* Proofs about what a screen asks and is answered (Answers and the        *)
(* modules it extends) and about what it shows while answers come late     *)
(* (LatestRequest, SyncPolling), for every table, every set of photos,     *)
(* every track, everything that may be stored and every number of requests *)
(* and polls.                                                              *)
(*                                                                         *)
(* Most of it is about sorted lists.  What is sorted has at every place    *)
(* the element with as many others before it as the place says             *)
(* (SortedList); pages of a list that begin where the last one ended are   *)
(* the list (PagesFlatten); the position of a photo is the number of those *)
(* before it, so that dividing it finds the page (PageOfPosition).  A      *)
(* match is sound because sort.Search splits a sorted track (IndexIs), and *)
(* the average of the photos of a cell rounds to the cell (AverageInCell). *)
(* The history keeps the places saved last in front (Held): the place of   *)
(* an entry is the number of different places saved since, which a save    *)
(* changes by one or not at all.                                           *)
(*                                                                         *)
(* A quiet screen is current because what is shown may differ from what    *)
(* was asked for last only while a request that still counts is on its way *)
(* (OnTheWay), and what was asked for last from what is wanted only while  *)
(* a load is due (AskedForIt).  One argument covers both kinds of guard:   *)
(* the requests that are not superseded are for what was asked last, and   *)
(* those that are were aborted, so that either guard lets only the former  *)
(* through (Newest).                                                       *)
(***************************************************************************)
EXTENDS Answers, LatestRequest, SyncPolling, FiniteSetTheorems, FunctionTheorems, SequenceTheorems, TLAPS

------------------------------------------------------------------------------
(* Least elements, ranks and sorted lists *)

\* The part of a set of naturals that is not above b.
UpTo(B, b) == {x \in B : x <= b}

\* A finite set of numbers that is not empty has a least element.
LEMMA LeastOfInts ==
    ASSUME NEW B \in SUBSET Int, IsFiniteSet(B), B # {}
    PROVE  \E b \in B : \A x \in B : b <= x
<1> DEFINE T == {UpTo(B, b) : b \in B}
<1>1. T \subseteq FiniteSubsetsOf(Int) /\ T # {}
  <2>1. \A b \in B : UpTo(B, b) \in SUBSET B
    BY DEF UpTo
  <2>2. \A b \in B : UpTo(B, b) \in FiniteSubsetsOf(Int)
    BY <2>1, FS_Subset DEF FiniteSubsetsOf
  <2> QED
    BY <2>2
<1>2. PICK U \in T : \A V \in T : <<V, U>> \notin StrictSubsetOrdering(Int)
  <2> HIDE DEF T
  <2> QED
    BY <1>1, FS_StrictSubsetOrderingWellFounded, WFMin
<1>3. PICK b \in B : U = UpTo(B, b)
  OBVIOUS
<1>4. ASSUME NEW x \in B, x < b PROVE FALSE
  <2>1. \A z \in B : z \in Int
    OBVIOUS
  <2>2. \A z \in B : z <= x => z <= b
    BY <1>4, <2>1
  <2>3. b <= b /\ ~(b <= x)
    BY <1>4, <2>1
  <2>4. UpTo(B, x) \subseteq UpTo(B, b) /\ b \in UpTo(B, b) /\ b \notin UpTo(B, x)
    BY <2>2, <2>3 DEF UpTo
  <2>5. UpTo(B, x) \in SUBSET Int /\ UpTo(B, b) \in SUBSET Int
    BY DEF UpTo
  <2>6. <<UpTo(B, x), U>> \in StrictSubsetOrdering(Int)
    BY <2>4, <2>5, <1>3 DEF StrictSubsetOrdering
  <2> QED
    BY <1>2, <2>6
<1>5. \A x \in B : x \in Int
  OBVIOUS
<1> QED
  BY <1>4, <1>5

\* Every set of naturals that is not empty has a least element.
LEMMA Least ==
    ASSUME NEW B \in SUBSET Nat, B # {}
    PROVE  \E b \in B : \A x \in B : b <= x
<1>1. PICK c \in B : TRUE
  OBVIOUS
<1>2. UpTo(B, c) \in SUBSET Nat /\ c \in UpTo(B, c)
  <2>1. c \in Nat /\ c <= c
    OBVIOUS
  <2> QED
    BY <2>1 DEF UpTo
<1>3. IsFiniteSet(UpTo(B, c))
  BY <1>2, FS_BoundedSetOfNaturals DEF UpTo
<1>4. PICK b \in UpTo(B, c) : \A x \in UpTo(B, c) : b <= x
  BY <1>2, <1>3, LeastOfInts
<1>5. ASSUME NEW x \in B PROVE b <= x
  <2>1. b \in Nat /\ c \in Nat /\ x \in Nat /\ b <= c
    BY DEF UpTo
  <2>2. x <= c => b <= x
    BY <1>4 DEF UpTo
  <2> QED
    BY <2>1, <2>2
<1> QED
  BY <1>5 DEF UpTo

\* That element is the minimum.
LEMMA LeastIsMin ==
    ASSUME NEW B \in SUBSET Nat, B # {}
    PROVE  Min(B) \in B /\ \A x \in B : Min(B) <= x
  BY Least DEF Min

\* The smaller of two numbers.
LEMMA MinOfTwo ==
    ASSUME NEW a \in Int, NEW b \in Int
    PROVE  Min({a, b}) = IF a <= b THEN a ELSE b
<1> DEFINE m == IF a <= b THEN a ELSE b
<1>1. m \in {a, b} /\ \A y \in {a, b} : m =< y
  OBVIOUS
<1>2. \A x \in {a, b} : (\A y \in {a, b} : x =< y) => x = m
  OBVIOUS
<1> QED
  BY <1>1, <1>2 DEF Min

\* A number, or 0 if it is negative.
LEMMA MaxOfTwo ==
    ASSUME NEW a \in Int
    PROVE  Max({0, a}) = IF a >= 0 THEN a ELSE 0
<1> DEFINE m == IF a >= 0 THEN a ELSE 0
<1>1. m \in {0, a} /\ \A y \in {0, a} : m >= y
  OBVIOUS
<1>2. \A x \in {0, a} : (\A y \in {0, a} : x >= y) => x = m
  OBVIOUS
<1> QED
  BY <1>1, <1>2 DEF Max

\* The values of a function on a finite set are no more than its arguments.
LEMMA ImageOf ==
    ASSUME NEW S, IsFiniteSet(S), NEW f, DOMAIN f = S, NEW T, T = {f[x] : x \in S}
    PROVE  IsFiniteSet(T) /\ Cardinality(T) <= Cardinality(S)
<1> DEFINE h == [x \in S |-> f[x]]
<1>1. h \in [S -> T] /\ \A y \in T : \E x \in S : h[x] = y
  OBVIOUS
<1>2. h \in Surjection(S, T)
  <2> HIDE DEF h
  <2> QED
    BY <1>1, Fun_IsSurj
<1> HIDE DEF h
<1> QED
  BY <1>2, FS_Surjection

\* A finite set of numbers that is not empty has a minimum and a maximum.
LEMMA Extremes ==
    ASSUME NEW B \in SUBSET Int, IsFiniteSet(B), B # {}
    PROVE  /\ Min(B) \in B /\ \A x \in B : Min(B) <= x
           /\ Max(B) \in B /\ \A x \in B : x <= Max(B)
<1>1. Min(B) \in B /\ \A x \in B : Min(B) <= x
  BY LeastOfInts DEF Min
<1> DEFINE C == {-x : x \in B}
<1>2. C \in SUBSET Int /\ C # {} /\ IsFiniteSet(C)
  <2> DEFINE f == [x \in B |-> -x]
  <2>1. DOMAIN f = B /\ C = {f[x] : x \in B}
    OBVIOUS
  <2>2. IsFiniteSet(C)
    <3> HIDE DEF f, C
    <3> QED
      BY <2>1, ImageOf
  <2>3. C \in SUBSET Int /\ C # {}
    OBVIOUS
  <2> QED
    BY <2>2, <2>3
<1>3. PICK c \in C : \A y \in C : c <= y
  <2> HIDE DEF C
  <2> QED
    BY <1>2, LeastOfInts
<1>4. PICK b \in B : c = -b
  OBVIOUS
<1>5. \A x \in B : x \in Int /\ -x \in C
  OBVIOUS
<1>6. \A x \in B : x <= b
  BY <1>3, <1>4, <1>5
<1>7. Max(B) \in B /\ \A x \in B : x <= Max(B)
  BY <1>6 DEF Max
<1> QED
  BY <1>1, <1>7

\* A number that is in a set of numbers and not above any of them is its minimum.
LEMMA MinIs ==
    ASSUME NEW B \in SUBSET Int, NEW b \in B, \A x \in B : b <= x
    PROVE  Min(B) = b
<1>1. \A x \in B : x \in Int
  OBVIOUS
<1>2. \A x \in B : (\A y \in B : x =< y) => x = b
  BY <1>1
<1>3. b \in B /\ \A y \in B : b =< y
  BY <1>1
<1> QED
  BY <1>2, <1>3 DEF Min

\* What comes first is a strict order, and no two elements are the same for it.
TotalOn(S, R) ==
    /\ \A x \in S : <<x, x>> \notin R
    /\ \A x, y, z \in S : <<x, y>> \in R /\ <<y, z>> \in R => <<x, z>> \in R
    /\ \A x, y \in S : x # y => <<x, y>> \in R \/ <<y, x>> \in R

Earlier(S, R, x) == {y \in S : <<y, x>> \in R}
Rank(S, R, x) == Cardinality(Earlier(S, R, x))

At(S, R, k) == CHOOSE x \in S : Rank(S, R, x) = k - 1

\* The rank of an element says which elements come before it.
LEMMA RankGrows ==
    ASSUME NEW S, IsFiniteSet(S), NEW R, TotalOn(S, R)
    PROVE  /\ \A x \in S : Rank(S, R, x) \in 0..Cardinality(S) - 1
           /\ \A x, y \in S : <<x, y>> \in R => Rank(S, R, x) < Rank(S, R, y)
           /\ \A x, y \in S : Rank(S, R, x) < Rank(S, R, y) => <<x, y>> \in R
           /\ \A x, y \in S : Rank(S, R, x) = Rank(S, R, y) => x = y
<1>0. Cardinality(S) \in Nat
  BY FS_CardinalityType
<1>1. ASSUME NEW x \in S
      PROVE  IsFiniteSet(Earlier(S, R, x)) /\ Rank(S, R, x) \in 0..Cardinality(S) - 1
  <2>1. Earlier(S, R, x) \in SUBSET S /\ x \notin Earlier(S, R, x)
    BY DEF Earlier, TotalOn
  <2>2. /\ IsFiniteSet(Earlier(S, R, x)) /\ Cardinality(Earlier(S, R, x)) <= Cardinality(S)
        /\ Cardinality(Earlier(S, R, x)) # Cardinality(S)
    BY <2>1, FS_Subset
  <2>3. Cardinality(Earlier(S, R, x)) \in Nat
    BY <2>2, FS_CardinalityType
  <2> QED
    BY <1>0, <2>2, <2>3 DEF Rank
<1>2. ASSUME NEW x \in S, NEW y \in S, <<x, y>> \in R
      PROVE  Rank(S, R, x) < Rank(S, R, y)
  <2>1. Earlier(S, R, x) \in SUBSET Earlier(S, R, y)
    BY <1>2 DEF Earlier, TotalOn
  <2>2. Earlier(S, R, x) # Earlier(S, R, y)
    BY <1>2 DEF Earlier, TotalOn
  <2>3. Rank(S, R, x) <= Rank(S, R, y) /\ Rank(S, R, x) # Rank(S, R, y)
    BY <1>1, <2>1, <2>2, FS_Subset DEF Rank
  <2> QED
    BY <1>1, <2>3
<1>3. \A x \in S : Rank(S, R, x) \in Nat
  BY <1>0, <1>1
<1>4. ASSUME NEW x \in S, NEW y \in S, Rank(S, R, x) <= Rank(S, R, y), x # y PROVE <<x, y>> \in R
  <2>1. <<y, x>> \in R => Rank(S, R, y) < Rank(S, R, x)
    BY <1>2
  <2>2. <<y, x>> \notin R
    BY <1>3, <1>4, <2>1
  <2> QED
    BY <1>4, <2>2 DEF TotalOn
<1>5. ASSUME NEW x \in S, NEW y \in S, Rank(S, R, x) < Rank(S, R, y) PROVE <<x, y>> \in R
  BY <1>3, <1>4, <1>5
<1>6. ASSUME NEW x \in S, NEW y \in S, Rank(S, R, x) = Rank(S, R, y) PROVE x = y
  <2>1. SUFFICES ASSUME x # y PROVE FALSE
    OBVIOUS
  <2>2. <<x, y>> \in R
    BY <1>3, <1>4, <1>6, <2>1
  <2> QED
    BY <1>2, <1>3, <1>6, <2>2
<1> QED
  BY <1>1, <1>2, <1>5, <1>6

\* A sorted list holds every element once, at the place its rank says.
LEMMA SortedList ==
    ASSUME NEW S, IsFiniteSet(S), NEW R, TotalOn(S, R)
    PROVE  LET n == Cardinality(S)
               q == Sorted(S, R)
           IN  /\ n \in Nat /\ q \in Seq(S) /\ Len(q) = n /\ DOMAIN q = 1..n
               /\ \A k \in 1..n : q[k] \in S /\ Rank(S, R, q[k]) = k - 1
               /\ \A x \in S : Rank(S, R, x) + 1 \in 1..n /\ q[Rank(S, R, x) + 1] = x
               /\ \A i, j \in 1..n : i < j => <<q[i], q[j]>> \in R
               /\ \A i, j \in 1..n : q[i] = q[j] => i = j
<1> DEFINE n == Cardinality(S)
           q == Sorted(S, R)
           f == [x \in S |-> Rank(S, R, x) + 1]
<1>0. n \in Nat
  BY FS_CardinalityType
<1>1. f \in [S -> 1..n] /\ \A x, y \in S : f[x] = f[y] => x = y
  BY <1>0, RankGrows
<1>2. f \in Injection(S, 1..n)
  <2> HIDE DEF f
  <2> QED
    BY <1>1, Fun_IsInj
<1>3. IsFiniteSet(1..n) /\ Cardinality(1..n) = n
  BY <1>0, FS_Interval
<1>4. f \in Surjection(S, 1..n)
  <2> HIDE DEF f
  <2> QED
    BY <1>2, <1>3, FS_Injection
<1>41. \A k \in 1..n : \E x \in S : f[x] = k
  <2> HIDE DEF f, n
  <2> QED
    BY <1>4, Fun_SurjectionProperties
<1>5. ASSUME NEW k \in 1..n PROVE \E x \in S : Rank(S, R, x) = k - 1
  <2>1. PICK x \in S : f[x] = k
    BY <1>41
  <2>2. Rank(S, R, x) \in Nat /\ Rank(S, R, x) + 1 = k
    BY <1>0, <2>1, RankGrows
  <2> QED
    BY <1>0, <2>2
<1>60. q = [k \in 1..n |-> At(S, R, k)]
  BY DEF Sorted, Rank, Earlier, At
<1>6. ASSUME NEW k \in 1..n PROVE q[k] \in S /\ Rank(S, R, q[k]) = k - 1
  <2>1. q[k] = At(S, R, k)
    BY <1>60
  <2> QED
    BY <1>5, <2>1 DEF At
<1>8. q \in [1..n -> S]
  <2> HIDE DEF n, q
  <2> QED
    BY <1>6, <1>60
<1>9. q \in Seq(S) /\ Len(q) = n /\ DOMAIN q = 1..n
  <2> HIDE DEF q, n
  <2> QED
    BY <1>0, <1>8
<1>10. ASSUME NEW x \in S PROVE Rank(S, R, x) + 1 \in 1..n /\ q[Rank(S, R, x) + 1] = x
  <2> DEFINE k == Rank(S, R, x) + 1
  <2>1. Rank(S, R, x) \in Nat /\ k \in 1..n
    BY <1>0, RankGrows
  <2>2. q[k] \in S /\ Rank(S, R, q[k]) = k - 1
    BY <1>6, <2>1
  <2>3. Rank(S, R, q[k]) = Rank(S, R, x)
    BY <2>1, <2>2
  <2> QED
    BY <2>1, <2>2, <2>3, RankGrows
<1>11. ASSUME NEW i \in 1..n, NEW j \in 1..n, i < j PROVE <<q[i], q[j]>> \in R
  <2>1. Rank(S, R, q[i]) < Rank(S, R, q[j])
    BY <1>0, <1>6, <1>11
  <2> QED
    BY <1>6, <2>1, RankGrows
<1>12. ASSUME NEW i \in 1..n, NEW j \in 1..n, q[i] = q[j] PROVE i = j
  <2>1. i - 1 = j - 1
    BY <1>6, <1>12
  <2> QED
    BY <1>0, <2>1
<1> QED
  BY <1>0, <1>6, <1>9, <1>10, <1>11, <1>12

\* Numbers in their order.
LEMMA OrderedNumbers ==
    ASSUME NEW S \in SUBSET Int
    PROVE  /\ TotalOn(S, {p \in S \X S : p[1] < p[2]})
           /\ \A x \in S : Earlier(S, {p \in S \X S : p[1] < p[2]}, x) = {y \in S : y < x}
<1> DEFINE R == {p \in S \X S : p[1] < p[2]}
<1>1. \A x, y \in S : <<x, y>> \in R <=> x < y
  OBVIOUS
<1>2. \A x \in S : x \in Int
  OBVIOUS
<1> HIDE DEF R
<1>3. TotalOn(S, R)
  BY <1>1, <1>2 DEF TotalOn
<1>4. \A x \in S : Earlier(S, R, x) = {y \in S : y < x}
  BY <1>1 DEF Earlier
<1> QED
  BY <1>3, <1>4 DEF R

\* How many of the numbers are smaller.
Below(S, x) == Cardinality({y \in S : y < x})

\* Positions in their order: each is where the number of smaller ones says.
LEMMA InOrderIs ==
    ASSUME NEW S \in SUBSET Int, IsFiniteSet(S)
    PROVE  LET n == Cardinality(S)
               q == InOrder(S)
           IN  /\ n \in Nat /\ q \in Seq(S) /\ Len(q) = n /\ DOMAIN q = 1..n
               /\ \A k \in 1..n : q[k] \in S /\ Below(S, q[k]) = k - 1
               /\ \A x \in S : Below(S, x) + 1 \in 1..n /\ q[Below(S, x) + 1] = x
               /\ \A i, j \in 1..n : i < j => q[i] < q[j]
               /\ \A i, j \in 1..n : q[i] = q[j] => i = j
<1> DEFINE R == {p \in S \X S : p[1] < p[2]}
<1>1. TotalOn(S, R) /\ \A x \in S : Rank(S, R, x) = Below(S, x)
  BY OrderedNumbers DEF Rank, Below
<1>2. InOrder(S) = Sorted(S, R)
  BY DEF InOrder
<1>3. \A x, y : <<x, y>> \in R => x < y
  OBVIOUS
<1> HIDE DEF R
<1>4. LET n == Cardinality(S)
          q == Sorted(S, R)
      IN  /\ n \in Nat /\ q \in Seq(S) /\ Len(q) = n /\ DOMAIN q = 1..n
          /\ \A k \in 1..n : q[k] \in S /\ Rank(S, R, q[k]) = k - 1
          /\ \A x \in S : Rank(S, R, x) + 1 \in 1..n /\ q[Rank(S, R, x) + 1] = x
          /\ \A i, j \in 1..n : i < j => <<q[i], q[j]>> \in R
          /\ \A i, j \in 1..n : q[i] = q[j] => i = j
  BY <1>1, SortedList
<1> QED
  BY <1>1, <1>2, <1>3, <1>4

\* Sets of numbers that agree up to one of them have it at the same place.
LEMMA SamePlace ==
    ASSUME NEW S \in SUBSET Int, IsFiniteSet(S), NEW x \in S,
           NEW k \in Nat, Below(S, x) = k
    PROVE  k + 1 \in DOMAIN InOrder(S) /\ InOrder(S)[k + 1] = x
  BY InOrderIs

\* A sequence over a set is one over a larger set.
LEMMA WiderSeq ==
    ASSUME NEW A, NEW B, A \subseteq B, NEW s \in Seq(A)
    PROVE  s \in Seq(B)
<1>1. s \in [1..Len(s) -> A] /\ Len(s) \in Nat
  OBVIOUS
<1>2. s \in [1..Len(s) -> B]
  BY <1>1
<1> QED
  BY <1>1, <1>2

------------------------------------------------------------------------------
(* Lists and their pages *)

\* What is built piece by piece is the pieces in one: the recursive function in FlattenSeq
\* has one solution.
LEMMA FlattenIs ==
    ASSUME NEW seqs, Len(seqs) \in Nat \ {0}, NEW g,
           g[1] = seqs[1], \A i \in 2..Len(seqs) : g[i] = g[i-1] \o seqs[i]
    PROVE  FlattenSeq(seqs) = g[Len(seqs)]
<1> DEFINE n == Len(seqs)
           h == [i \in 1..n |-> g[i]]
           f == CHOOSE f : f = [i \in 1..n |-> IF i = 1 THEN seqs[i] ELSE f[i-1] \o seqs[i]]
<1>1. FlattenSeq(seqs) = f[n]
  BY DEF FlattenSeq
<1>2. h = [i \in 1..n |-> IF i = 1 THEN seqs[i] ELSE h[i-1] \o seqs[i]]
  <2>1. ASSUME NEW i \in 1..n PROVE g[i] = IF i = 1 THEN seqs[i] ELSE h[i-1] \o seqs[i]
    <3>1. CASE i = 1
      BY <3>1
    <3>2. CASE i # 1
      <4>1. i \in 2..n /\ i - 1 \in 1..n
        BY <3>2
      <4> QED
        BY <3>2, <4>1
    <3> QED
      BY <3>1, <3>2
  <2> QED
    BY <2>1
<1>3. f = [i \in 1..n |-> IF i = 1 THEN seqs[i] ELSE f[i-1] \o seqs[i]]
  <2> HIDE DEF h, n
  <2> QED
    BY <1>2
<1> HIDE DEF f
<1> DEFINE B == {i \in 1..n : f[i] # h[i]}
<1>4. ASSUME NEW b \in B, \A x \in B : b <= x PROVE FALSE
  <2>1. b \in 1..n /\ f[b] # h[b]
    OBVIOUS
  <2>2. b # 1
    <3>1. b = 1 => f[b] = seqs[1] /\ h[b] = seqs[1]
      BY <1>3, <2>1
    <3> QED
      BY <2>1, <3>1
  <2>3. b - 1 \in 1..n /\ ~(b <= b - 1)
    BY <2>1, <2>2
  <2>4. f[b-1] = h[b-1]
    BY <1>4, <2>3
  <2>5. f[b] = f[b-1] \o seqs[b]
    BY <1>3, <2>1, <2>2
  <2>6. h[b] = h[b-1] \o seqs[b]
    <3>1. b \in 2..n
      BY <2>1, <2>2
    <3> QED
      BY <2>1, <2>3, <3>1
  <2> QED
    BY <2>1, <2>4, <2>5, <2>6
<1>5. B = {}
  <2>1. B \in SUBSET Nat
    OBVIOUS
  <2> HIDE DEF B
  <2> QED
    BY <1>4, <2>1, Least
<1>6. n \in 1..n
  OBVIOUS
<1>7. f[n] = h[n]
  BY <1>5, <1>6
<1> QED
  BY <1>1, <1>6, <1>7

\* A page of a list begins where the one before it ends.
LEMMA PageIs ==
    ASSUME NEW S, NEW L \in Seq(S), NEW p \in Nat \ {0}, NEW size \in Nat \ {0},
           (p - 1) * size <= Len(L)
    PROVE  LET first == (p - 1) * size
               last == Min({p * size, Len(L)})
           IN  /\ first \in 0..Len(L) /\ last \in first..Len(L)
               /\ last = IF p * size <= Len(L) THEN p * size ELSE Len(L)
               /\ Page(L, p, size) \in Seq(S) /\ Len(Page(L, p, size)) = last - first
               /\ \A i \in 1..last - first : Page(L, p, size)[i] = L[first + i]
               /\ p * size = first + size
<1> DEFINE first == (p - 1) * size
           last == Min({p * size, Len(L)})
<1>1. p * size = first + size /\ first \in Nat /\ p * size \in Nat
  OBVIOUS
<1>2. Len(L) \in Nat
  OBVIOUS
<1>3. last = IF p * size <= Len(L) THEN p * size ELSE Len(L)
  BY <1>1, <1>2, MinOfTwo
<1> HIDE DEF first
<1>4. last \in first..Len(L) /\ first \in 0..Len(L) /\ last \in Nat
  BY <1>1, <1>2, <1>3 DEF first
<1> HIDE DEF last
<1>5. \A i \in first + 1..last : L[i] \in S
  BY <1>2, <1>4
<1>6. Page(L, p, size) = SubSeq(L, first + 1, last)
  BY DEF Page, first, last
<1>7. /\ SubSeq(L, first + 1, last) \in Seq(S)
      /\ Len(SubSeq(L, first + 1, last)) = IF first + 1 <= last THEN last - (first + 1) + 1 ELSE 0
      /\ \A i \in 1..last - (first + 1) + 1 : SubSeq(L, first + 1, last)[i] = L[first + 1 + i - 1]
  BY <1>1, <1>4, <1>5, SubSeqProperties
<1>8. Len(SubSeq(L, first + 1, last)) = last - first /\ last - (first + 1) + 1 = last - first
  BY <1>4, <1>7
<1>9. \A i \in 1..last - first : SubSeq(L, first + 1, last)[i] = L[first + i]
  <2>1. \A i \in 1..last - first : first + 1 + i - 1 = first + i
    BY <1>1
  <2> QED
    BY <1>7, <1>8, <2>1
<1> QED
  BY <1>1, <1>3, <1>4, <1>6, <1>7, <1>8, <1>9 DEF first, last

\* The pages of a list, one after the other, are the list as far as they go.
LEMMA PagesFlatten ==
    ASSUME NEW S, NEW L \in Seq(S), NEW size \in Nat \ {0}, NEW pages, Len(pages) \in Nat \ {0},
           \A i \in 1..Len(pages) : pages[i] = Page(L, i, size) /\ (i - 1) * size <= Len(L)
    PROVE  FlattenSeq(pages) = SubSeq(L, 1, Min({Len(pages) * size, Len(L)}))
<1> DEFINE n == Len(pages)
           last(i) == Min({i * size, Len(L)})
           g == [i \in 1..n |-> SubSeq(L, 1, last(i))]
<1>0. \A i \in 1..n : last(i) \in Nat /\ last(i) <= Len(L)
  <2> TAKE i \in 1..n
  <2>1. i \in Nat \ {0} /\ (i - 1) * size <= Len(L)
    OBVIOUS
  <2>2. LET o == (i - 1) * size
            l == Min({i * size, Len(L)})
        IN  /\ o \in 0..Len(L) /\ l \in o..Len(L)
            /\ l = IF i * size <= Len(L) THEN i * size ELSE Len(L)
            /\ Page(L, i, size) \in Seq(S) /\ Len(Page(L, i, size)) = l - o
            /\ \A m \in 1..l - o : Page(L, i, size)[m] = L[o + m]
            /\ i * size = o + size
    <3> HIDE DEF n, last, g
    <3> QED
      BY <2>1, PageIs
  <2>3. last(i) \in (i - 1) * size..Len(L) /\ (i - 1) * size \in 0..Len(L)
    BY <2>2
  <2> HIDE DEF last
  <2> QED
    BY <2>3
<1>1. g[1] = pages[1]
  <2>1. 1 \in 1..n /\ (1 - 1) * size + 1 = 1
    OBVIOUS
  <2>2. pages[1] = SubSeq(L, (1 - 1) * size + 1, Min({1 * size, Len(L)}))
    BY <2>1 DEF Page
  <2> QED
    BY <2>1, <2>2
<1>2. ASSUME NEW i \in 2..n PROVE g[i] = g[i-1] \o pages[i]
  <2> DEFINE k == (i - 1) * size
  <2>1. i \in 1..n /\ i - 1 \in 1..n /\ k <= Len(L)
    OBVIOUS
  <2>2. /\ k \in 0..Len(L) /\ last(i) \in k..Len(L) /\ i * size = k + size
    <3>1. i \in Nat \ {0}
      BY <2>1
    <3> QED
      BY <2>1, <3>1, PageIs
  <2>3. last(i-1) = k
    <3>1. k \in Int /\ Len(L) \in Int /\ k <= Len(L)
      BY <2>1, <2>2
    <3> QED
      BY <3>1, MinOfTwo
  <2>4. pages[i] = SubSeq(L, k + 1, last(i))
    BY <2>1 DEF Page
  <2>5. SubSeq(L, 1, k) \o SubSeq(L, k + 1, last(i)) = SubSeq(L, 1, last(i))
    <3> HIDE DEF k, last
    <3>1. 1 \in 1..Len(L)+1 /\ k \in 1-1..Len(L) /\ last(i) \in k..Len(L)
      BY <2>2
    <3> QED
      BY <3>1, ConcatAdjacentSubSeq
  <2> HIDE DEF k, last
  <2> QED
    BY <2>1, <2>3, <2>4, <2>5
<1>3. FlattenSeq(pages) = g[n]
  <2> HIDE DEF g
  <2> QED
    BY <1>1, <1>2, FlattenIs
<1>4. n \in 1..n
  OBVIOUS
<1>5. g[n] = SubSeq(L, 1, last(n))
  BY <1>4
<1> QED
  BY <1>3, <1>5

Table(db) == IsFiniteSet(DOMAIN db) /\ DOMAIN db \subseteq Nat /\ db \in [DOMAIN db -> Rows]

Pairs(db, ids) == {p \in ids \X ids : Before(db, p[1], p[2])}

\* The order of the queries, by time and then by ID, is total on any photos of a table.
LEMMA BeforeIsTotal ==
    ASSUME NEW db, Table(db), NEW ids \in SUBSET DOMAIN db
    PROVE  /\ IsFiniteSet(ids) /\ TotalOn(ids, Pairs(db, ids))
           /\ \A x \in ids : Earlier(ids, Pairs(db, ids), x) = {y \in ids : Before(db, y, x)}
<1>1. \A x \in ids : x \in Nat /\ db[x].created \in Int
  BY DEF Table, Rows
<1>2. \A x, y \in ids : <<x, y>> \in Pairs(db, ids) <=> Before(db, x, y)
  BY DEF Pairs
<1>3. \A x \in ids : ~Before(db, x, x)
  BY <1>1 DEF Before
<1>4. \A x, y, z \in ids : Before(db, x, y) /\ Before(db, y, z) => Before(db, x, z)
  BY <1>1 DEF Before
<1>5. \A x, y \in ids : x # y => Before(db, x, y) \/ Before(db, y, x)
  BY <1>1 DEF Before
<1>6. IsFiniteSet(ids)
  BY FS_Subset DEF Table
<1> QED
  BY <1>2, <1>3, <1>4, <1>5, <1>6 DEF TotalOn, Earlier

\* A list has every photo once; the photos before one of them are those that come before it.
LEMMA ListOf ==
    ASSUME NEW db, Table(db), NEW ids \in SUBSET DOMAIN db
    PROVE  LET L == Ordered(db, ids)
               n == Cardinality(ids)
               at(x) == Cardinality({y \in ids : Before(db, y, x)})
           IN  /\ n \in Nat /\ L \in Seq(ids) /\ Len(L) = n
               /\ \A x \in ids : at(x) + 1 \in 1..n /\ L[at(x) + 1] = x
<1>1. IsFiniteSet(ids) /\ TotalOn(ids, Pairs(db, ids))
      /\ \A x \in ids : Earlier(ids, Pairs(db, ids), x) = {y \in ids : Before(db, y, x)}
  BY BeforeIsTotal
<1>2. Ordered(db, ids) = Sorted(ids, Pairs(db, ids))
  BY DEF Ordered, Pairs
<1> DEFINE R == Pairs(db, ids)
<1>3. \A x \in ids : Rank(ids, R, x) = Cardinality({y \in ids : Before(db, y, x)})
  BY <1>1 DEF Rank
<1> HIDE DEF R
<1>4. LET n == Cardinality(ids)
          q == Sorted(ids, R)
      IN  /\ n \in Nat /\ q \in Seq(ids) /\ Len(q) = n
          /\ \A x \in ids : Rank(ids, R, x) + 1 \in 1..n /\ q[Rank(ids, R, x) + 1] = x
  BY <1>1, SortedList DEF R
<1> QED
  BY <1>2, <1>3, <1>4 DEF R

------------------------------------------------------------------------------
(* Counts and the lists they open *)

FilterSet == [album : Albums \union {NoFilter}, tag : Tags \union {NoFilter},
              gps : {"all", "with-gps", "no-gps"}, hidden : {"all", "visible", "hidden"},
              start : Nat, end : Nat]

\* The total that is answered is the number of photos that match.
LEMMA TotalIs ==
    ASSUME NEW db, NEW f
    PROVE  Total(db, f) = Cardinality(Matching(db, f))
  BY DEF Total, GetAssets, countFilteredAssets

\* The columns of a row.
LEMMA RowTyped ==
    ASSUME NEW db, Table(db), NEW id \in DOMAIN db
    PROVE  /\ db[id] \in Rows /\ db[id].day \in Nat /\ db[id].located \in BOOLEAN
           /\ db[id].albums \in SUBSET Albums /\ db[id].tags \in SUBSET Tags
           /\ db[id].dir \in Seq(STRING)
  BY DEF Table, Rows

\* The count of an album, under the filters of place and day.
LEMMA AlbumCounts ==
    ASSUME NEW db, Table(db), NEW f \in FilterSet, NEW a \in DOMAIN GetAlbums(db, Albums, f)
    PROVE  GetAlbums(db, Albums, f)[a].filteredCount
             = Total(db, [f EXCEPT !.album = a, !.tag = NoFilter, !.hidden = "all"])
<1> DEFINE g == [f EXCEPT !.album = a, !.tag = NoFilter, !.hidden = "all"]
           counted == {id \in DOMAIN db : /\ a \in db[id].albums
                                          /\ Listed(db[id]) /\ OfGPS(db[id], f.gps) /\ InDates(db[id], f)}
<1>1. a \in Albums /\ GetAlbums(db, Albums, f)[a].filteredCount = AlbumCount(db, a, f.gps, f)
  BY DEF GetAlbums
<1>2. a # NoFilter
  BY <1>1, AnswersAssumption
<1>3. /\ g.album = a /\ g.tag = NoFilter /\ g.hidden = "all" /\ g.gps = f.gps
      /\ g.start = f.start /\ g.end = f.end
  BY DEF FilterSet
<1> HIDE DEF g
<1>4. \A id \in DOMAIN db : Matches(db[id], g) <=> id \in counted
  BY <1>2, <1>3 DEF Matches, OfAlbum, OfTag, OfHidden, InDates
<1>5. Matching(db, g) = counted
  BY <1>4 DEF Matching
<1> QED
  BY <1>1, <1>5, TotalIs DEF AlbumCount, g

\* The count of a tag, which no filter changes.
LEMMA TagCounts ==
    ASSUME NEW db, Table(db), NEW t \in Tags
    PROVE  GetTags(db, Tags)[t] = Total(db, [album |-> NoFilter, tag |-> t, gps |-> "all", hidden |-> "all",
                                             start |-> NoDay, end |-> NoDay])
<1> DEFINE g == [album |-> NoFilter, tag |-> t, gps |-> "all", hidden |-> "all", start |-> NoDay, end |-> NoDay]
<1>1. t # NoFilter
  BY AnswersAssumption
<1>2. \A id \in DOMAIN db : Matches(db[id], g) <=> t \in db[id].tags /\ Listed(db[id])
  BY <1>1 DEF Matches, OfAlbum, OfTag, OfHidden, OfGPS, InDates
<1>3. Matching(db, g) = {id \in DOMAIN db : t \in db[id].tags /\ Listed(db[id])}
  BY <1>2 DEF Matching
<1> QED
  BY <1>3, TotalIs DEF GetTags

\* The count of a day.
LEMMA CountsOfDays ==
    ASSUME NEW db, Table(db), NEW f \in FilterSet, NEW d \in DOMAIN DayCounts(db, f)
    PROVE  DayCounts(db, f)[d] = Total(db, [f EXCEPT !.start = d, !.end = d])
<1> DEFINE g == [f EXCEPT !.start = d, !.end = d]
<1>1. /\ d # NoDay /\ \E id \in Matching(db, f) : db[id].day = d
      /\ DayCounts(db, f)[d] = Cardinality({id \in Matching(db, f) : db[id].day = d})
  BY DEF DayCounts
<1>2. PICK known \in Matching(db, f) : db[known].day = d
  BY <1>1
<1>3. d \in Nat /\ InDates(db[known], f)
  BY <1>2, RowTyped DEF Matching, Matches
<1>4. /\ g.album = f.album /\ g.tag = f.tag /\ g.hidden = f.hidden /\ g.gps = f.gps
      /\ g.start = d /\ g.end = d /\ f.start \in Nat /\ f.end \in Nat
  BY DEF FilterSet
<1> HIDE DEF g
<1>5. ASSUME NEW id \in DOMAIN db
      PROVE  InDates(db[id], g) <=> InDates(db[id], f) /\ db[id].day = d
  <2>1. db[id].day \in Nat
    BY RowTyped
  <2>2. InDates(db[id], g) <=> db[id].day = d
    BY <1>1, <1>3, <1>4, <2>1 DEF InDates, NoDay
  <2>3. db[id].day = d => InDates(db[id], f)
    BY <1>2, <1>3 DEF InDates
  <2> QED
    BY <2>2, <2>3
<1>6. \A id \in DOMAIN db : Matches(db[id], g) <=> Matches(db[id], f) /\ db[id].day = d
  BY <1>4, <1>5 DEF Matches, OfHidden, OfGPS
<1>7. Matching(db, g) = {id \in Matching(db, f) : db[id].day = d}
  BY <1>6 DEF Matching
<1> QED
  BY <1>1, <1>7, TotalIs DEF g

\* The markers are the photos with a place.
LEMMA MarkerCount ==
    ASSUME NEW db, Table(db), NEW f \in FilterSet
    PROVE  Cardinality(Markers(db, f)) = Total(db, [f EXCEPT !.gps = "with-gps", !.hidden = "all"])
<1> DEFINE g == [f EXCEPT !.gps = "with-gps", !.hidden = "all"]
<1>1. /\ g.album = f.album /\ g.tag = f.tag /\ g.hidden = "all" /\ g.gps = "with-gps"
      /\ g.start = f.start /\ g.end = f.end
  BY DEF FilterSet
<1> HIDE DEF g
<1>2. \A id \in DOMAIN db : Matches(db[id], g) <=> MarkerMatches(db[id], f)
  BY <1>1 DEF Matches, MarkerMatches, OfHidden, OfGPS, InDates
<1>3. Matching(db, g) = Markers(db, f)
  BY <1>2 DEF Matching, Markers
<1> QED
  BY <1>3, TotalIs DEF g

\* The photos with a place and those without are all of them, whatever the filter says of places.
LEMMA MissingCount ==
    ASSUME NEW db, Table(db), NEW f \in FilterSet
    PROVE  MissingLocationCount(db, f) + Total(db, [f EXCEPT !.gps = "with-gps"])
             = Total(db, [f EXCEPT !.gps = "all"])
<1> DEFINE no == [f EXCEPT !.gps = "no-gps"]
           with == [f EXCEPT !.gps = "with-gps"]
           any == [f EXCEPT !.gps = "all"]
<1>1. \A g \in {no, with, any} :
        /\ g.album = f.album /\ g.tag = f.tag /\ g.hidden = f.hidden
        /\ g.start = f.start /\ g.end = f.end
  BY DEF FilterSet
<1>2. no.gps = "no-gps" /\ with.gps = "with-gps" /\ any.gps = "all"
  BY DEF FilterSet
<1> HIDE DEF no, with, any
<1>3. ASSUME NEW id \in DOMAIN db
      PROVE  /\ Matches(db[id], no) <=> Matches(db[id], any) /\ ~db[id].located
             /\ Matches(db[id], with) <=> Matches(db[id], any) /\ db[id].located
  <2>1. /\ InDates(db[id], no) <=> InDates(db[id], f)
        /\ InDates(db[id], with) <=> InDates(db[id], f)
        /\ InDates(db[id], any) <=> InDates(db[id], f)
    BY <1>1 DEF InDates
  <2> QED
    BY <1>1, <1>2, <2>1 DEF Matches, OfGPS, OfHidden
<1>4. /\ Matching(db, no) \union Matching(db, with) = Matching(db, any)
      /\ Matching(db, no) \intersect Matching(db, with) = {}
  BY <1>3 DEF Matching
<1>5. /\ IsFiniteSet(Matching(db, no)) /\ IsFiniteSet(Matching(db, with))
  <2>1. Matching(db, no) \in SUBSET DOMAIN db /\ Matching(db, with) \in SUBSET DOMAIN db
    BY DEF Matching
  <2> QED
    BY <2>1, FS_Subset DEF Table
<1>6. /\ Cardinality(Matching(db, no)) \in Nat /\ Cardinality(Matching(db, with)) \in Nat
      /\ Cardinality({}) = 0
  BY <1>5, FS_CardinalityType, FS_EmptySet
<1>7. Cardinality(Matching(db, any))
        = Cardinality(Matching(db, no)) + Cardinality(Matching(db, with)) - 0
  <2>1. Cardinality(Matching(db, no) \union Matching(db, with))
          = Cardinality(Matching(db, no)) + Cardinality(Matching(db, with))
              - Cardinality(Matching(db, no) \intersect Matching(db, with))
    BY ONLY <1>5, FS_Union
  <2> QED
    BY ONLY <1>4, <1>6, <2>1
<1>8. MissingLocationCount(db, f) = Cardinality(Matching(db, no))
  BY DEF MissingLocationCount, countFilteredAssets, no
<1> QED
  BY <1>6, <1>7, <1>8, TotalIs DEF with, any

\* The count of a folder; no photo that a list shows is missing from its folder.
LEMMA FolderCounts ==
    ASSUME NEW db, Table(db), NEW f \in FilterSet
    PROVE  /\ \A d \in DOMAIN FolderTree(db, f) : FolderTree(db, f)[d] = Cardinality(FolderAssets(db, d, f))
           /\ \A id \in Matching(db, f) :
                AssetFolder(db[id]) # <<>> => id \in FolderAssets(db, AssetFolder(db[id]), f)
<1>1. ASSUME NEW d \in DOMAIN FolderTree(db, f) PROVE IsFolder(d)
  <2> DEFINE dirs == {db[id].dir : id \in Matching(db, f)}
             folders == {x \in dirs : IsFolder(x)}
             below(dir) == {SubSeq(dir, 1, n) : n \in 1..Len(dir)}
             paths == {below(dir) : dir \in folders}
             all == UNION paths
  <2>4. DOMAIN FolderTree(db, f) = (UNION {below(dir) : dir \in {x \in dirs : IsFolder(x)}}) \ {<<"/">>}
    BY DEF FolderTree
  <2>3. DOMAIN FolderTree(db, f) = all \ {<<"/">>}
    BY <2>4
  <2> HIDE DEF all
  <2>5. d \in all /\ d # <<"/">>
    BY <2>3
  <2> USE DEF all
  <2> HIDE DEF paths
  <2>6. PICK path \in paths : d \in path
    BY <2>5
  <2> USE DEF paths
  <2> HIDE DEF below, folders
  <2>7. PICK dir \in folders : path = below(dir)
    BY <2>6
  <2> USE DEF below, folders
  <2>0. dir \in dirs /\ d \in below(dir) /\ d # <<"/">>
    BY <2>5, <2>6, <2>7
  <2>1. PICK n \in 1..Len(dir) : d = SubSeq(dir, 1, n)
    BY <2>0
  <2>2. dir \in Seq(STRING)
    BY RowTyped DEF Matching
  <2>8. Len(d) = n /\ n >= 1 /\ Len(<<>>) = 0
    BY <2>1, <2>2
  <2> QED
    BY <2>0, <2>1, <2>8 DEF IsFolder
<1>2. ASSUME NEW d \in DOMAIN FolderTree(db, f)
      PROVE  FolderTree(db, f)[d] = Cardinality({id \in Matching(db, f) : IsPrefix(d, db[id].dir)})
  BY DEF FolderTree
<1>3. ASSUME NEW id \in Matching(db, f), AssetFolder(db[id]) # <<>>
      PROVE  id \in FolderAssets(db, AssetFolder(db[id]), f)
  <2>1. IsFolder(db[id].dir) /\ AssetFolder(db[id]) = db[id].dir
    BY <1>3 DEF AssetFolder
  <2>2. db[id].dir \in Seq(STRING)
    BY RowTyped DEF Matching
  <2>3. IsPrefix(db[id].dir, db[id].dir)
    BY <2>2 DEF IsPrefix
  <2> QED
    BY <2>1, <2>3 DEF FolderAssets
<1> QED
  BY <1>1, <1>2, <1>3 DEF FolderAssets

\* Every count is the total of the list it opens, for every table and every filter.
THEOREM CountsAreTotals ==
    ASSUME NEW db, Table(db), NEW f \in FilterSet
    PROVE  CountsAgree(db, f)
<1>1. \A a \in DOMAIN GetAlbums(db, Albums, f) :
        GetAlbums(db, Albums, f)[a].filteredCount
          = Total(db, [f EXCEPT !.album = a, !.tag = NoFilter, !.hidden = "all"])
  BY AlbumCounts
<1>2. \A t \in Tags :
        GetTags(db, Tags)[t] = Total(db, [album |-> NoFilter, tag |-> t, gps |-> "all", hidden |-> "all",
                                          start |-> NoDay, end |-> NoDay])
  BY TagCounts
<1>3. \A d \in DOMAIN DayCounts(db, f) : DayCounts(db, f)[d] = Total(db, [f EXCEPT !.start = d, !.end = d])
  BY CountsOfDays
<1>4. /\ Cardinality(Markers(db, f)) = Total(db, [f EXCEPT !.gps = "with-gps", !.hidden = "all"])
      /\ MissingLocationCount(db, f) + Total(db, [f EXCEPT !.gps = "with-gps"]) = Total(db, [f EXCEPT !.gps = "all"])
  BY MarkerCount, MissingCount
<1>5. /\ \A d \in DOMAIN FolderTree(db, f) : FolderTree(db, f)[d] = Cardinality(FolderAssets(db, d, f))
      /\ \A id \in Matching(db, f) :
           AssetFolder(db[id]) # <<>> => id \in FolderAssets(db, AssetFolder(db[id]), f)
  BY FolderCounts
<1> QED
  BY <1>1, <1>2, <1>3, <1>4, <1>5 DEF CountsAgree

------------------------------------------------------------------------------
(* A list, read page by page *)

PageQuestions == [db : Dbs, f : Filters, more : BOOLEAN]

PagesInv ==
    kind = "pages" =>
        LET L == Ordered(question.db, Matching(question.db, question.f))
        IN  /\ question \in PageQuestions
            /\ answer \in Seq(Seq(Nat)) /\ Len(answer) = step
            /\ \A i \in 1..step : /\ answer[i] = Page(L, i, PageSize)
                                  /\ (i - 1) * PageSize <= Len(L)
                                  /\ i > 1 => (i - 1) * PageSize < Len(L)
            /\ question.more <=> step = 0 \/ step * PageSize < Len(L)

\* What the assumptions say of the tables and the filters.
LEMMA DbsAreTables ==
    /\ \A db \in Dbs : Table(db)
    /\ Filters \subseteq FilterSet
  BY DbsAssumption DEF Table, FilterSet

\* The list of the photos that match is as long as its total.
LEMMA ListOfMatching ==
    ASSUME NEW db, Table(db), NEW f
    PROVE  LET L == Ordered(db, Matching(db, f))
           IN  L \in Seq(Nat) /\ Len(L) = Total(db, f) /\ Len(L) \in Nat
<1>1. Matching(db, f) \in SUBSET DOMAIN db /\ Matching(db, f) \subseteq Nat
  BY DEF Matching, Table
<1> HIDE DEF Total
<1> DEFINE L == Ordered(db, Matching(db, f))
<1>2. L \in Seq(Matching(db, f)) /\ Len(L) = Cardinality(Matching(db, f)) /\ Len(L) \in Nat
  BY <1>1, ListOf
<1> HIDE DEF L
<1>3. L \in Seq(Nat)
  <2>1. \A i \in 1..Len(L) : L[i] \in Nat
    BY <1>1, <1>2
  <2> QED
    BY <1>2, <2>1
<1> QED
  BY <1>2, <1>3, TotalIs DEF L

\* One page more: it begins where the last one ended.
LEMMA NextPage ==
    ASSUME NEW L \in Seq(Nat), NEW size \in Nat \ {0}, NEW n \in Nat,
           n = 0 \/ n * size < Len(L), NEW m, m = n + 1
    PROVE  /\ Page(L, m, size) \in Seq(Nat)
           /\ (m - 1) * size <= Len(L) /\ (m > 1 => (m - 1) * size < Len(L))
<1>1. m \in Nat \ {0} /\ m - 1 = n /\ n * size \in Nat /\ Len(L) \in Nat
  OBVIOUS
<1>2. n * size <= Len(L)
  BY <1>1
<1>3. (m - 1) * size <= Len(L)
  BY <1>1, <1>2
<1>4. Page(L, m, size) \in Seq(Nat)
  BY <1>1, <1>3, PageIs
<1> QED
  BY <1>1, <1>3, <1>4

\* Nothing is read at first.
LEMMA PagesInit == AnswersInit => PagesInv
<1> SUFFICES ASSUME AnswersInit, kind = "pages" PROVE PagesInv
  BY DEF PagesInv
<1>1. /\ step = 0 /\ answer = <<>>
      /\ \E db \in Dbs, f \in Filters : question = [db |-> db, f |-> f, more |-> TRUE]
  BY DEF AnswersInit, InitPages, InitFocus, InitSuggest, InitMatch, InitHistory, InitGeocode, InitCall
<1>2. question \in PageQuestions /\ question.more
  BY <1>1 DEF PageQuestions
<1>3. answer \in Seq(Seq(Nat)) /\ Len(answer) = 0 /\ 1..0 = {}
  BY <1>1
<1> QED
  BY <1>1, <1>2, <1>3 DEF PagesInv

\* Asking for the next page.
LEMMA PagesStep == PagesInv /\ [AnswersNext]_answersVars => PagesInv'
<1> SUFFICES ASSUME PagesInv, [AnswersNext]_answersVars, kind' = "pages" PROVE PagesInv'
  BY DEF PagesInv
<1>1. CASE AskPage
  <2> DEFINE db == question.db
             f == question.f
             L == Ordered(db, Matching(db, f))
             a == GetAssets(db, f, step + 1, PageSize)
  <2>1. /\ kind = "pages" /\ question.more /\ step' = step + 1
        /\ answer' = Append(answer, a.items)
        /\ question' = [question EXCEPT !.more = a.hasNextPage]
    BY <1>1 DEF AskPage
  <2>2. /\ question \in PageQuestions /\ answer \in Seq(Seq(Nat)) /\ Len(answer) = step /\ step \in Nat
        /\ \A i \in 1..step : /\ answer[i] = Page(L, i, PageSize)
                              /\ (i - 1) * PageSize <= Len(L)
                              /\ i > 1 => (i - 1) * PageSize < Len(L)
        /\ step = 0 \/ step * PageSize < Len(L)
    BY <2>1 DEF PagesInv
  <2>3. Table(db) /\ PageSize \in Nat \ {0}
    BY <2>2, DbsAreTables, AnswersAssumption DEF PageQuestions
  <2>4. L \in Seq(Nat) /\ Len(L) = Total(db, f) /\ Len(L) \in Nat
    BY <2>3, ListOfMatching
  <2>5. /\ a.items = Page(L, step + 1, PageSize)
        /\ a.hasNextPage <=> (step + 1) * PageSize < Len(L)
    <3>1. Total(db, f) = countFilteredAssets(db, f)
      BY DEF Total, GetAssets
    <3> QED
      BY <2>4, <3>1 DEF GetAssets
  <2>7. a.hasNextPage \in BOOLEAN
    BY DEF GetAssets
  <2>6. /\ question' \in PageQuestions /\ question'.db = db /\ question'.f = f
        /\ question'.more = a.hasNextPage
    BY <2>1, <2>2, <2>7 DEF PageQuestions
  <2> HIDE DEF a
  <2>8. L' = L
    BY <2>6
  <2> HIDE DEF L
  <2>9. \A i : i = step + 1 => /\ Page(L, i, PageSize) \in Seq(Nat)
                               /\ (i - 1) * PageSize <= Len(L) /\ (i > 1 => (i - 1) * PageSize < Len(L))
    BY <2>2, <2>3, <2>4, NextPage
  <2>10. answer' \in Seq(Seq(Nat)) /\ Len(answer') = step'
    BY <2>1, <2>2, <2>5, <2>9
  <2>11. ASSUME NEW i \in 1..step'
         PROVE  /\ answer'[i] = Page(L, i, PageSize)
                /\ (i - 1) * PageSize <= Len(L)
                /\ i > 1 => (i - 1) * PageSize < Len(L)
    <3>1. CASE i = step + 1
      <4>1. answer'[i] = a.items
        BY <2>1, <2>2, <3>1
      <4>2. answer'[i] = Page(L, i, PageSize)
        BY <2>5, <3>1, <4>1
      <4>3. (i - 1) * PageSize <= Len(L) /\ (i > 1 => (i - 1) * PageSize < Len(L))
        BY <2>9, <3>1
      <4> QED
        BY <4>2, <4>3
    <3>2. CASE i # step + 1
      <4>1. i \in 1..step
        BY <2>1, <2>2, <3>2
      <4>2. answer'[i] = answer[i]
        BY <2>1, <2>2, <4>1
      <4> QED
        BY <2>2, <4>1, <4>2
    <3> QED
      BY <3>1, <3>2
  <2>12. question'.more <=> step' = 0 \/ step' * PageSize < Len(L)
    <3>1. step' # 0
      BY <2>1, <2>2
    <3> QED
      BY <2>1, <2>5, <2>6, <3>1
  <2> QED
    BY <2>6, <2>8, <2>10, <2>11, <2>12 DEF PagesInv, L
<1>2. CASE UNCHANGED answersVars
  BY <1>2 DEF PagesInv, answersVars
<1>3. ~AskPage => UNCHANGED answersVars
  BY DEF AnswersNext, AskFocus, AskSuggest, AskMatch, Save, AskGeocoders, AskCall
<1> QED
  BY <1>1, <1>2, <1>3

\* What the pages show, from the invariant.
LEMMA PagesShow ==
    ASSUME PagesInv, kind = "pages"
    PROVE  /\ \A i \in DOMAIN answer : i > 1 => answer[i] # <<>>
           /\ ~question.more => FlattenSeq(answer) = Ordered(question.db, Matching(question.db, question.f))
           /\ ~question.more => CountsAgree(question.db, question.f)
<1> DEFINE db == question.db
           f == question.f
           L == Ordered(db, Matching(db, f))
<1>1. /\ question \in PageQuestions /\ answer \in Seq(Seq(Nat)) /\ Len(answer) = step /\ step \in Nat
      /\ \A i \in 1..step : /\ answer[i] = Page(L, i, PageSize)
                            /\ (i - 1) * PageSize <= Len(L)
                            /\ i > 1 => (i - 1) * PageSize < Len(L)
      /\ question.more <=> step = 0 \/ step * PageSize < Len(L)
  BY DEF PagesInv
<1>2. Table(db) /\ PageSize \in Nat \ {0} /\ f \in FilterSet
  BY <1>1, DbsAreTables, AnswersAssumption DEF PageQuestions
<1>3. L \in Seq(Nat) /\ Len(L) \in Nat
  BY <1>2, ListOfMatching
<1> HIDE DEF L
<1>4. ASSUME NEW i \in DOMAIN answer, i > 1 PROVE answer[i] # <<>>
  <2>1. i \in 1..step /\ i \in Nat \ {0}
    BY <1>1
  <2>2. (i - 1) * PageSize <= Len(L) /\ (i - 1) * PageSize < Len(L) /\ answer[i] = Page(L, i, PageSize)
    BY <1>1, <1>4, <2>1
  <2> DEFINE first == (i - 1) * PageSize
             last == Min({i * PageSize, Len(L)})
  <2>3. /\ first \in 0..Len(L) /\ last = IF i * PageSize <= Len(L) THEN i * PageSize ELSE Len(L)
        /\ Len(Page(L, i, PageSize)) = last - first /\ i * PageSize = first + PageSize
    <3>1. LET o == (i - 1) * PageSize
              l == Min({i * PageSize, Len(L)})
          IN  /\ o \in 0..Len(L) /\ l \in o..Len(L)
              /\ l = IF i * PageSize <= Len(L) THEN i * PageSize ELSE Len(L)
              /\ Page(L, i, PageSize) \in Seq(Nat) /\ Len(Page(L, i, PageSize)) = l - o
              /\ \A n \in 1..l - o : Page(L, i, PageSize)[n] = L[o + n]
              /\ i * PageSize = o + PageSize
      <4> HIDE DEF first, last
      <4> QED
        BY <1>2, <1>3, <2>1, <2>2, PageIs
    <3> QED
      BY <3>1
  <2> HIDE DEF last, first
  <2>4. last - first > 0
    <3>1. first < Len(L)
      BY <2>2 DEF first
    <3> QED
      BY <1>2, <1>3, <2>3, <3>1
  <2>5. Len(answer[i]) # 0
    BY <2>2, <2>3, <2>4
  <2> QED
    BY <2>5
<1>5. ASSUME ~question.more PROVE FlattenSeq(answer) = L
  <2>1. step \in Nat \ {0} /\ ~(step * PageSize < Len(L))
    BY <1>1, <1>5
  <2>2. FlattenSeq(answer) = SubSeq(L, 1, Min({step * PageSize, Len(L)}))
    BY <1>1, <1>2, <1>3, <2>1, PagesFlatten
  <2>3. Min({step * PageSize, Len(L)}) = Len(L)
    <3>1. step * PageSize \in Int /\ Len(L) \in Int
      BY <1>2, <1>3, <2>1
    <3> HIDE DEF Min
    <3>2. Min({step * PageSize, Len(L)}) = IF step * PageSize <= Len(L) THEN step * PageSize ELSE Len(L)
      BY <3>1, MinOfTwo
    <3> QED
      BY <2>1, <3>1, <3>2
  <2>4. SubSeq(L, 1, Len(L)) = L
    BY <1>3
  <2> QED
    BY <2>2, <2>3, <2>4
<1> QED
  BY <1>2, <1>4, <1>5, CountsAreTotals DEF L

------------------------------------------------------------------------------
(* The page of a marker *)

\* The located photos of an album and a tag, whatever their day, hidden or not.
LocatedOf(album, tag) ==
    [album |-> album, tag |-> tag, gps |-> "with-gps", hidden |-> "all", start |-> NoDay, end |-> NoDay]

\* What the grid lists when a marker is opened.
LEMMA LocatedMatch ==
    ASSUME NEW db, NEW album, NEW tag
    PROVE  Matching(db, LocatedOf(album, tag))
             = {id \in DOMAIN db : /\ db[id].located /\ Listed(db[id])
                                   /\ OfAlbum(db[id], album) /\ OfTag(db[id], tag)}
<1> DEFINE f == LocatedOf(album, tag)
<1>1. \A row : Matches(row, f) <=> /\ row.located /\ Listed(row)
                                   /\ OfAlbum(row, album) /\ OfTag(row, tag)
  BY DEF LocatedOf, Matches, OfGPS, OfHidden, InDates
<1> HIDE DEF f
<1>2. Matching(db, f) = {id \in DOMAIN db : Matches(db[id], f)}
  BY DEF Matching
<1> QED
  BY <1>1, <1>2 DEF f

\* The page computed from the position of a photo has it.
LEMMA PageOfPosition ==
    ASSUME NEW L \in Seq(Nat), NEW size \in Nat \ {0}, NEW p \in Nat, p + 1 \in 1..Len(L)
    PROVE  L[p + 1] \in ToSet(Page(L, p \div size + 1, size))
<1> DEFINE k == p \div size
           page == k + 1
           first == (page - 1) * size
<1>1. k \in Nat /\ k * size <= p /\ p < k * size + size
  OBVIOUS
<1> HIDE DEF k
<1>2. page \in Nat \ {0} /\ page - 1 = k
  BY <1>1
<1>3. first = k * size /\ first \in Nat
  BY <1>1, <1>2
<1> HIDE DEF page
<1>4. first <= Len(L) /\ Len(L) \in Nat
  BY <1>1, <1>3
<1> DEFINE last == Min({page * size, Len(L)})
<1>5. /\ last = IF page * size <= Len(L) THEN page * size ELSE Len(L)
      /\ Page(L, page, size) \in Seq(Nat) /\ Len(Page(L, page, size)) = last - first
      /\ \A i \in 1..last - first : Page(L, page, size)[i] = L[first + i]
      /\ page * size = first + size
  <2> HIDE DEF last, first
  <2>1. (page - 1) * size <= Len(L)
    BY <1>4 DEF first
  <2>2. LET f == (page - 1) * size
            l == Min({page * size, Len(L)})
        IN  /\ f \in 0..Len(L) /\ l \in f..Len(L)
            /\ l = IF page * size <= Len(L) THEN page * size ELSE Len(L)
            /\ Page(L, page, size) \in Seq(Nat) /\ Len(Page(L, page, size)) = l - f
            /\ \A i \in 1..l - f : Page(L, page, size)[i] = L[f + i]
            /\ page * size = f + size
    BY <1>2, <2>1, PageIs
  <2> QED
    BY <2>2 DEF last, first
<1> HIDE DEF first, last
<1>6. p - first + 1 \in 1..last - first /\ first + (p - first + 1) = p + 1
  <2>1. first <= p /\ p < first + size /\ first \in Nat
    BY <1>1, <1>3
  <2>2. last = IF first + size <= Len(L) THEN first + size ELSE Len(L)
    BY <1>5
  <2>3. p + 1 <= Len(L) /\ Len(L) \in Nat
    BY <1>4
  <2> QED
    BY <2>1, <2>2, <2>3
<1>7. Page(L, page, size)[p - first + 1] = L[p + 1] /\ p - first + 1 \in DOMAIN Page(L, page, size)
  BY <1>5, <1>6
<1>8. L[p + 1] \in ToSet(Page(L, page, size))
  BY <1>7 DEF ToSet
<1> QED
  BY <1>8 DEF page, k

\* The page at the position of a photo has the photo.
LEMMA PageOfPhoto ==
    ASSUME NEW db, Table(db), NEW album, NEW tag, NEW size \in Nat \ {0},
           NEW id \in Matching(db, LocatedOf(album, tag))
    PROVE  id \in ToSet(GetAssets(db, LocatedOf(album, tag), Position(db, id, album, tag) \div size + 1, size).items)
<1> DEFINE ids == Matching(db, LocatedOf(album, tag))
           L == Ordered(db, ids)
           p == Position(db, id, album, tag)
<1>1. ids \in SUBSET DOMAIN db
  BY DEF Matching
<1>2. p = Cardinality({y \in ids : Before(db, y, id)})
  <2>1. {y \in ids : Before(db, y, id)}
          = {y \in DOMAIN db : /\ db[y].located /\ Listed(db[y])
                               /\ OfAlbum(db[y], album) /\ OfTag(db[y], tag) /\ Before(db, y, id)}
    BY LocatedMatch
  <2> QED
    BY <2>1 DEF Position
<1> HIDE DEF ids, p
<1>3. /\ Cardinality(ids) \in Nat /\ L \in Seq(ids) /\ Len(L) = Cardinality(ids)
      /\ p + 1 \in 1..Cardinality(ids) /\ L[p + 1] = id
  BY <1>1, <1>2, ListOf DEF ids
<1>4. L \in Seq(Nat)
  <2> HIDE DEF L
  <2>1. ids \subseteq Nat
    BY <1>1 DEF Table
  <2>2. L \in Seq(ids) /\ Len(L) \in Nat
    BY <1>3
  <2>3. \A i \in 1..Len(L) : L[i] \in ids
    BY <2>2
  <2>4. \A i \in 1..Len(L) : L[i] \in Nat
    BY <2>1, <2>3
  <2> QED
    BY <2>2, <2>4
<1>5. p \in Nat
  <2>1. IsFiniteSet({y \in ids : Before(db, y, id)})
    <3>1. IsFiniteSet(ids)
      BY <1>1, FS_Subset DEF Table
    <3> QED
      BY <3>1, FS_Subset
  <2> QED
    BY <1>2, <2>1, FS_CardinalityType
<1> HIDE DEF L
<1>6. id \in ToSet(Page(L, p \div size + 1, size))
  BY <1>3, <1>4, <1>5, PageOfPosition
<1> QED
  BY <1>6 DEF GetAssets, L, ids, p

FocusQuestions ==
    {q \in [db : Dbs, id : Nat, album : Albums \union {NoFilter}, tag : Tags \union {NoFilter}, albumMode : BOOLEAN] :
       q.id \in Matching(q.db, LocatedOf(q.album, q.tag))}

\* Whatever the click found, the page that is opened is one with the photo.
LEMMA FocusFinds ==
    ASSUME NEW q \in FocusQuestions
    PROVE  LET target == FocusTarget(q.db, q.id, q.albumMode, q.album, q.tag, PageSize)
           IN  q.id \in ToSet(GetAssets(q.db, LocatedOf(target.album, q.tag), target.page, PageSize).items)
<1> DEFINE db == q.db
           id == q.id
           row == db[id]
           active == IF q.albumMode THEN q.album ELSE NoFilter
           info == AssetPageInfo(db, id, active, q.tag, PageSize)
<1>0. /\ Table(db) /\ PageSize \in Nat \ {0} /\ id \in DOMAIN db
      /\ row.located /\ Listed(row) /\ OfAlbum(row, q.album) /\ OfTag(row, q.tag)
  BY LocatedMatch, DbsAreTables, AnswersAssumption DEF FocusQuestions
<1>1. /\ Table(db) /\ PageSize \in Nat \ {0} /\ id \in DOMAIN db
      /\ id \in Matching(db, LocatedOf(active, q.tag))
      /\ row.located /\ Listed(row) /\ OfAlbum(row, active) /\ OfTag(row, q.tag)
  <2>1. OfAlbum(row, active)
    BY <1>0 DEF OfAlbum
  <2> HIDE DEF active
  <2> QED
    BY <1>0, <2>1, LocatedMatch
<1>2. row.albums \subseteq Albums
  BY <1>1, RowTyped
<1>3. ASSUME NEW a, OfAlbum(row, a)
      PROVE  /\ AssetPageInfo(db, id, a, q.tag, PageSize).page = Position(db, id, a, q.tag) \div PageSize + 1
             /\ AssetPageInfo(db, id, a, q.tag, PageSize).album
                  = IF a # NoFilter THEN a
                    ELSE IF row.albums = {} THEN NoAlbum ELSE CHOOSE x \in row.albums : TRUE
  <2>1. (IF OfAlbum(row, a) THEN a ELSE NoFilter) = a /\ (IF OfTag(row, q.tag) THEN q.tag ELSE NoFilter) = q.tag
    BY <1>1, <1>3
  <2> QED
    BY <2>1 DEF AssetPageInfo
<1>4. CASE q.albumMode /\ active = NoFilter /\ info.album # NoAlbum
  <2>1. info.album = IF row.albums = {} THEN NoAlbum ELSE CHOOSE x \in row.albums : TRUE
    BY <1>1, <1>3, <1>4
  <2>2. info.album \in row.albums
    <3>1. row.albums # {} /\ info.album = CHOOSE x \in row.albums : TRUE
      BY <1>4, <2>1
    <3> HIDE DEF info
    <3> QED
      BY <3>1
  <2> DEFINE album == info.album
  <2>3. FocusTarget(db, id, q.albumMode, q.album, q.tag, PageSize)
          = [page |-> AssetPageInfo(db, id, album, q.tag, PageSize).page, album |-> album]
    BY <1>4 DEF FocusTarget
  <2> HIDE DEF album, info
  <2>4. OfAlbum(row, album)
    BY <2>2 DEF OfAlbum, album
  <2>5. AssetPageInfo(db, id, album, q.tag, PageSize).page = Position(db, id, album, q.tag) \div PageSize + 1
    BY <1>3, <2>4
  <2>6. id \in Matching(db, LocatedOf(album, q.tag))
    BY <1>1, <2>4, LocatedMatch
  <2>7. id \in ToSet(GetAssets(db, LocatedOf(album, q.tag),
                               Position(db, id, album, q.tag) \div PageSize + 1, PageSize).items)
    BY <1>1, <2>6, PageOfPhoto
  <2> QED
    BY <2>3, <2>5, <2>7
<1>5. CASE ~(q.albumMode /\ active = NoFilter /\ info.album # NoAlbum)
  <2>1. FocusTarget(db, id, q.albumMode, q.album, q.tag, PageSize) = [page |-> info.page, album |-> active]
    BY <1>5 DEF FocusTarget
  <2>2. info.page = Position(db, id, active, q.tag) \div PageSize + 1
    BY <1>1, <1>3
  <2>3. id \in ToSet(GetAssets(db, LocatedOf(active, q.tag),
                               Position(db, id, active, q.tag) \div PageSize + 1, PageSize).items)
    BY <1>1, PageOfPhoto
  <2> QED
    BY <2>1, <2>2, <2>3
<1> QED
  BY <1>4, <1>5

FocusInv ==
    kind = "focus" =>
        /\ question \in FocusQuestions
        /\ step = 1 => question.id \in ToSet(answer.items)
        /\ step \in {0, 1}

\* A marker is a photo that the map showed.
LEMMA FocusInit == AnswersInit => FocusInv
<1> SUFFICES ASSUME AnswersInit, kind = "focus" PROVE FocusInv
  BY DEF FocusInv
<1>1. step = 0 /\ InitFocus
  BY DEF AnswersInit, InitPages, InitFocus, InitSuggest, InitMatch, InitHistory, InitGeocode, InitCall
<1>2. PICK db \in Dbs, album \in Albums \union {NoFilter}, tag \in Tags \union {NoFilter}, mode \in BOOLEAN :
        \E id \in Markers(db, [album |-> album, tag |-> tag, start |-> NoDay, end |-> NoDay]) :
          question = [db |-> db, id |-> id, album |-> album, tag |-> tag, albumMode |-> mode]
  BY <1>1 DEF InitFocus
<1> DEFINE f == [album |-> album, tag |-> tag, start |-> NoDay, end |-> NoDay]
<1>3. PICK id \in Markers(db, f) :
        question = [db |-> db, id |-> id, album |-> album, tag |-> tag, albumMode |-> mode]
  BY <1>2
<1>4. /\ id \in DOMAIN db /\ id \in Nat
      /\ db[id].located /\ Listed(db[id]) /\ OfAlbum(db[id], album) /\ OfTag(db[id], tag)
  BY DbsAssumption DEF Markers, MarkerMatches
<1>5. id \in Matching(db, LocatedOf(album, tag))
  BY <1>4, LocatedMatch
<1>6. question \in FocusQuestions
  BY <1>3, <1>4, <1>5 DEF FocusQuestions
<1> QED
  BY <1>1, <1>6 DEF FocusInv

\* Looking the marker up.
LEMMA FocusStep == FocusInv /\ [AnswersNext]_answersVars => FocusInv'
<1> SUFFICES ASSUME FocusInv, [AnswersNext]_answersVars, kind' = "focus" PROVE FocusInv'
  BY DEF FocusInv
<1>1. CASE AskFocus
  <2> DEFINE target == FocusTarget(question.db, question.id, question.albumMode, question.album, question.tag, PageSize)
             items == GetAssets(question.db, LocatedOf(target.album, question.tag), target.page, PageSize).items
  <2>1. kind = "focus" /\ step' = 1 /\ question' = question /\ answer' = [items |-> items]
    BY <1>1 DEF AskFocus, LocatedOf
  <2>2. question \in FocusQuestions
    BY <2>1 DEF FocusInv
  <2>3. question.id \in ToSet(items)
    BY <2>2, FocusFinds
  <2> HIDE DEF items
  <2> QED
    BY <2>1, <2>2, <2>3 DEF FocusInv
<1>2. CASE UNCHANGED answersVars
  BY <1>2 DEF FocusInv, answersVars
<1>3. ~AskFocus => UNCHANGED answersVars
  BY DEF AnswersNext, AskPage, AskSuggest, AskMatch, Save, AskGeocoders, AskCall
<1> QED
  BY <1>1, <1>2, <1>3

\* Every list shows each of its photos once and in order, every count beside it is its
\* total, and the page of a marker has the photo: for all tables and filters.
THEOREM ListsAgreeHolds == AnswersSpec => []ListsAgree
<1> DEFINE Inv == PagesInv /\ FocusInv
<1>1. AnswersInit => Inv
  BY PagesInit, FocusInit
<1>2. Inv /\ [AnswersNext]_answersVars => Inv'
  BY PagesStep, FocusStep
<1>3. Inv => ListsAgree
  BY PagesShow DEF ListsAgree, FocusInv
<1> QED
  BY <1>1, <1>2, <1>3, PTL DEF AnswersSpec

------------------------------------------------------------------------------
(* What the client takes of an answer, and what it says in a call *)

\* A table that is joined from two keeps what each of them says.
LEMMA Keeps ==
    ASSUME NEW f, NEW g, DOMAIN f \intersect DOMAIN g = {}
    PROVE  /\ DOMAIN (f \uplus g) = DOMAIN f \union DOMAIN g
           /\ \A x \in DOMAIN f : (f \uplus g)[x] = f[x]
           /\ \A x \in DOMAIN g : (f \uplus g)[x] = g[x]
<1>1. \A x \in DOMAIN g : x \notin DOMAIN f
  OBVIOUS
<1> QED
  BY <1>1 DEF \uplus

\* The shapes of each table of guards.
LEMMA GuardDomains ==
    /\ DOMAIN AssetGuards = {"asset", "page"}
    /\ DOMAIN SuggestionGuards = {"cluster", "suggestions"}
    /\ DOMAIN CatalogGuards = {"album", "tag", "marker", "health"}
    /\ DOMAIN ItemGuards = {"count", "folder", "pageInfo", "status", "library", "favorite", "node", "tree"}
    /\ DOMAIN GPXGuards = {"point", "match", "track", "preview"}
    /\ DOMAIN DawarichGuards = {"dawarichTrack", "dawarichStatus"}
    /\ DOMAIN AuthGuards = {"me", "user", "authStatus"}
    /\ DOMAIN ListGuards = {"answer"}
    /\ DOMAIN SearchGuards = {"place"}
<1>1. DOMAIN AssetGuards = {"asset", "page"}
  BY DEF AssetGuards
<1>2. DOMAIN SuggestionGuards = {"cluster", "suggestions"}
  BY DEF SuggestionGuards
<1>3. DOMAIN CatalogGuards = {"album", "tag", "marker", "health"}
  BY DEF CatalogGuards
<1>4. DOMAIN ItemGuards = {"count", "folder", "pageInfo", "status", "library", "favorite", "node", "tree"}
  BY DEF ItemGuards
<1>5. DOMAIN GPXGuards = {"point", "match", "track", "preview"}
  BY DEF GPXGuards
<1>6. DOMAIN DawarichGuards = {"dawarichTrack", "dawarichStatus"}
  BY DEF DawarichGuards
<1>7. DOMAIN AuthGuards = {"me", "user", "authStatus"}
  BY DEF AuthGuards
<1>8. DOMAIN ListGuards = {"answer"}
  BY DEF ListGuards
<1>9. DOMAIN SearchGuards = {"place"}
  BY DEF SearchGuards
<1> QED
  BY <1>1, <1>2, <1>3, <1>4, <1>5, <1>6, <1>7, <1>8, <1>9

\* The tables of guards have no shape in common.
LEMMA GuardsKeep ==
    /\ DOMAIN Guards = DOMAIN AssetGuards \union DOMAIN SuggestionGuards \union DOMAIN CatalogGuards
         \union DOMAIN ItemGuards \union DOMAIN GPXGuards \union DOMAIN DawarichGuards
         \union DOMAIN AuthGuards \union DOMAIN ListGuards \union DOMAIN SearchGuards
    /\ \A s \in DOMAIN AssetGuards : Guards[s] = AssetGuards[s]
    /\ \A s \in DOMAIN SuggestionGuards : Guards[s] = SuggestionGuards[s]
    /\ \A s \in DOMAIN CatalogGuards : Guards[s] = CatalogGuards[s]
    /\ \A s \in DOMAIN ItemGuards : Guards[s] = ItemGuards[s]
    /\ \A s \in DOMAIN GPXGuards : Guards[s] = GPXGuards[s]
    /\ \A s \in DOMAIN DawarichGuards : Guards[s] = DawarichGuards[s]
    /\ \A s \in DOMAIN AuthGuards : Guards[s] = AuthGuards[s]
    /\ \A s \in DOMAIN ListGuards : Guards[s] = ListGuards[s]
    /\ \A s \in DOMAIN SearchGuards : Guards[s] = SearchGuards[s]
<1> DEFINE g2 == AssetGuards \uplus SuggestionGuards
           g3 == g2 \uplus CatalogGuards
           g4 == g3 \uplus ItemGuards
           g5 == g4 \uplus GPXGuards
           g6 == g5 \uplus DawarichGuards
           g7 == g6 \uplus AuthGuards
           g8 == g7 \uplus ListGuards
           g9 == g8 \uplus SearchGuards
<1>0. Guards = g9
  BY DEF Guards
<1>2. /\ DOMAIN g2 = DOMAIN AssetGuards \union DOMAIN SuggestionGuards
      /\ \A s \in DOMAIN AssetGuards : g2[s] = AssetGuards[s]
      /\ \A s \in DOMAIN SuggestionGuards : g2[s] = SuggestionGuards[s]
  <2>1. DOMAIN AssetGuards \intersect DOMAIN SuggestionGuards = {}
    BY GuardDomains
  <2> QED
    BY <2>1, Keeps
<1> HIDE DEF g2
<1>3. /\ DOMAIN g3 = DOMAIN g2 \union DOMAIN CatalogGuards
      /\ \A s \in DOMAIN g2 : g3[s] = g2[s]
      /\ \A s \in DOMAIN CatalogGuards : g3[s] = CatalogGuards[s]
  <2>1. DOMAIN g2 \intersect DOMAIN CatalogGuards = {}
    BY <1>2, GuardDomains
  <2> QED
    BY <2>1, Keeps
<1> HIDE DEF g3
<1>4. /\ DOMAIN g4 = DOMAIN g3 \union DOMAIN ItemGuards
      /\ \A s \in DOMAIN g3 : g4[s] = g3[s]
      /\ \A s \in DOMAIN ItemGuards : g4[s] = ItemGuards[s]
  <2>1. DOMAIN g3 \intersect DOMAIN ItemGuards = {}
    BY <1>2, <1>3, GuardDomains
  <2> QED
    BY <2>1, Keeps
<1> HIDE DEF g4
<1>5. /\ DOMAIN g5 = DOMAIN g4 \union DOMAIN GPXGuards
      /\ \A s \in DOMAIN g4 : g5[s] = g4[s]
      /\ \A s \in DOMAIN GPXGuards : g5[s] = GPXGuards[s]
  <2>1. DOMAIN g4 \intersect DOMAIN GPXGuards = {}
    BY <1>2, <1>3, <1>4, GuardDomains
  <2> QED
    BY <2>1, Keeps
<1> HIDE DEF g5
<1>6. /\ DOMAIN g6 = DOMAIN g5 \union DOMAIN DawarichGuards
      /\ \A s \in DOMAIN g5 : g6[s] = g5[s]
      /\ \A s \in DOMAIN DawarichGuards : g6[s] = DawarichGuards[s]
  <2>1. DOMAIN g5 \intersect DOMAIN DawarichGuards = {}
    BY <1>2, <1>3, <1>4, <1>5, GuardDomains
  <2> QED
    BY <2>1, Keeps
<1> HIDE DEF g6
<1>7. /\ DOMAIN g7 = DOMAIN g6 \union DOMAIN AuthGuards
      /\ \A s \in DOMAIN g6 : g7[s] = g6[s]
      /\ \A s \in DOMAIN AuthGuards : g7[s] = AuthGuards[s]
  <2>1. DOMAIN g6 \intersect DOMAIN AuthGuards = {}
    BY <1>2, <1>3, <1>4, <1>5, <1>6, GuardDomains
  <2> QED
    BY <2>1, Keeps
<1> HIDE DEF g7
<1>8. /\ DOMAIN g8 = DOMAIN g7 \union DOMAIN ListGuards
      /\ \A s \in DOMAIN g7 : g8[s] = g7[s]
      /\ \A s \in DOMAIN ListGuards : g8[s] = ListGuards[s]
  <2>1. DOMAIN g7 \intersect DOMAIN ListGuards = {}
    BY <1>2, <1>3, <1>4, <1>5, <1>6, <1>7, GuardDomains
  <2> QED
    BY <2>1, Keeps
<1> HIDE DEF g8
<1>9. /\ DOMAIN g9 = DOMAIN g8 \union DOMAIN SearchGuards
      /\ \A s \in DOMAIN g8 : g9[s] = g8[s]
      /\ \A s \in DOMAIN SearchGuards : g9[s] = SearchGuards[s]
  <2>1. DOMAIN g8 \intersect DOMAIN SearchGuards = {}
    BY <1>2, <1>3, <1>4, <1>5, <1>6, <1>7, <1>8, GuardDomains
  <2> QED
    BY <2>1, Keeps
<1> HIDE DEF g9
<1> QED
  BY <1>0, <1>2, <1>3, <1>4, <1>5, <1>6, <1>7, <1>8, <1>9

\* Nor have the tables of what is written.
LEMMA WrittenKeeps ==
    /\ DOMAIN RowTypes = {"asset", "page", "count", "folder", "marker", "cluster", "suggestions",
                          "health", "status", "node", "tree"}
    /\ DOMAIN CatalogTypes = {"album", "tag", "pageInfo", "user", "me", "authStatus", "library", "favorite",
                              "point", "track", "match", "preview", "dawarichTrack", "dawarichStatus", "answer", "place"}
    /\ \A s \in DOMAIN RowTypes : Written[s] = RowTypes[s]
    /\ \A s \in DOMAIN CatalogTypes : Written[s] = CatalogTypes[s]
<1>1. DOMAIN RowTypes = {"asset", "page", "count", "folder", "marker", "cluster", "suggestions",
                         "health", "status", "node", "tree"}
  BY DEF RowTypes
<1>2. DOMAIN CatalogTypes = {"album", "tag", "pageInfo", "user", "me", "authStatus", "library", "favorite",
                             "point", "track", "match", "preview", "dawarichTrack", "dawarichStatus", "answer", "place"}
  BY DEF CatalogTypes
<1>3. DOMAIN RowTypes \intersect DOMAIN CatalogTypes = {}
  BY <1>1, <1>2
<1>4. /\ \A s \in DOMAIN RowTypes : (RowTypes \uplus CatalogTypes)[s] = RowTypes[s]
      /\ \A s \in DOMAIN CatalogTypes : (RowTypes \uplus CatalogTypes)[s] = CatalogTypes[s]
  BY <1>3, Keeps
<1> QED
  BY <1>1, <1>2, <1>4 DEF Written

\* Nothing is refused of an answer that is written as its guard has it.
LEMMA SameShape ==
    ASSUME NEW s, Written[s] = Guards[s]
    PROVE  Refused(s) = {}
<1>1. \A f \in DOMAIN Guards[s] :
        (IF f \in DOMAIN Written[s] THEN Written[s][f] ELSE {"absent"}) \subseteq Guards[s][f]
  OBVIOUS
<1> QED
  BY <1>1 DEF Refused

\* The shapes that are written as the guard has them: of photos and places.
LEMMA RowsTaken ==
    ASSUME NEW s \in {"page", "count", "folder", "marker", "cluster", "suggestions", "health", "node", "tree"}
    PROVE  Refused(s) = {}
<1>1. /\ s = "page" => RowTypes[s] = AssetGuards[s]
      /\ s \in {"cluster", "suggestions"} => RowTypes[s] = SuggestionGuards[s]
  BY DEF RowTypes, AssetGuards, SuggestionGuards, Filled, Omitted
<1>2. s \in {"marker", "health"} => RowTypes[s] = CatalogGuards[s]
  BY DEF RowTypes, CatalogGuards, Pointer
<1>3. s \in {"count", "folder", "node", "tree"} => RowTypes[s] = ItemGuards[s]
  BY DEF RowTypes, ItemGuards, Filled
<1>4. Written[s] = Guards[s]
  BY <1>1, <1>2, <1>3, GuardDomains, GuardsKeep, WrittenKeeps
<1> QED
  BY <1>4, SameShape

\* The shapes that are written as the guard has them: of everything else.
LEMMA CatalogTaken ==
    ASSUME NEW s \in {"album", "tag", "pageInfo", "me", "authStatus", "library", "favorite",
                      "point", "track", "preview", "dawarichStatus", "answer"}
    PROVE  Refused(s) = {}
<1>1. s \in {"album", "tag"} => CatalogTypes[s] = CatalogGuards[s]
  BY DEF CatalogTypes, CatalogGuards, Pointer
<1>2. s \in {"pageInfo", "library", "favorite"} => CatalogTypes[s] = ItemGuards[s]
  BY DEF CatalogTypes, ItemGuards, Pointer
<1>3. s \in {"me", "authStatus"} => CatalogTypes[s] = AuthGuards[s]
  BY DEF CatalogTypes, AuthGuards
<1>4. s \in {"point", "track", "preview"} => CatalogTypes[s] = GPXGuards[s]
  BY DEF CatalogTypes, GPXGuards, Filled
<1>5. s = "dawarichStatus" => CatalogTypes[s] = DawarichGuards[s]
  BY DEF CatalogTypes, DawarichGuards, Pointer
<1>6. s = "answer" => CatalogTypes[s] = ListGuards[s]
  <2>1. CatalogTypes["answer"] = [call \in DOMAIN ListGuards.answer |-> ListGuards.answer[call]]
    BY DEF CatalogTypes, Filled
  <2>2. ListGuards.answer = [call \in DOMAIN ListGuards.answer |-> ListGuards.answer[call]]
    BY DEF ListGuards, \uplus
  <2> QED
    BY <2>1, <2>2
<1>7. Written[s] = Guards[s]
  BY <1>1, <1>2, <1>3, <1>4, <1>5, <1>6, GuardDomains, GuardsKeep, WrittenKeeps
<1> QED
  BY <1>7, SameShape

\* What is written of a field is among what the guard takes.
LEMMA Taken ==
    ASSUME NEW s, \A f \in DOMAIN Guards[s] : f \in DOMAIN Written[s] /\ Written[s][f] \subseteq Guards[s][f]
    PROVE  Refused(s) = {}
  BY DEF Refused

Within(w, g) == \A f \in DOMAIN g : f \in DOMAIN w /\ w[f] \subseteq g[f]

\* What holds of two parts holds of the whole.
LEMMA WithinParts ==
    ASSUME NEW w, NEW g, Within(w, g), NEW w2, NEW g2, Within(w2, g2),
           DOMAIN w \intersect DOMAIN w2 = {}, DOMAIN g2 \subseteq DOMAIN w2
    PROVE  Within(w \uplus w2, g \uplus g2) /\ DOMAIN (w \uplus w2) = DOMAIN w \union DOMAIN w2
<1>1. ASSUME NEW f \in DOMAIN (g \uplus g2)
      PROVE  f \in DOMAIN (w \uplus w2) /\ (w \uplus w2)[f] \subseteq (g \uplus g2)[f]
  <2>1. f \in DOMAIN g \union DOMAIN g2
    BY DEF \uplus
  <2>2. CASE f \in DOMAIN g
    BY <2>2 DEF Within, \uplus
  <2>3. CASE f \notin DOMAIN g
    <3>1. f \in DOMAIN g2 /\ f \in DOMAIN w2 /\ f \notin DOMAIN w
      BY <2>1, <2>3
    <3>2. (w \uplus w2)[f] = w2[f] /\ (g \uplus g2)[f] = g2[f] /\ f \in DOMAIN (w \uplus w2)
      BY <2>3, <3>1 DEF \uplus
    <3> QED
      BY <3>1, <3>2 DEF Within
  <2> QED
    BY <2>2, <2>3
<1>2. DOMAIN (w \uplus w2) = DOMAIN w \union DOMAIN w2
  BY DEF \uplus
<1> QED
  BY <1>1, <1>2 DEF Within

\* A photo.
LEMMA AssetTaken == Refused("asset") = {}
<1> DEFINE w1 == Are({"immichID", "type", "originalFileName", "originalPath", "fileCreatedAt", "syncedAt"}, String)
           g1 == Are({"immichID", "type", "originalFileName", "fileCreatedAt", "syncedAt"}, String)
           at == Are({"latitude", "longitude"}, OrNull(Number))
           hidden == [isHidden |-> Bool]
           named == Are({"city", "state", "country", "dateTimeOriginal"}, OrNull(String))
           w5 == Are({"stackID", "stackPrimaryAssetID", "libraryID"}, OrAbsent(String))
           g5 == Are({"stackID", "stackPrimaryAssetID"}, OrAbsent(OrNull(String)))
           w6 == [stackAssetCount |-> OrAbsent(Number)]
           g6 == [stackAssetCount |-> OrAbsent(OrNull(Number))]
<1>1. /\ RowTypes.asset = w1 \uplus at \uplus hidden \uplus named \uplus w5 \uplus w6
      /\ AssetGuards.asset = g1 \uplus at \uplus hidden \uplus named \uplus g5 \uplus g6
  BY DEF RowTypes, AssetGuards, Pointer, Omitted
<1>2. /\ Within(w1, g1) /\ Within(at, at) /\ Within(hidden, hidden) /\ Within(named, named)
      /\ Within(w5, g5) /\ Within(w6, g6)
  <2>1. OrAbsent(String) \subseteq OrAbsent(OrNull(String)) /\ OrAbsent(Number) \subseteq OrAbsent(OrNull(Number))
    BY DEF OrAbsent, OrNull
  <2>2. Within(w1, g1)
    BY DEF Within, Are
  <2>3. Within(at, at) /\ Within(hidden, hidden) /\ Within(named, named)
    BY DEF Within
  <2>4. Within(w5, g5) /\ Within(w6, g6)
    BY <2>1 DEF Within, Are
  <2> QED
    BY <2>2, <2>3, <2>4
<1>3. /\ DOMAIN w1 = {"immichID", "type", "originalFileName", "originalPath", "fileCreatedAt", "syncedAt"}
      /\ DOMAIN at = {"latitude", "longitude"} /\ DOMAIN hidden = {"isHidden"}
      /\ DOMAIN named = {"city", "state", "country", "dateTimeOriginal"}
      /\ DOMAIN w5 = {"stackID", "stackPrimaryAssetID", "libraryID"}
      /\ DOMAIN g5 = {"stackID", "stackPrimaryAssetID"}
      /\ DOMAIN w6 = {"stackAssetCount"} /\ DOMAIN g6 = {"stackAssetCount"}
  BY DEF Are
<1> HIDE DEF w1, g1, at, hidden, named, w5, g5, w6, g6
<1> DEFINE ww2 == w1 \uplus at
           gg2 == g1 \uplus at
           ww3 == ww2 \uplus hidden
           gg3 == gg2 \uplus hidden
           ww4 == ww3 \uplus named
           gg4 == gg3 \uplus named
           ww5 == ww4 \uplus w5
           gg5 == gg4 \uplus g5
           ww6 == ww5 \uplus w6
           gg6 == gg5 \uplus g6
<1>0. RowTypes.asset = ww6 /\ AssetGuards.asset = gg6
  BY <1>1
<1>4. Within(ww2, gg2) /\ DOMAIN ww2 = DOMAIN w1 \union DOMAIN at
  <2>1. DOMAIN w1 \intersect DOMAIN at = {}
    BY <1>3
  <2> QED
    BY <1>2, <2>1, WithinParts
<1> HIDE DEF ww2, gg2
<1>5. Within(ww3, gg3) /\ DOMAIN ww3 = DOMAIN ww2 \union DOMAIN hidden
  <2>1. DOMAIN ww2 \intersect DOMAIN hidden = {}
    BY <1>3, <1>4
  <2> QED
    BY <1>2, <1>4, <2>1, WithinParts
<1> HIDE DEF ww3, gg3
<1>6. Within(ww4, gg4) /\ DOMAIN ww4 = DOMAIN ww3 \union DOMAIN named
  <2>1. DOMAIN ww3 \intersect DOMAIN named = {}
    BY <1>3, <1>4, <1>5
  <2> QED
    BY <1>2, <1>5, <2>1, WithinParts
<1> HIDE DEF ww4, gg4
<1>7. Within(ww5, gg5) /\ DOMAIN ww5 = DOMAIN ww4 \union DOMAIN w5
  <2>1. DOMAIN ww4 \intersect DOMAIN w5 = {} /\ DOMAIN g5 \subseteq DOMAIN w5
    BY <1>3, <1>4, <1>5, <1>6
  <2> QED
    BY <1>2, <1>6, <2>1, WithinParts
<1> HIDE DEF ww5, gg5
<1>8. Within(ww6, gg6)
  <2>1. DOMAIN ww5 \intersect DOMAIN w6 = {} /\ DOMAIN g6 \subseteq DOMAIN w6
    BY <1>3, <1>4, <1>5, <1>6, <1>7
  <2> QED
    BY <1>2, <1>7, <2>1, WithinParts
<1> HIDE DEF ww6, gg6
<1>9. Guards["asset"] = AssetGuards.asset /\ Written["asset"] = RowTypes.asset
  BY GuardDomains, GuardsKeep, WrittenKeeps
<1> QED
  BY <1>0, <1>8, <1>9, Taken DEF Within

\* A user.
LEMMA UserTaken == Refused("user") = {}
<1>1. Guards["user"] = AuthGuards.user /\ Written["user"] = CatalogTypes.user
  BY GuardDomains, GuardsKeep, WrittenKeeps
<1>2. \A f \in DOMAIN AuthGuards.user : /\ f \in DOMAIN CatalogTypes.user
                                        /\ CatalogTypes.user[f] \subseteq AuthGuards.user[f]
  BY DEF AuthGuards, CatalogTypes, Are
<1> QED
  BY <1>1, <1>2, Taken

\* The state of a run.
LEMMA StatusTaken == Refused("status") = {}
<1>1. Guards["status"] = ItemGuards.status /\ Written["status"] = RowTypes.status
  BY GuardDomains, GuardsKeep, WrittenKeeps
<1>2. \A f \in DOMAIN ItemGuards.status : /\ f \in DOMAIN RowTypes.status
                                          /\ RowTypes.status[f] \subseteq ItemGuards.status[f]
  BY DEF ItemGuards, RowTypes, \uplus
<1> QED
  BY <1>1, <1>2, Taken

\* A track of Dawarich.
LEMMA DawarichTrackTaken == Refused("dawarichTrack") = {}
<1> DEFINE g == DawarichGuards.dawarichTrack
           w == CatalogTypes.dawarichTrack
<1>1. Guards["dawarichTrack"] = g /\ Written["dawarichTrack"] = w
  BY GuardDomains, GuardsKeep, WrittenKeeps
<1>2. \A f \in DOMAIN g : f \in DOMAIN w /\ w[f] \subseteq g[f]
  BY DEF DawarichGuards, CatalogTypes, \uplus, Are
<1> QED
  BY <1>1, <1>2, Taken

\* A place that a search found.
LEMMA PlaceTaken == Refused("place") = {}
<1> DEFINE g == SearchGuards.place
           w == CatalogTypes.place
<1>1. Guards["place"] = g /\ Written["place"] = w
  BY GuardDomains, GuardsKeep, WrittenKeeps
<1>2. \A f \in DOMAIN g : f \in DOMAIN w /\ w[f] \subseteq g[f]
  BY DEF SearchGuards, CatalogTypes, \uplus, Are
<1> QED
  BY <1>1, <1>2, Taken

\* Two tables with what the first of them has are as much as the guard asks.
LEMMA MoreIsTaken ==
    ASSUME NEW s, NEW f, Written[s] = Guards[s] \uplus f
    PROVE  Refused(s) = {}
<1>1. \A x \in DOMAIN Guards[s] : x \in DOMAIN (Guards[s] \uplus f) /\ (Guards[s] \uplus f)[x] = Guards[s][x]
  BY DEF \uplus
<1> QED
  BY <1>1, Taken

\* A match on a track.
LEMMA MatchTaken == Refused("match") = {}
<1> DEFINE more == Are({"existingLatitude", "existingLongitude"}, Omitted(Number))
<1>1. CatalogTypes.match = GPXGuards.match \uplus more
  BY DEF CatalogTypes, GPXGuards
<1>2. Guards["match"] = GPXGuards.match /\ Written["match"] = CatalogTypes.match
  BY GuardDomains, GuardsKeep, WrittenKeeps
<1>3. Written["match"] = Guards["match"] \uplus more
  BY <1>1, <1>2
<1> QED
  BY <1>3, MoreIsTaken

\* Every answer of every shape passes the guard that the client has for it.
THEOREM NothingIsRefused == \A s \in DOMAIN Guards : Refused(s) = {}
  BY RowsTaken, CatalogTaken, AssetTaken, UserTaken, StatusTaken, DawarichTrackTaken, MatchTaken, PlaceTaken,
     GuardDomains, GuardsKeep

\* The tables of calls have no call in common.
LEMMA CallsKeep ==
    /\ DOMAIN Calls = DOMAIN ListCalls \union DOMAIN PlaceCalls \union DOMAIN AssetCalls \union DOMAIN EditCalls
                      \union DOMAIN EntryCalls
    /\ \A c \in DOMAIN ListCalls : Calls[c] = ListCalls[c]
    /\ \A c \in DOMAIN PlaceCalls : Calls[c] = PlaceCalls[c]
    /\ \A c \in DOMAIN AssetCalls : Calls[c] = AssetCalls[c]
    /\ \A c \in DOMAIN EditCalls : Calls[c] = EditCalls[c]
    /\ \A c \in DOMAIN EntryCalls : Calls[c] = EntryCalls[c]
<1> DEFINE c2 == ListCalls \uplus PlaceCalls
           c3 == c2 \uplus AssetCalls
           c4 == c3 \uplus EditCalls
           c5 == c4 \uplus EntryCalls
<1>0. Calls = c5
  BY DEF Calls
<1>1. /\ DOMAIN ListCalls = {"fetchAssets", "fetchAssetDayCounts", "fetchMissingLocationCount", "fetchAlbums"}
      /\ DOMAIN PlaceCalls = {"getFolders", "getFolderAssets", "fetchMapMarkers"}
      /\ DOMAIN AssetCalls = {"fetchSuggestions", "fetchAssetPageInfo", "saveAssetLocation"}
  BY DEF ListCalls, PlaceCalls, AssetCalls
<1>11. DOMAIN EditCalls = {"updateLibrary", "bulkToggleAssetHidden", "toggleAssetHidden", "gpxPreview",
                           "addFavoritePlace", "removeFavoritePlace", "dawarichPreview", "saveDawarichSettings"}
  BY DEF EditCalls
<1>12. DOMAIN EntryCalls = {"register", "login", "updateSettings", "searchPlaces"}
  BY DEF EntryCalls
<1>2. /\ DOMAIN c2 = DOMAIN ListCalls \union DOMAIN PlaceCalls
      /\ \A c \in DOMAIN ListCalls : c2[c] = ListCalls[c]
      /\ \A c \in DOMAIN PlaceCalls : c2[c] = PlaceCalls[c]
  <2>1. DOMAIN ListCalls \intersect DOMAIN PlaceCalls = {}
    BY <1>1
  <2> QED
    BY <2>1, Keeps
<1> HIDE DEF c2
<1>3. /\ DOMAIN c3 = DOMAIN c2 \union DOMAIN AssetCalls
      /\ \A c \in DOMAIN c2 : c3[c] = c2[c]
      /\ \A c \in DOMAIN AssetCalls : c3[c] = AssetCalls[c]
  <2>1. DOMAIN c2 \intersect DOMAIN AssetCalls = {}
    BY <1>1, <1>2
  <2> QED
    BY <2>1, Keeps
<1> HIDE DEF c3
<1>4. /\ DOMAIN c4 = DOMAIN c3 \union DOMAIN EditCalls
      /\ \A c \in DOMAIN c3 : c4[c] = c3[c]
      /\ \A c \in DOMAIN EditCalls : c4[c] = EditCalls[c]
  <2>1. DOMAIN c3 \intersect DOMAIN EditCalls = {}
    BY <1>1, <1>11, <1>2, <1>3
  <2> QED
    BY <2>1, Keeps
<1> HIDE DEF c4
<1>5. /\ DOMAIN c5 = DOMAIN c4 \union DOMAIN EntryCalls
      /\ \A c \in DOMAIN c4 : c5[c] = c4[c]
      /\ \A c \in DOMAIN EntryCalls : c5[c] = EntryCalls[c]
  <2>1. DOMAIN c4 \intersect DOMAIN EntryCalls = {}
    BY <1>1, <1>11, <1>12, <1>2, <1>3, <1>4
  <2> QED
    BY <2>1, Keeps
<1> HIDE DEF c5
<1> QED
  BY <1>0, <1>2, <1>3, <1>4, <1>5

\* The calls for lists.
LEMMA ListCallsRead ==
    ASSUME NEW c \in DOMAIN ListCalls PROVE Misunderstood(c) = {}
<1>1. c \in {"fetchAssets", "fetchAssetDayCounts", "fetchMissingLocationCount", "fetchAlbums"}
  BY DEF ListCalls
<1>2. /\ ListCalls[c].always \union ListCalls[c].maybe \subseteq Handlers[c].reads
      /\ Handlers[c].needs \subseteq ListCalls[c].always
  BY <1>1 DEF ListCalls, Handlers, With, Reads
<1> QED
  BY <1>2, CallsKeep DEF Misunderstood

\* The calls for places.
LEMMA PlaceCallsRead ==
    ASSUME NEW c \in DOMAIN PlaceCalls PROVE Misunderstood(c) = {}
<1>1. c \in {"getFolders", "getFolderAssets", "fetchMapMarkers"}
  BY DEF PlaceCalls
<1>2. /\ PlaceCalls[c].always \union PlaceCalls[c].maybe \subseteq Handlers[c].reads
      /\ Handlers[c].needs \subseteq PlaceCalls[c].always
  BY <1>1 DEF PlaceCalls, Handlers, With, Reads, Named
<1> QED
  BY <1>2, CallsKeep DEF Misunderstood

\* The calls about photos.
LEMMA AssetCallsRead ==
    ASSUME NEW c \in DOMAIN AssetCalls PROVE Misunderstood(c) = {}
<1>1. c \in {"fetchSuggestions", "fetchAssetPageInfo", "saveAssetLocation"}
  BY DEF AssetCalls
<1>2. /\ AssetCalls[c].always \union AssetCalls[c].maybe \subseteq Handlers[c].reads
      /\ Handlers[c].needs \subseteq AssetCalls[c].always
  BY <1>1 DEF AssetCalls, Handlers, With, Reads
<1> QED
  BY <1>2, CallsKeep DEF Misunderstood

\* The calls that change something.
LEMMA EditCallsRead ==
    ASSUME NEW c \in DOMAIN EditCalls PROVE Misunderstood(c) = {}
<1>1. c \in {"updateLibrary", "bulkToggleAssetHidden", "toggleAssetHidden", "gpxPreview",
             "addFavoritePlace", "removeFavoritePlace", "dawarichPreview", "saveDawarichSettings"}
  BY DEF EditCalls
<1>2. /\ EditCalls[c].always \union EditCalls[c].maybe \subseteq Handlers[c].reads
      /\ Handlers[c].needs \subseteq EditCalls[c].always
  BY <1>1 DEF EditCalls, Handlers, With, Reads
<1> QED
  BY <1>2, CallsKeep DEF Misunderstood

\* The calls to come in, and the search.
LEMMA EntryCallsRead ==
    ASSUME NEW c \in DOMAIN EntryCalls PROVE Misunderstood(c) = {}
<1>1. c \in {"register", "login", "updateSettings", "searchPlaces"}
  BY DEF EntryCalls
<1>2. /\ EntryCalls[c].always \union EntryCalls[c].maybe \subseteq Handlers[c].reads
      /\ Handlers[c].needs \subseteq EntryCalls[c].always
  BY <1>1 DEF EntryCalls, Handlers, With, Reads
<1> QED
  BY <1>2, CallsKeep DEF Misunderstood

\* Every call says all that its handler insists on, and nothing that the handler does not read.
THEOREM NothingIsMissed == \A c \in DOMAIN Calls : Misunderstood(c) = {}
  BY ListCallsRead, PlaceCallsRead, AssetCallsRead, EditCallsRead, EntryCallsRead, CallsKeep

CallsInv ==
    /\ kind = "call" => question \in DOMAIN Calls
    /\ kind = "shape" => question \in DOMAIN Guards
    /\ CallsAreUnderstood

\* A call or a shape is asked about.
LEMMA CallsInit == AnswersInit => CallsInv
<1> SUFFICES ASSUME AnswersInit, kind \in {"call", "shape"} PROVE CallsInv
  BY DEF CallsInv, CallsAreUnderstood
<1>1. /\ step = 0
      /\ \E x \in DOMAIN IF kind = "call" THEN Calls ELSE Guards : question = x
  BY DEF AnswersInit, InitPages, InitFocus, InitSuggest, InitMatch, InitHistory, InitGeocode, InitCall
<1> QED
  BY <1>1 DEF CallsInv, CallsAreUnderstood

\* Comparing the two sides.
LEMMA CallsStep == CallsInv /\ [AnswersNext]_answersVars => CallsInv'
<1> SUFFICES ASSUME CallsInv, [AnswersNext]_answersVars, kind' \in {"call", "shape"} PROVE CallsInv'
  BY DEF CallsInv, CallsAreUnderstood
<1>1. CASE AskCall
  <2>1. /\ kind \in {"call", "shape"} /\ kind' = kind /\ question' = question
        /\ answer' = IF kind = "call" THEN Misunderstood(question) ELSE Refused(question)
    BY <1>1 DEF AskCall
  <2>2. answer' = {}
    BY <2>1, NothingIsRefused, NothingIsMissed DEF CallsInv
  <2> QED
    BY <2>1, <2>2 DEF CallsInv, CallsAreUnderstood
<1>2. CASE UNCHANGED answersVars
  BY <1>2 DEF CallsInv, CallsAreUnderstood, answersVars
<1>3. ~AskCall => UNCHANGED answersVars
  BY DEF AnswersNext, AskPage, AskFocus, AskSuggest, AskMatch, Save, AskGeocoders
<1> QED
  BY <1>1, <1>2, <1>3

\* No guard of the client refuses what the handlers write, and no handler misses what
\* a call says.
THEOREM CallsAreUnderstoodHolds == AnswersSpec => []CallsAreUnderstood
<1>1. CallsInv => CallsAreUnderstood
  BY DEF CallsInv
<1> QED
  BY <1>1, CallsInit, CallsStep, PTL DEF AnswersSpec

------------------------------------------------------------------------------
(* Geocoders *)

\* A name that any geocoder has is the answer.
LEMMA ReverseHelps ==
    ASSUME NEW a \in ReverseAnswers, \E i \in DOMAIN a : Strong(a[i])
    PROVE  ReverseGeocode(a) = "name"
<1> DEFINE strong == {i \in DOMAIN a : Strong(a[i])}
<1>1. DOMAIN a = 1..Len(Chain)
  BY DEF ReverseAnswers
<1>2. strong \in SUBSET Nat /\ strong # {}
  BY <1>1
<1>3. CASE Alone
  <2>1. \A i \in DOMAIN a : i = 1
    BY <1>1, <1>3 DEF Alone
  <2>2. a[1] = "name"
    BY <2>1 DEF Strong
  <2> QED
    BY <1>3, <2>2 DEF ReverseGeocode
<1>4. CASE ~Alone
  <2>1. Min(strong) \in strong
    BY <1>2, LeastIsMin
  <2> HIDE DEF strong
  <2>2. ReverseGeocode(a) = a[Min(strong)]
    BY <1>2, <1>4 DEF ReverseGeocode, strong
  <2> QED
    BY <2>1, <2>2 DEF strong, Strong
<1> QED
  BY <1>3, <1>4

\* Places that any geocoder finds are the answer.
LEMMA ForwardHelps ==
    ASSUME NEW a \in ForwardAnswers
    PROVE  /\ (\E i \in DOMAIN a : a[i] = "places") => ForwardSearch(a) = "places"
           /\ ForwardSearch(a) \in {"places", "nothing", Failed}
<1>1. DOMAIN a = 1..Len(Chain) /\ \A i \in DOMAIN a : a[i] \in {"places", "nothing", Failed}
  BY DEF ForwardAnswers
<1>2. CASE Alone
  <2>1. 1 \in DOMAIN a /\ \A i \in DOMAIN a : i = 1
    BY <1>1, <1>2 DEF Alone
  <2>2. ForwardSearch(a) = a[1]
    BY <1>2 DEF ForwardSearch
  <2> QED
    BY <1>1, <2>1, <2>2
<1>3. CASE ~Alone /\ \E i \in DOMAIN a : a[i] = "places"
  BY <1>3 DEF ForwardSearch
<1>4. CASE ~Alone /\ ~\E i \in DOMAIN a : a[i] = "places"
  BY <1>4 DEF ForwardSearch
<1> QED
  BY <1>2, <1>3, <1>4

GeocodeQuestions == [first : ForwardAnswers, second : ForwardAnswers, reverse : ReverseAnswers, gone : BOOLEAN]

\* The chain, and the second search after one that failed.
LEMMA GeocodersAnswer ==
    ASSUME NEW q \in GeocodeQuestions
    PROVE  GeocodersHelp(q, [label |-> ReverseGeocode(q.reverse),
                             found |-> GeocodeSearch(q.first, q.second, q.gone)])
<1>1. q.first \in ForwardAnswers /\ q.second \in ForwardAnswers /\ q.reverse \in ReverseAnswers
  BY DEF GeocodeQuestions
<1>2. (\E i \in DOMAIN q.reverse : Strong(q.reverse[i])) => ReverseGeocode(q.reverse) = "name"
  BY <1>1, ReverseHelps
<1>3. (\E i \in DOMAIN q.first : q.first[i] = "places") => GeocodeSearch(q.first, q.second, q.gone) = "places"
  BY <1>1, ForwardHelps DEF GeocodeSearch, Failed
<1>4. (\E i \in DOMAIN q.second : q.second[i] = "places") /\ ~q.gone
        => GeocodeSearch(q.first, q.second, q.gone) \in {"places", "nothing"}
  BY <1>1, ForwardHelps DEF GeocodeSearch, Failed
<1> QED
  BY <1>2, <1>3, <1>4 DEF GeocodersHelp

GeocodeInv ==
    kind = "geocode" =>
        /\ question \in GeocodeQuestions
        /\ step = 1 => GeocodersHelp(question, answer)

\* A place is searched.
LEMMA GeocodeInit == AnswersInit => GeocodeInv
<1> SUFFICES ASSUME AnswersInit, kind = "geocode" PROVE GeocodeInv
  BY DEF GeocodeInv
<1>1. /\ step = 0
      /\ \E first, second \in ForwardAnswers, reverse \in ReverseAnswers, gone \in BOOLEAN :
           question = [first |-> first, second |-> second, reverse |-> reverse, gone |-> gone]
  BY DEF AnswersInit, InitPages, InitFocus, InitSuggest, InitMatch, InitHistory, InitGeocode, InitCall
<1> QED
  BY <1>1 DEF GeocodeInv, GeocodeQuestions

\* Asking the geocoders.
LEMMA GeocodeStep == GeocodeInv /\ [AnswersNext]_answersVars => GeocodeInv'
<1> SUFFICES ASSUME GeocodeInv, [AnswersNext]_answersVars, kind' = "geocode" PROVE GeocodeInv'
  BY DEF GeocodeInv
<1>1. CASE AskGeocoders
  <2>1. /\ question \in GeocodeQuestions /\ question' = question
        /\ answer' = [label |-> ReverseGeocode(question.reverse),
                      found |-> GeocodeSearch(question.first, question.second, question.gone)]
    BY <1>1 DEF AskGeocoders, GeocodeInv
  <2>2. GeocodersHelp(question, answer')
    BY <2>1, GeocodersAnswer
  <2> QED
    BY <2>1, <2>2 DEF GeocodeInv
<1>2. CASE UNCHANGED answersVars
  BY <1>2 DEF GeocodeInv, answersVars
<1>3. ~AskGeocoders => UNCHANGED answersVars
  BY DEF AnswersNext, AskPage, AskFocus, AskSuggest, AskMatch, Save, AskCall
<1> QED
  BY <1>1, <1>2, <1>3

------------------------------------------------------------------------------
(* A photo on a track *)

Points == [time : Int, offset : Int, lon : Int, timed : BOOLEAN]

SortedTracks == {t \in Seq(Points) : /\ Len(t) >= 2
                               /\ \A i, j \in 1..Len(t) : i < j => t[i].time <= t[j].time}

\* Whatever way the points of one time are sorted, it is a track.
LEMMA ParsedAreTracks ==
    ASSUME NEW points \in PointLists, NEW t \in ParseGPX(points), Usable(t)
    PROVE  t \in SortedTracks
<1> DEFINE timed == {i \in DOMAIN points : points[i].timed}
           n == Cardinality(timed)
           orders == {o \in [1..n -> timed] :
                        \A i, j \in 1..n : i < j => o[i] # o[j] /\ points[o[i]].time <= points[o[j]].time}
<1>1. points \in Seq(Points)
  BY PlacesAssumption DEF Points
<1>2. IsFiniteSet(timed)
  <2>1. timed \subseteq 1..Len(points) /\ Len(points) \in Nat
    BY <1>1
  <2>2. IsFiniteSet(1..Len(points))
    BY <2>1, FS_Interval
  <2> HIDE DEF timed
  <2> QED
    BY <2>1, <2>2, FS_Subset
<1>3. n \in Nat
  BY <1>2, FS_CardinalityType
<1>4. PICK o \in orders : t = [k \in 1..n |-> points[o[k]]]
  BY DEF ParseGPX
<1>5. \A i \in timed : points[i] \in Points
  BY <1>1
<1> HIDE DEF n, timed
<1>6. o \in [1..n -> timed]
      /\ \A i, j \in 1..n : i < j => points[o[i]].time <= points[o[j]].time
  OBVIOUS
<1>7. t \in [1..n -> Points]
  BY <1>4, <1>5, <1>6
<1>8. t \in Seq(Points) /\ Len(t) = n
  BY <1>3, <1>7
<1>9. \A i, j \in 1..n : i < j => t[i].time <= t[j].time
  BY <1>4, <1>6
<1> QED
  BY <1>8, <1>9 DEF SortedTracks, Usable

\* The times of a track do not decrease.
LEMMA TrackFacts ==
    ASSUME NEW track \in SortedTracks
    PROVE  /\ Len(track) \in Nat /\ Len(track) >= 2 /\ DOMAIN track = 1..Len(track)
           /\ \A i \in 1..Len(track) : /\ track[i].time \in Int /\ track[i].lon \in Int
                                       /\ track[i].offset \in Int
           /\ \A i, j \in 1..Len(track) : i <= j => track[i].time <= track[j].time
<1>1. track \in Seq(Points) /\ Len(track) \in Nat
  BY DEF SortedTracks
<1>2. \A i \in 1..Len(track) : track[i] \in Points
  BY <1>1
<1>3. \A i \in 1..Len(track) : /\ track[i].time \in Int /\ track[i].lon \in Int
                              /\ track[i].offset \in Int
  BY <1>2 DEF Points
<1>4. \A i, j \in 1..Len(track) : i <= j => track[i].time <= track[j].time
  <2> TAKE i, j \in 1..Len(track)
  <2> HAVE i <= j
  <2>1. i < j => track[i].time <= track[j].time
    BY DEF SortedTracks
  <2>2. i = j => track[i].time <= track[j].time
    BY <1>3
  <2> QED
    BY <1>1, <2>1, <2>2
<1> QED
  BY <1>1, <1>3, <1>4 DEF SortedTracks

Gaps(track, t) == {Distance(track[i].time, t) : i \in DOMAIN track}
Lons(track) == {track[i].lon : i \in DOMAIN track}

\* The closest point, and the places at the ends.
LEMMA GapFacts ==
    ASSUME NEW track \in SortedTracks, NEW t \in Int
    PROVE  /\ Gaps(track, t) \in SUBSET Nat /\ Gaps(track, t) # {}
           /\ Min(Gaps(track, t)) \in Gaps(track, t)
           /\ \A i \in 1..Len(track) : Min(Gaps(track, t)) <= Distance(track[i].time, t)
           /\ Min(Lons(track)) \in Int /\ Max(Lons(track)) \in Int
           /\ \A i \in 1..Len(track) : Min(Lons(track)) <= track[i].lon /\ track[i].lon <= Max(Lons(track))
<1>1. /\ Len(track) \in Nat /\ Len(track) >= 2 /\ DOMAIN track = 1..Len(track)
      /\ \A i \in 1..Len(track) : track[i].time \in Int /\ track[i].lon \in Int
  BY TrackFacts
<1>2. \A i \in 1..Len(track) : Distance(track[i].time, t) \in Nat
  BY <1>1 DEF Distance
<1>3. Gaps(track, t) \in SUBSET Nat /\ Gaps(track, t) # {}
  <2>1. 1 \in DOMAIN track
    BY <1>1
  <2> QED
    BY <1>1, <1>2, <2>1 DEF Gaps
<1>4. Min(Gaps(track, t)) \in Gaps(track, t) /\ \A x \in Gaps(track, t) : Min(Gaps(track, t)) <= x
  BY <1>3, LeastIsMin
<1>5. \A i \in 1..Len(track) : Distance(track[i].time, t) \in Gaps(track, t)
  BY <1>1 DEF Gaps
<1>6. Lons(track) \in SUBSET Int /\ Lons(track) # {} /\ \A i \in 1..Len(track) : track[i].lon \in Lons(track)
  <2>1. 1 \in DOMAIN track
    BY <1>1
  <2> QED
    BY <1>1, <2>1 DEF Lons
<1>7. IsFiniteSet(Lons(track))
  <2>1. IsFiniteSet(DOMAIN track)
    BY <1>1, FS_Interval
  <2> DEFINE f == [i \in DOMAIN track |-> track[i].lon]
  <2>2. DOMAIN f = DOMAIN track /\ Lons(track) = {f[i] : i \in DOMAIN track}
    BY DEF Lons
  <2> HIDE DEF f
  <2> QED
    BY <2>1, <2>2, ImageOf
<1>8. /\ Min(Lons(track)) \in Lons(track) /\ \A x \in Lons(track) : Min(Lons(track)) <= x
      /\ Max(Lons(track)) \in Lons(track) /\ \A x \in Lons(track) : x <= Max(Lons(track))
  BY <1>6, <1>7, Extremes
<1> QED
  BY <1>3, <1>4, <1>5, <1>6, <1>8

\* The first point that is not before the photo; one more than the points if there is none.
Index(track, t) == Min({i \in 1..Len(track) : track[i].time >= t} \union {Len(track) + 1})

\* What sort.Search answers on a sorted track: all before it are earlier, no other is.
LEMMA IndexIs ==
    ASSUME NEW track \in SortedTracks, NEW t \in Int
    PROVE  /\ Index(track, t) \in 1..Len(track) + 1
           /\ \A i \in 1..Len(track) : i < Index(track, t) => track[i].time < t
           /\ \A i \in 1..Len(track) : i >= Index(track, t) => track[i].time >= t
<1> DEFINE late == {i \in 1..Len(track) : track[i].time >= t} \union {Len(track) + 1}
<1>1. /\ Len(track) \in Nat
      /\ \A i \in 1..Len(track) : track[i].time \in Int
      /\ \A i, j \in 1..Len(track) : i <= j => track[i].time <= track[j].time
  BY TrackFacts
<1>2. late \in SUBSET Nat /\ late # {} /\ late \subseteq 1..Len(track) + 1
  BY <1>1
<1>3. Min(late) \in late /\ \A x \in late : Min(late) <= x
  <2> HIDE DEF late
  <2> QED
    BY <1>2, LeastIsMin
<1>4. Index(track, t) = Min(late)
  BY DEF Index
<1> DEFINE idx == Min(late)
<1>5. idx \in late /\ idx \in 1..Len(track) + 1 /\ \A x \in late : idx <= x
  BY <1>2, <1>3
<1> HIDE DEF idx
<1>6. ASSUME NEW i \in 1..Len(track), i < idx PROVE track[i].time < t
  <2>1. i \notin late
    BY <1>1, <1>5, <1>6
  <2> QED
    BY <1>1, <2>1
<1>7. ASSUME NEW i \in 1..Len(track), i >= idx PROVE track[i].time >= t
  <2>1. idx \in 1..Len(track)
    BY <1>1, <1>5, <1>7
  <2>2. track[idx].time >= t
    BY <1>1, <1>5, <2>1
  <2>3. track[idx].time <= track[i].time
    BY <1>1, <1>7, <2>1
  <2> QED
    BY <1>1, <2>1, <2>2, <2>3
<1> QED
  BY <1>4, <1>5, <1>6, <1>7 DEF idx

Pause(track, t) == \E i \in 1..Len(track)-1 : /\ track[i].time < t /\ t <= track[i+1].time
                                              /\ track[i+1].time - track[i].time > MaxGap

\* What MatchIsSound says of the match of a photo at the time t.
Sound(track, t, m) ==
    IF m = Nowhere THEN Min(Gaps(track, t)) > MaxGap \/ Pause(track, t)
    ELSE /\ m.gap = Min(Gaps(track, t)) /\ m.gap <= MaxGap /\ ~Pause(track, t)
         /\ Min(Lons(track)) * m.den <= m.num /\ m.num <= Max(Lons(track)) * m.den
         /\ m.gap = 0 => \E i \in DOMAIN track : track[i].time = t /\ m.num = track[i].lon * m.den

\* Further than the limit from both ends is further than the limit from every point.
LEMMA FarAway ==
    ASSUME NEW track \in SortedTracks, NEW t \in Int,
           t < track[1].time - MaxGap \/ t > track[Len(track)].time + MaxGap
    PROVE  Min(Gaps(track, t)) > MaxGap
<1> DEFINE n == Len(track)
<1>1. /\ n \in Nat /\ n >= 2 /\ DOMAIN track = 1..n
      /\ \A i \in 1..n : track[i].time \in Int
      /\ \A i, j \in 1..n : i <= j => track[i].time <= track[j].time
  BY TrackFacts
<1>2. 1 \in 1..n /\ n \in 1..n /\ MaxGap \in Nat
  BY <1>1, AnswersAssumption
<1>3. Min(Gaps(track, t)) \in Gaps(track, t)
  BY GapFacts
<1>4. PICK i \in 1..n : Min(Gaps(track, t)) = Distance(track[i].time, t)
  BY <1>1, <1>3 DEF Gaps
<1>5. track[1].time <= track[i].time /\ track[i].time <= track[n].time
  BY <1>1, <1>2
<1>6. Distance(track[i].time, t) > MaxGap
  <2>1. track[1].time \in Int /\ track[i].time \in Int /\ track[n].time \in Int
    BY <1>1, <1>2
  <2> HIDE DEF n
  <2>2. t < track[1].time - MaxGap \/ t > track[n].time + MaxGap
    BY DEF n
  <2> QED
    BY <1>2, <1>5, <2>1, <2>2 DEF Distance
<1> QED
  BY <1>4, <1>6

\* Half way between two places is between the two.
LEMMA Between ==
    ASSUME NEW a \in Int, NEW b \in Int, NEW lo \in Int, NEW hi \in Int, NEW d \in Nat, NEW u \in 0..d,
           lo <= a, lo <= b, a <= hi, b <= hi
    PROVE  lo * d <= a * d + u * (b - a) /\ a * d + u * (b - a) <= hi * d
<1> DEFINE v == d - u
<1>1. v \in Nat /\ u \in Nat /\ d = u + v
  OBVIOUS
<1> HIDE DEF v
<1>2. a * d + u * (b - a) = a * v + b * u
  <2>1. a * d = a * u + a * v
    BY <1>1
  <2>2. u * (b - a) = b * u - a * u
    BY <1>1
  <2> QED
    BY <1>1, <2>1, <2>2
<1>3. lo * d = lo * v + lo * u /\ hi * d = hi * v + hi * u
  BY <1>1
<1>4. \A x, y \in Int, w \in Nat : x <= y => x * w <= y * w
  OBVIOUS
<1>5. lo * v <= a * v /\ lo * u <= b * u /\ a * v <= hi * v /\ b * u <= hi * u
  BY <1>1, <1>4
<1>6. lo * v \in Int /\ lo * u \in Int /\ a * v \in Int /\ b * u \in Int /\ hi * v \in Int /\ hi * u \in Int
  BY <1>1
<1> QED
  BY <1>2, <1>3, <1>5, <1>6

\* A distance that no other is below is the closest.
LEMMA GapIs ==
    ASSUME NEW track \in SortedTracks, NEW t \in Int, NEW k \in 1..Len(track), NEW g \in Nat,
           g = Distance(track[k].time, t),
           \A i \in 1..Len(track) : g <= Distance(track[i].time, t)
    PROVE  Min(Gaps(track, t)) = g
<1>1. DOMAIN track = 1..Len(track)
  BY TrackFacts
<1>2. g \in Gaps(track, t) /\ \A x \in Gaps(track, t) : g <= x
  BY <1>1 DEF Gaps
<1>3. Gaps(track, t) \in SUBSET Int
  <2>1. Gaps(track, t) \in SUBSET Nat
    BY GapFacts
  <2> QED
    BY <2>1
<1> QED
  BY <1>2, <1>3, MinIs

\* At an end of the track: at the point itself.
LEMMA SoundAtAnEnd ==
    ASSUME NEW track \in SortedTracks, NEW t \in Int, NEW k \in 1..Len(track), NEW g \in Nat,
           g = Distance(track[k].time, t), g <= MaxGap,
           \A i \in 1..Len(track) : g <= Distance(track[i].time, t),
           ~Pause(track, t)
    PROVE  Sound(track, t, Place(track[k].lon, 1, g))
<1> DEFINE m == Place(track[k].lon, 1, g)
<1>1. /\ DOMAIN track = 1..Len(track) /\ track[k].time \in Int /\ track[k].lon \in Int
  BY TrackFacts
<1>2. m.num = track[k].lon /\ m.den = 1 /\ m.gap = g /\ m # Nowhere
  BY DEF Place, Nowhere
<1>3. Min(Gaps(track, t)) = g
  BY GapIs
<1>4. /\ Min(Lons(track)) \in Int /\ Max(Lons(track)) \in Int
      /\ Min(Lons(track)) <= track[k].lon /\ track[k].lon <= Max(Lons(track))
  BY GapFacts
<1>5. g = 0 => track[k].time = t
  BY <1>1 DEF Distance
<1>6. Min(Lons(track)) * m.den <= m.num /\ m.num <= Max(Lons(track)) * m.den
  BY <1>1, <1>2, <1>4
<1>7. m.num = track[k].lon * m.den
  BY <1>1, <1>2
<1> HIDE DEF m
<1>8. m.gap = 0 => \E i \in DOMAIN track : track[i].time = t /\ m.num = track[i].lon * m.den
  BY <1>1, <1>2, <1>5, <1>7
<1>9. m.gap = Min(Gaps(track, t)) /\ m.gap <= MaxGap
  BY <1>2, <1>3
<1>10. Sound(track, t, m)
  BY <1>2, <1>6, <1>8, <1>9 DEF Sound
<1> QED
  BY <1>10 DEF m

\* Before the first point.
LEMMA BeforeTheTrack ==
    ASSUME NEW track \in SortedTracks, NEW t \in Int, t >= track[1].time - MaxGap, Index(track, t) = 1
    PROVE  Sound(track, t, Place(track[1].lon, 1, track[1].time - t))
<1> DEFINE n == Len(track)
           g == track[1].time - t
<1>1. /\ n \in Nat /\ n >= 2
      /\ \A i \in 1..n : track[i].time \in Int
      /\ \A i, j \in 1..n : i <= j => track[i].time <= track[j].time
  BY TrackFacts
<1>2. 1 \in 1..n /\ MaxGap \in Nat /\ track[1].time \in Int
  BY <1>1, AnswersAssumption
<1>3. \A i \in 1..n : track[i].time >= t
  BY <1>1, IndexIs
<1>4. g \in Nat /\ g = Distance(track[1].time, t) /\ g <= MaxGap
  BY <1>2, <1>3 DEF Distance
<1>5. \A i \in 1..n : g <= Distance(track[i].time, t)
  <2> TAKE i \in 1..n
  <2>1. track[1].time <= track[i].time /\ track[i].time \in Int /\ track[i].time >= t
    BY <1>1, <1>2, <1>3
  <2> QED
    BY <1>2, <2>1 DEF Distance
<1>6. ~Pause(track, t)
  <2>1. \A i \in 1..n - 1 : ~(track[i].time < t)
    <3> TAKE i \in 1..n - 1
    <3>1. i \in 1..n
      BY <1>1
    <3> QED
      BY <1>1, <1>3, <3>1
  <2> QED
    BY <2>1 DEF Pause
<1> HIDE DEF g
<1>7. Sound(track, t, Place(track[1].lon, 1, g))
  BY <1>2, <1>4, <1>5, <1>6, SoundAtAnEnd
<1> QED
  BY <1>7 DEF g

\* After the last point.
LEMMA AfterTheTrack ==
    ASSUME NEW track \in SortedTracks, NEW t \in Int, t <= track[Len(track)].time + MaxGap,
           Index(track, t) > Len(track)
    PROVE  Sound(track, t, Place(track[Len(track)].lon, 1, t - track[Len(track)].time))
<1> DEFINE n == Len(track)
           g == t - track[n].time
<1>1. /\ n \in Nat /\ n >= 2
      /\ \A i \in 1..n : track[i].time \in Int
      /\ \A i, j \in 1..n : i <= j => track[i].time <= track[j].time
  BY TrackFacts
<1>2. n \in 1..n /\ MaxGap \in Nat /\ track[n].time \in Int
  BY <1>1, AnswersAssumption
<1>3. \A i \in 1..n : track[i].time < t
  <2> TAKE i \in 1..n
  <2>1. Index(track, t) \in 1..n + 1 /\ i < Index(track, t)
    BY <1>1, IndexIs
  <2> QED
    BY <2>1, IndexIs
<1>4. g \in Nat /\ g = Distance(track[n].time, t) /\ g <= MaxGap
  BY <1>2, <1>3 DEF Distance
<1>5. \A i \in 1..n : g <= Distance(track[i].time, t)
  <2> TAKE i \in 1..n
  <2>1. track[i].time <= track[n].time /\ track[i].time \in Int /\ track[i].time < t
    BY <1>1, <1>2, <1>3
  <2> QED
    BY <1>2, <2>1 DEF Distance
<1>6. ~Pause(track, t)
  <2>1. \A i \in 1..n - 1 : ~(t <= track[i+1].time)
    <3> TAKE i \in 1..n - 1
    <3>1. i + 1 \in 1..n
      BY <1>1
    <3> QED
      BY <1>1, <1>3, <3>1
  <2> QED
    BY <2>1 DEF Pause
<1> HIDE DEF g
<1>7. Sound(track, t, Place(track[n].lon, 1, g))
  <2> HIDE DEF n
  <2>1. n \in 1..Len(track) /\ \A i \in 1..Len(track) : g <= Distance(track[i].time, t)
    BY <1>2, <1>5 DEF n
  <2> QED
    BY <1>4, <1>6, <2>1, SoundAtAnEnd
<1> QED
  BY <1>7 DEF g

\* Between two points: on the line from one to the other, unless they are too far apart.
LEMMA InTheTrack ==
    ASSUME NEW track \in SortedTracks, NEW t \in Int, NEW k \in 2..Len(track), Index(track, t) = k
    PROVE  LET before == track[k - 1]
               after == track[k]
           IN  Sound(track, t,
                     IF after.time - before.time > MaxGap THEN Nowhere
                     ELSE Place(before.lon * (after.time - before.time)
                                  + (t - before.time) * (after.lon - before.lon),
                                after.time - before.time,
                                Min({t - before.time, after.time - t})))
<1> DEFINE n == Len(track)
           before == track[k - 1]
           after == track[k]
           d == after.time - before.time
           u == t - before.time
           v == after.time - t
           g == IF u <= v THEN u ELSE v
           num == before.lon * d + u * (after.lon - before.lon)
<1>1. /\ n \in Nat /\ n >= 2 /\ DOMAIN track = 1..n
      /\ \A i \in 1..n : track[i].time \in Int /\ track[i].lon \in Int
      /\ \A i, j \in 1..n : i <= j => track[i].time <= track[j].time
  BY TrackFacts
<1>2. k \in 1..n /\ k - 1 \in 1..n /\ MaxGap \in Nat /\ k - 1 < k /\ k \in Nat
  BY <1>1, AnswersAssumption
<1>3. before.time < t /\ t <= after.time
  <2>1. /\ \A i \in 1..n : i < k => track[i].time < t
        /\ \A i \in 1..n : i >= k => track[i].time >= t
    BY IndexIs
  <2>2. track[k].time \in Int
    BY <1>1, <1>2
  <2> QED
    BY <1>2, <2>1, <2>2
<1>4. /\ before.time \in Int /\ after.time \in Int /\ before.lon \in Int /\ after.lon \in Int
  BY <1>1, <1>2
<1> HIDE DEF before, after
<1>5. d \in Nat /\ u \in 1..d /\ v \in 0..d /\ g \in Nat /\ u + v = d /\ d > 0
  <2>1. d \in Int /\ u \in Int /\ v \in Int /\ u + v = d /\ u > 0 /\ v >= 0
    BY <1>3, <1>4
  <2> HIDE DEF d, u, v
  <2> QED
    BY <2>1
<1>6. ASSUME NEW i \in 1..n
      PROVE  g <= Distance(track[i].time, t)
  <2>1. CASE i < k
    <3>1. i <= k - 1
      BY <1>2, <2>1
    <3>2. track[i].time <= before.time /\ track[i].time \in Int
      BY <1>1, <1>2, <3>1 DEF before
    <3> QED
      BY <1>3, <1>4, <3>2 DEF Distance
  <2>2. CASE i >= k
    <3>1. after.time <= track[i].time /\ track[i].time \in Int
      BY <1>1, <1>2, <2>2 DEF after
    <3> QED
      BY <1>3, <1>4, <3>1 DEF Distance
  <2> QED
    BY <1>2, <2>1, <2>2
<1>7. \E j \in {k - 1, k} : g = Distance(track[j].time, t)
  <2>1. u = Distance(track[k - 1].time, t) /\ v = Distance(track[k].time, t)
    BY <1>3, <1>4 DEF Distance, before, after
  <2> HIDE DEF u, v
  <2> QED
    BY <2>1
<1>8. Min(Gaps(track, t)) = g
  <2>1. PICK j \in {k - 1, k} : g = Distance(track[j].time, t)
    BY <1>7
  <2>2. j \in 1..n
    BY <1>2
  <2> HIDE DEF g
  <2> QED
    BY <1>5, <1>6, <2>1, <2>2, GapIs
<1>9. Pause(track, t) <=> d > MaxGap
  <2>1. ASSUME NEW i \in 1..n-1, track[i].time < t, t <= track[i+1].time
        PROVE  i = k - 1
    <3>1. i \in 1..n /\ i + 1 \in 1..n /\ i \in Nat
      BY <1>1
    <3>2. ~(i >= k)
      <4>1. i >= k => track[i].time >= t
        BY <3>1, IndexIs
      <4> QED
        BY <1>1, <2>1, <3>1, <4>1
    <3>3. ~(i + 1 < k)
      <4>1. i + 1 < k => track[i+1].time < t
        BY <3>1, IndexIs
      <4> QED
        BY <1>1, <2>1, <3>1, <4>1
    <3> QED
      BY <1>2, <3>1, <3>2, <3>3
  <2>2. k - 1 \in 1..n-1 /\ k - 1 + 1 = k
    BY <1>1, <1>2
  <2>3. track[k-1].time < t /\ t <= track[k-1+1].time
    BY <1>3, <2>2 DEF before, after
  <2>4. track[k-1+1].time - track[k-1].time = d
    BY <2>2 DEF before, after
  <2> QED
    BY <2>1, <2>2, <2>3, <2>4 DEF Pause
<1>10. CASE d > MaxGap
  <2>1. Sound(track, t, Nowhere)
    BY <1>9, <1>10 DEF Sound
  <2> QED
    BY <1>10, <2>1 DEF before, after
<1>11. CASE ~(d > MaxGap)
  <2> DEFINE m == Place(num, d, g)
  <2>1. m.num = num /\ m.den = d /\ m.gap = g /\ m # Nowhere
    BY DEF Place, Nowhere
  <2>2. Min({u, v}) = g
    BY <1>5, MinOfTwo
  <2>3. g <= MaxGap
    BY <1>2, <1>5, <1>11
  <2>4. Min(Lons(track)) * d <= num /\ num <= Max(Lons(track)) * d
    <3>1. /\ Min(Lons(track)) \in Int /\ Max(Lons(track)) \in Int
          /\ Min(Lons(track)) <= before.lon /\ before.lon <= Max(Lons(track))
          /\ Min(Lons(track)) <= after.lon /\ after.lon <= Max(Lons(track))
      BY <1>2, GapFacts DEF before, after
    <3>2. u \in 0..d
      BY <1>5
    <3> HIDE DEF u, d
    <3> QED
      BY <1>4, <1>5, <3>1, <3>2, Between
  <2>5. ASSUME g = 0 PROVE track[k].time = t /\ num = track[k].lon * d
    <3>1. v = 0 /\ u = d
      BY <1>5, <2>5
    <3>2. track[k].time = t
      BY <1>4, <3>1 DEF after
    <3>3. before.lon * d + d * (after.lon - before.lon) = after.lon * d
      <4> HIDE DEF d
      <4>1. d * (after.lon - before.lon) = d * after.lon - d * before.lon
        <5> DEFINE a == after.lon
                   b == before.lon
        <5>1. a \in Int /\ b \in Int /\ d \in Int
          BY <1>4, <1>5
        <5> HIDE DEF a, b
        <5>2. d * (a - b) = d * a - d * b
          BY <5>1
        <5> QED
          BY <5>2 DEF a, b
      <4> QED
        BY <1>4, <1>5, <4>1
    <3>4. num = after.lon * d
      <4> HIDE DEF d, u
      <4> QED
        BY <3>1, <3>3
    <3> QED
      BY <3>2, <3>4 DEF after
  <2>6. Sound(track, t, m)
    <3> HIDE DEF m, num, g, d
    <3>1. m.gap = 0 => \E i \in DOMAIN track : track[i].time = t /\ m.num = track[i].lon * m.den
      BY <1>1, <1>2, <2>1, <2>5
    <3> QED
      BY <1>8, <1>9, <1>11, <2>1, <2>3, <2>4, <3>1 DEF Sound
  <2>7. m = Place(num, d, Min({u, v}))
    BY <2>2
  <2> HIDE DEF m
  <2>8. Sound(track, t, Place(num, d, Min({u, v})))
    BY <2>6, <2>7
  <2> QED
    BY <1>11, <2>8 DEF before, after
<1> QED
  BY <1>10, <1>11

\* Whatever the time, what is answered is sound.
LEMMA MatchOnTrack ==
    ASSUME NEW track \in SortedTracks, NEW t \in Int
    PROVE  Sound(track, t, MatchAsset(t, track, MaxGap))
<1> DEFINE n == Len(track)
           m == MatchAsset(t, track, MaxGap)
           idx == Index(track, t)
<1>1. idx \in 1..n + 1 /\ n \in Nat /\ n >= 2
  BY IndexIs, TrackFacts
<1>2. CASE t < track[1].time - MaxGap \/ t > track[n].time + MaxGap
  <2>3. /\ \A i \in 1..n : track[i].time \in Int
        /\ 1 \in 1..n /\ n \in 1..n /\ track[1].time <= track[n].time /\ MaxGap \in Nat
    BY <1>1, TrackFacts, AnswersAssumption
  <2>4. idx = 1 => track[1].time >= t
    BY <2>3, IndexIs
  <2>5. idx > n => track[n].time < t
    BY <2>3, IndexIs
  <2>6. track[1].time \in Int /\ track[n].time \in Int
    BY <2>3
  <2>7. ~(t >= track[1].time - MaxGap /\ idx = 1) /\ ~(t <= track[n].time + MaxGap /\ idx > n)
    <3> HIDE DEF idx, n
    <3> QED
      BY <1>2, <2>3, <2>4, <2>5, <2>6
  <2>8. idx = Min({i \in 1..n : track[i].time >= t} \union {n + 1})
    BY DEF Index
  <2>1. m = Nowhere
    <3> HIDE DEF idx
    <3> QED
      BY <1>2, <2>7, <2>8 DEF MatchAsset
  <2>2. Min(Gaps(track, t)) > MaxGap
    BY <1>2, FarAway
  <2> HIDE DEF m
  <2>9. Sound(track, t, m)
    BY <2>1, <2>2 DEF Sound
  <2> QED
    BY <2>9 DEF m
<1>3. CASE ~(t < track[1].time - MaxGap \/ t > track[n].time + MaxGap)
  <2>0. track[1].time \in Int /\ track[n].time \in Int /\ MaxGap \in Nat
    BY <1>1, TrackFacts, AnswersAssumption
  <2>1. t >= track[1].time - MaxGap /\ t <= track[n].time + MaxGap
    BY <1>3, <2>0
  <2>2. m = CASE t >= track[1].time - MaxGap /\ idx = 1 -> Place(track[1].lon, 1, track[1].time - t)
              [] t <= track[n].time + MaxGap /\ idx > n -> Place(track[n].lon, 1, t - track[n].time)
              [] OTHER -> IF track[idx].time - track[idx - 1].time > MaxGap THEN Nowhere
                          ELSE Place(track[idx - 1].lon * (track[idx].time - track[idx - 1].time)
                                       + (t - track[idx - 1].time) * (track[idx].lon - track[idx - 1].lon),
                                     track[idx].time - track[idx - 1].time,
                                     Min({t - track[idx - 1].time, track[idx].time - t}))
    BY <1>3 DEF MatchAsset, Index
  <2> HIDE DEF m, idx, n
  <2>3. CASE idx = 1
    <3>1. m = Place(track[1].lon, 1, track[1].time - t)
      BY <1>1, <2>1, <2>2, <2>3
    <3> QED
      BY <2>1, <2>3, <3>1, BeforeTheTrack DEF m, idx
  <2>4. CASE idx > n
    <3>1. m = Place(track[n].lon, 1, t - track[n].time)
      BY <1>1, <2>1, <2>2, <2>4
    <3> QED
      BY <2>1, <2>4, <3>1, AfterTheTrack DEF m, idx, n
  <2>5. CASE idx # 1 /\ ~(idx > n)
    <3>1. idx \in 2..n
      BY <1>1, <2>5
    <3>2. m = IF track[idx].time - track[idx - 1].time > MaxGap THEN Nowhere
              ELSE Place(track[idx - 1].lon * (track[idx].time - track[idx - 1].time)
                           + (t - track[idx - 1].time) * (track[idx].lon - track[idx - 1].lon),
                         track[idx].time - track[idx - 1].time,
                         Min({t - track[idx - 1].time, track[idx].time - t}))
      BY <2>2, <2>5
    <3>3. Index(track, t) = idx
      BY DEF idx
    <3>4. Sound(track, t, m)
      BY <3>1, <3>2, <3>3, InTheTrack DEF n
    <3> QED
      BY <3>4 DEF m
  <2> QED
    BY <2>3, <2>4, <2>5
<1> QED
  BY <1>2, <1>3

MatchQuestions == [track : SortedTracks, photo : TrackPhotos, zone : Zones]

\* The types of a question about a track.
LEMMA QuestionFacts ==
    ASSUME NEW q \in MatchQuestions
    PROVE  /\ q.track \in SortedTracks /\ q.photo.clock \in Int
           /\ Padding \in Nat /\ MaxGap \in Nat
           /\ Ahead(q.photo, q.zone) \in Int /\ AssetTime(q.photo, q.zone) \in Int
           /\ AssetTime(q.photo, q.zone) = q.photo.clock - Ahead(q.photo, q.zone)
<1>1. q.track \in SortedTracks /\ q.photo \in TrackPhotos /\ q.zone \in Zones
  BY DEF MatchQuestions
<1>2. q.photo.clock \in Int /\ q.photo.offset \in Int /\ q.zone \in Int
  BY <1>1, PlacesAssumption
<1>3. Ahead(q.photo, q.zone) \in Int
  BY <1>2 DEF Ahead
<1> QED
  BY <1>1, <1>2, <1>3, PaddingAssumption, AnswersAssumption DEF AssetTime

\* The rows that the text comparison leaves out are further than MaxGap from the track, unless
\* their clocks are too far from its own.
LEMMA WindowLosesNothing ==
    ASSUME NEW q \in MatchQuestions, ~InWindow(q.photo, q.track, MaxGap, Padding), Reached(q)
    PROVE  LET t == AssetTime(q.photo, q.zone)
           IN  t < q.track[1].time - MaxGap \/ t > q.track[Len(q.track)].time + MaxGap
<1> DEFINE first == q.track[1].time
           last == q.track[Len(q.track)].time
           clock == q.photo.clock
           t == AssetTime(q.photo, q.zone)
           ahead == Ahead(q.photo, q.zone)
           from == q.track[1].offset
           to == q.track[Len(q.track)].offset
<1>1. /\ clock \in Int /\ ahead \in Int /\ Padding \in Nat /\ MaxGap \in Nat
      /\ t \in Int /\ t = clock - ahead
  BY QuestionFacts
<1>2. first \in Int /\ last \in Int /\ from \in Int /\ to \in Int
  BY QuestionFacts, TrackFacts
<1>3. ahead - from >= -Padding /\ ahead - to <= Padding
  BY DEF Reached
<1>4. \/ ~(clock >= (first + from) - MaxGap - Padding)
      \/ ~(clock <= (last + to) + MaxGap + Padding)
  BY DEF InWindow, Clock
<1>5. t < first - MaxGap \/ t > last + MaxGap
  <2> HIDE DEF first, last, clock, t, ahead, from, to
  <2>1. CASE ~(clock >= (first + from) - MaxGap - Padding)
    BY <1>1, <1>2, <1>3, <2>1
  <2>2. CASE ~(clock <= (last + to) + MaxGap + Padding)
    BY <1>1, <1>2, <1>3, <2>2
  <2> QED
    BY <1>4, <2>1, <2>2
<1> QED
  BY <1>5

\* A photo in the window is matched soundly; one outside has no match to lose.
LEMMA PreviewIsSound ==
    ASSUME NEW q \in MatchQuestions
    PROVE  LET m == PreviewPhoto(q.photo, q.track, MaxGap, q.zone)
           IN  MatchIsSound(q, m) /\ (m # Nowhere => m.gap \in Nat)
<1> DEFINE m == PreviewPhoto(q.photo, q.track, MaxGap, q.zone)
           t == AssetTime(q.photo, q.zone)
<1>1. q.track \in SortedTracks /\ t \in Int
  BY QuestionFacts
<1>2. IF m = Nowhere THEN Reached(q) => Sound(q.track, t, m) ELSE Sound(q.track, t, m)
  <2>1. CASE InWindow(q.photo, q.track, MaxGap, Padding)
    <3>1. m = MatchAsset(t, q.track, MaxGap)
      BY <2>1 DEF PreviewPhoto
    <3> HIDE DEF m, t
    <3>2. Sound(q.track, t, m)
      BY <1>1, <3>1, MatchOnTrack
    <3> QED
      BY <3>2 DEF m, t
  <2>2. CASE ~InWindow(q.photo, q.track, MaxGap, Padding)
    <3>1. m = Nowhere
      BY <2>2 DEF PreviewPhoto
    <3>2. Reached(q) => Min(Gaps(q.track, t)) > MaxGap
      BY <1>1, <2>2, WindowLosesNothing, FarAway
    <3> HIDE DEF m, t
    <3>3. Reached(q) => Sound(q.track, t, m)
      BY <3>1, <3>2 DEF Sound
    <3> QED
      BY <3>1, <3>3 DEF m, t
  <2> QED
    BY <2>1, <2>2
<1> HIDE DEF m
<1>3. MatchIsSound(q, m)
  BY <1>2 DEF MatchIsSound, Sound, Gaps, Lons, Pause
<1>4. m # Nowhere => m.gap \in Nat
  <2>1. Min(Gaps(q.track, t)) \in Nat
    BY <1>1, GapFacts
  <2> QED
    BY <1>2, <2>1 DEF Sound
<1> QED
  BY <1>3, <1>4 DEF m

\* Of two previews the closer match is kept.
LEMMA CloserIsKept ==
    ASSUME NEW m, NEW o, m # Nowhere => m.gap \in Nat, o # Nowhere => o.gap \in Nat, {m, o} # {Nowhere}
    PROVE  LET merged == MergeMatches(<<m, o>>)
           IN  /\ merged \in {m, o} \ {Nowhere}
               /\ \A x \in {m, o} \ {Nowhere} : merged.gap <= x.gap
<1> DEFINE both == <<m, o>>
           placed == {i \in DOMAIN both : both[i] # Nowhere}
           best == {i \in placed : \A j \in placed : both[i].gap <= both[j].gap}
<1>1. DOMAIN both = {1, 2} /\ both[1] = m /\ both[2] = o
  OBVIOUS
<1> HIDE DEF both
<1>2. placed # {} /\ \A i \in placed : both[i].gap \in Nat
  BY <1>1
<1>3. best # {}
  <2>1. CASE 1 \in placed /\ 2 \in placed
    <3>1. both[1].gap \in Nat /\ both[2].gap \in Nat
      BY <1>2, <2>1
    <3>2. CASE both[1].gap <= both[2].gap
      <4>1. 1 \in best
        BY <1>1, <2>1, <3>1, <3>2
      <4> QED
        BY <4>1
    <3>3. CASE ~(both[1].gap <= both[2].gap)
      <4>1. 2 \in best
        BY <1>1, <2>1, <3>1, <3>3
      <4> QED
        BY <4>1
    <3> QED
      BY <3>2, <3>3
  <2>2. CASE ~(1 \in placed /\ 2 \in placed)
    <3>1. PICK i \in placed : placed = {i}
      BY <1>1, <1>2, <2>2
    <3>2. i \in best
      BY <1>2, <3>1
    <3> QED
      BY <3>2
  <2> QED
    BY <2>1, <2>2
<1>4. best \in SUBSET Nat
  BY <1>1
<1>5. Min(best) \in best
  <2> HIDE DEF best
  <2> QED
    BY <1>3, <1>4, LeastIsMin
<1>6. MergeMatches(both) = both[Min(best)]
  BY <1>2 DEF MergeMatches
<1> DEFINE k == Min(best)
<1>7. k \in placed /\ (\A j \in placed : both[k].gap <= both[j].gap) /\ MergeMatches(both) = both[k]
  BY <1>5, <1>6
<1> HIDE DEF k
<1>8. \A x \in {m, o} \ {Nowhere} : \E j \in placed : both[j] = x
  BY <1>1
<1>9. both[k] \in {m, o} \ {Nowhere} /\ \A x \in {m, o} \ {Nowhere} : both[k].gap <= x.gap
  BY <1>1, <1>7, <1>8
<1> QED
  BY <1>7, <1>9 DEF both

MatchInv ==
    kind = "match" =>
        /\ question \in MatchQuestions
        /\ step = 1 =>
             /\ MatchIsSound(question, answer.match)
             /\ {answer.match, answer.other} # {Nowhere} =>
                  /\ answer.merged \in {answer.match, answer.other} \ {Nowhere}
                  /\ \A m \in {answer.match, answer.other} \ {Nowhere} : answer.merged.gap <= m.gap

\* A track is read.
LEMMA MatchInit == AnswersInit => MatchInv
<1> SUFFICES ASSUME AnswersInit, kind = "match" PROVE MatchInv
  BY DEF MatchInv
<1>1. step = 0 /\ InitMatch
  BY DEF AnswersInit, InitPages, InitFocus, InitSuggest, InitMatch, InitHistory, InitGeocode, InitCall
<1>2. PICK points \in PointLists, photo \in TrackPhotos, zone \in Zones :
        \E track \in ParseGPX(points) :
           /\ Usable(track)
           /\ question = [track |-> track, photo |-> photo, zone |-> zone]
  BY <1>1 DEF InitMatch
<1>3. PICK track \in ParseGPX(points) :
        /\ Usable(track)
        /\ question = [track |-> track, photo |-> photo, zone |-> zone]
  BY <1>2
<1>4. track \in SortedTracks
  BY <1>3, ParsedAreTracks
<1> QED
  BY <1>1, <1>3, <1>4 DEF MatchInv, MatchQuestions

\* Matching the photo, and merging with another preview.
LEMMA MatchStep == MatchInv /\ [AnswersNext]_answersVars => MatchInv'
<1> SUFFICES ASSUME MatchInv, [AnswersNext]_answersVars, kind' = "match" PROVE MatchInv'
  BY DEF MatchInv
<1>1. CASE AskMatch
  <2> DEFINE m == PreviewPhoto(question.photo, question.track, MaxGap, question.zone)
  <2>1. /\ question \in MatchQuestions /\ question' = question
        /\ \E other \in {Nowhere} \union {Place(0, 1, g) : g \in 0..MaxGap} :
             answer' = [match |-> m, other |-> other, merged |-> MergeMatches(<<m, other>>)]
    BY <1>1 DEF AskMatch, MatchInv
  <2>2. MatchIsSound(question, m) /\ (m # Nowhere => m.gap \in Nat)
    BY <2>1, PreviewIsSound
  <2> HIDE DEF m
  <2>3. PICK other \in {Nowhere} \union {Place(0, 1, g) : g \in 0..MaxGap} :
          answer' = [match |-> m, other |-> other, merged |-> MergeMatches(<<m, other>>)]
    BY <2>1
  <2>4. other # Nowhere => other.gap \in Nat
    <3>1. MaxGap \in Nat /\ \A g \in 0..MaxGap : Place(0, 1, g).gap = g
      BY AnswersAssumption DEF Place
    <3> QED
      BY <3>1
  <2>5. {m, other} # {Nowhere} =>
          /\ MergeMatches(<<m, other>>) \in {m, other} \ {Nowhere}
          /\ \A x \in {m, other} \ {Nowhere} : MergeMatches(<<m, other>>).gap <= x.gap
    BY <2>2, <2>4, CloserIsKept
  <2>6. /\ answer'.match = m /\ answer'.other = other /\ answer'.merged = MergeMatches(<<m, other>>)
    BY <2>3
  <2> QED
    BY <2>1, <2>2, <2>5, <2>6 DEF MatchInv
<1>2. CASE UNCHANGED answersVars
  BY <1>2 DEF MatchInv, answersVars
<1>3. ~AskMatch => UNCHANGED answersVars
  BY DEF AnswersNext, AskPage, AskFocus, AskSuggest, AskGeocoders, Save, AskCall
<1> QED
  BY <1>1, <1>2, <1>3

------------------------------------------------------------------------------
(* The average of the photos of a cell is in the cell *)

SumStep(ps, f) == [s \in SUBSET ps |-> IF s = {} THEN 0
                                       ELSE (CHOOSE x \in s : TRUE).lon + f[s \ {CHOOSE x \in s : TRUE}]]

\* The sum of the longitudes, as the fold defines it.
LEMMA SumOfIs ==
    ASSUME NEW ps
    PROVE  SumOf(ps) = (CHOOSE f : f = SumStep(ps, f))[ps]
  BY DEF SumOf, MapThenFoldSet, SumStep

\* A pair for every unit of a longitude above lo: their number is the sum without lo.
UnitsOf(s, lo, hi) == {w \in s \X (0..hi-lo) : w[2] < w[1].lon - lo}

\* A photo adds as many units as its longitude is above lo.
LEMMA UnitsOfOne ==
    ASSUME NEW s, IsFiniteSet(s), NEW lo \in Int, NEW hi \in Int, \A p \in s : p.lon \in lo..hi, NEW x \in s
    PROVE  /\ Cardinality(UnitsOf(s, lo, hi)) \in Nat /\ Cardinality(UnitsOf(s \ {x}, lo, hi)) \in Nat
           /\ Cardinality(UnitsOf(s, lo, hi)) = Cardinality(UnitsOf(s \ {x}, lo, hi)) + (x.lon - lo)
<1> DEFINE k == x.lon - lo
           rest == UnitsOf(s \ {x}, lo, hi)
           own == {x} \X (0..k-1)
<1>1. k \in Nat /\ k <= hi - lo /\ hi - lo \in Nat
  OBVIOUS
<1>2. IsFiniteSet(UnitsOf(s, lo, hi)) /\ Cardinality(UnitsOf(s, lo, hi)) \in Nat
  <2>1. IsFiniteSet(0..hi-lo)
    BY <1>1, FS_Interval
  <2>2. IsFiniteSet(s \X (0..hi-lo))
    BY <2>1, FS_Product
  <2>3. UnitsOf(s, lo, hi) \in SUBSET (s \X (0..hi-lo))
    BY DEF UnitsOf
  <2> QED
    BY <2>2, <2>3, FS_Subset, FS_CardinalityType
<1>3. IsFiniteSet(own) /\ Cardinality(own) = k
  <2>1. IsFiniteSet(0..k-1) /\ Cardinality(0..k-1) = k
    <3> HIDE DEF k
    <3>1. 0 \in Int /\ k - 1 \in Int
      BY <1>1
    <3>2. IsFiniteSet(0..k-1) /\ Cardinality(0..k-1) = IF 0 > k - 1 THEN 0 ELSE k - 1 - 0 + 1
      BY <3>1, FS_Interval
    <3> QED
      BY <1>1, <3>2
  <2>2. IsFiniteSet({x}) /\ Cardinality({x}) = 1
    BY FS_Singleton
  <2>3. IsFiniteSet(own) /\ Cardinality(own) = 1 * k
    <3> HIDE DEF k
    <3> QED
      BY <2>1, <2>2, FS_Product
  <2> QED
    BY <1>1, <2>3
<1>4. UnitsOf(s, lo, hi) = rest \union own
  <2>1. ASSUME NEW w \in UnitsOf(s, lo, hi) PROVE w \in rest \union own
    <3>1. w \in s \X (0..hi-lo) /\ w[2] < w[1].lon - lo /\ w = <<w[1], w[2]>>
      BY DEF UnitsOf
    <3>2. CASE w[1] = x
      <4>1. w[2] \in 0..k-1
        BY <1>1, <3>1, <3>2
      <4> QED
        BY <3>1, <3>2, <4>1
    <3>3. CASE w[1] # x
      BY <3>1, <3>3 DEF UnitsOf
    <3> QED
      BY <3>2, <3>3
  <2>2. rest \subseteq UnitsOf(s, lo, hi)
    BY DEF UnitsOf
  <2>3. ASSUME NEW w \in own PROVE w \in UnitsOf(s, lo, hi)
    <3>1. w[1] = x /\ w[2] \in 0..k-1 /\ w = <<w[1], w[2]>>
      OBVIOUS
    <3>2. w[2] \in 0..hi-lo /\ w[2] < x.lon - lo
      BY <1>1, <3>1
    <3> QED
      BY <3>1, <3>2 DEF UnitsOf
  <2> QED
    BY <2>1, <2>2, <2>3
<1>5. rest \intersect own = {}
  BY DEF UnitsOf
<1>6. IsFiniteSet(rest) /\ Cardinality(rest) \in Nat
  <2>1. rest \in SUBSET UnitsOf(s, lo, hi)
    BY <1>4
  <2> QED
    BY <1>2, <2>1, FS_Subset, FS_CardinalityType
<1>7. Cardinality(UnitsOf(s, lo, hi)) = Cardinality(rest) + k - 0
  <2> HIDE DEF rest, own, k
  <2>1. Cardinality(rest \union own) = Cardinality(rest) + Cardinality(own) - Cardinality(rest \intersect own)
    BY <1>3, <1>6, FS_Union
  <2> QED
    BY <1>3, <1>4, <1>5, <2>1, FS_EmptySet
<1> QED
  BY <1>1, <1>2, <1>6, <1>7

\* The fold has a solution: counting the units gives one.
LEMMA SumExists ==
    ASSUME NEW ps, IsFiniteSet(ps), NEW lo \in Int, NEW hi \in Int, \A p \in ps : p.lon \in lo..hi
    PROVE  \E f : f = SumStep(ps, f)
<1> DEFINE f == [s \in SUBSET ps |-> lo * Cardinality(s) + Cardinality(UnitsOf(s, lo, hi))]
<1>1. ASSUME NEW s \in SUBSET ps
      PROVE  f[s] = IF s = {} THEN 0
                    ELSE (CHOOSE x \in s : TRUE).lon + f[s \ {CHOOSE x \in s : TRUE}]
  <2>1. CASE s = {}
    <3>1. UnitsOf({}, lo, hi) = {}
      BY DEF UnitsOf
    <3>2. f[s] = lo * 0 + 0
      BY <2>1, <3>1, FS_EmptySet
    <3> QED
      BY <2>1, <3>2
  <2>2. CASE s # {}
    <3> DEFINE x == CHOOSE x \in s : TRUE
               n == Cardinality(s \ {x})
               u == Cardinality(UnitsOf(s \ {x}, lo, hi))
    <3>1. x \in s
      BY <2>2
    <3> HIDE DEF x
    <3>2. IsFiniteSet(s) /\ IsFiniteSet(s \ {x}) /\ Cardinality(s) \in Nat /\ n \in Nat /\ n = Cardinality(s) - 1
      BY <3>1, FS_Subset, FS_RemoveElement, FS_CardinalityType
    <3>3. u \in Nat /\ Cardinality(UnitsOf(s, lo, hi)) = u + (x.lon - lo) /\ x.lon \in Int
      <4>1. (\A p \in s : p.lon \in lo..hi) /\ x.lon \in lo..hi
        BY <3>1
      <4> HIDE DEF u, f
      <4>3. x \in s /\ IsFiniteSet(s) /\ \A p \in s : p.lon \in lo..hi
        BY <3>1, <3>2, <4>1
      <4>2. /\ Cardinality(UnitsOf(s \ {x}, lo, hi)) \in Nat
            /\ Cardinality(UnitsOf(s, lo, hi)) = Cardinality(UnitsOf(s \ {x}, lo, hi)) + (x.lon - lo)
        BY <4>3, UnitsOfOne, Zenon
      <4> QED
        BY <4>1, <4>2 DEF u
    <3>4. f[s] = lo * (n + 1) + (u + (x.lon - lo))
      <4>1. Cardinality(s) = n + 1
        BY <3>2
      <4> HIDE DEF n, u
      <4> QED
        BY <3>3, <4>1
    <3>5. f[s \ {x}] = lo * n + u
      OBVIOUS
    <3> HIDE DEF n, u, f
    <3>6. lo * (n + 1) + (u + (x.lon - lo)) = x.lon + (lo * n + u)
      <4>1. lo * (n + 1) = lo * n + lo /\ lo * n \in Int
        BY <3>2
      <4> QED
        BY <3>3, <4>1
    <3>7. f[s] = x.lon + f[s \ {x}]
      BY <3>4, <3>5, <3>6
    <3> QED
      BY <2>2, <3>7 DEF x
  <2> QED
    BY <2>1, <2>2
<1>2. f = SumStep(ps, f)
  <2>1. f = [s \in SUBSET ps |-> f[s]]
    OBVIOUS
  <2> HIDE DEF f
  <2> QED
    BY <1>1, <2>1 DEF SumStep
<1> QED
  BY <1>2

\* The sum is between the least and the greatest, times the number of photos.
LEMMA SumBounds ==
    ASSUME NEW ps, IsFiniteSet(ps), NEW lo \in Int, NEW hi \in Int, \A p \in ps : p.lon \in lo..hi
    PROVE  /\ SumOf(ps) \in Int /\ Cardinality(ps) \in Nat
           /\ lo * Cardinality(ps) <= SumOf(ps) /\ SumOf(ps) <= hi * Cardinality(ps)
<1> DEFINE f == CHOOSE f : f = SumStep(ps, f)
           Fine(s) == f[s] \in Int /\ lo * Cardinality(s) <= f[s] /\ f[s] <= hi * Cardinality(s)
           bad == {s \in SUBSET ps : ~Fine(s)}
           sizes == {Cardinality(s) : s \in bad}
<1>1. f = SumStep(ps, f)
  BY SumExists
<1> HIDE DEF f
<1>2. \A s \in SUBSET ps : IsFiniteSet(s) /\ Cardinality(s) \in Nat
  BY FS_Subset, FS_CardinalityType
<1>3. ASSUME NEW s \in bad, \A z \in bad : Cardinality(s) <= Cardinality(z) PROVE FALSE
  <2>1. s \in SUBSET ps /\ ~Fine(s)
    OBVIOUS
  <2>2. s # {}
    <3>1. f[{}] = 0
      BY <1>1 DEF SumStep
    <3>2. Cardinality({}) = 0
      BY FS_EmptySet
    <3>3. Fine({})
      BY <3>1, <3>2
    <3> QED
      BY <2>1, <3>3
  <2> DEFINE x == CHOOSE x \in s : TRUE
             n == Cardinality(s \ {x})
  <2>3. x \in s /\ f[s] = x.lon + f[s \ {x}]
    BY <1>1, <2>1, <2>2 DEF SumStep
  <2> HIDE DEF x
  <2>4. s \ {x} \in SUBSET ps /\ n \in Nat /\ Cardinality(s) = n + 1
    BY <1>2, <2>1, <2>3, FS_RemoveElement
  <2>5. Fine(s \ {x})
    <3>1. ~(Cardinality(s) <= n)
      BY <2>4
    <3> HIDE DEF Fine
    <3> QED
      BY <1>3, <2>4, <3>1
  <2>6. x.lon \in lo..hi
    BY <2>1, <2>3
  <2>7. f[s \ {x}] \in Int /\ lo * n <= f[s \ {x}] /\ f[s \ {x}] <= hi * n
    BY ONLY <2>5
  <2> HIDE DEF n
  <2>8. lo * (n + 1) = lo * n + lo /\ hi * (n + 1) = hi * n + hi /\ lo * n \in Int /\ hi * n \in Int
    <3>1. \A a \in Int, b \in Nat : a * (b + 1) = a * b + a /\ a * b \in Int
      OBVIOUS
    <3>2. n \in Nat
      BY <2>4
    <3> QED
      BY ONLY <3>1, <3>2, lo \in Int, hi \in Int
  <2>9. f[s] \in Int /\ lo * (n + 1) <= f[s] /\ f[s] <= hi * (n + 1)
    BY <2>3, <2>6, <2>7, <2>8
  <2> QED
    BY <2>1, <2>4, <2>9
<1>4. bad = {}
  <2>1. SUFFICES ASSUME bad # {} PROVE FALSE
    OBVIOUS
  <2>2. sizes \in SUBSET Nat /\ sizes # {}
    BY <1>2, <2>1
  <2>3. PICK b \in sizes : \A z \in sizes : b <= z
    <3> HIDE DEF sizes
    <3> QED
      BY <2>2, Least
  <2>4. PICK s \in bad : Cardinality(s) = b
    OBVIOUS
  <2>5. \A z \in bad : Cardinality(s) <= Cardinality(z)
    BY <2>3, <2>4
  <2> HIDE DEF bad
  <2> QED
    BY <1>3, <2>5
<1>5. Fine(ps)
  <2> HIDE DEF Fine
  <2> QED
    BY <1>4
<1> QED
  BY <1>2, <1>5, SumOfIs DEF f

\* Rounded, the average of the photos of a cell is the cell again.
LEMMA AverageInCell ==
    ASSUME NEW ps, IsFiniteSet(ps), ps # {}, NEW c,
           \A p \in ps : p.lon \in Int /\ RoundCoordinate(p.lon, 1) = c
    PROVE  /\ SumOf(ps) \in Int /\ Cardinality(ps) \in Nat \ {0}
           /\ RoundCoordinate(SumOf(ps), Cardinality(ps)) = c
<1> DEFINE n == Cardinality(ps)
           sum == SumOf(ps)
<1>1. n \in Nat \ {0}
  BY FS_CardinalityType, FS_EmptySet
<1>2. PICK p \in ps : TRUE
  OBVIOUS
<1>3. c \in Int
  BY <1>2 DEF RoundCoordinate
<1>4. \A q \in ps : q.lon \in (10 * c - 5)..(10 * c + 4)
  <2> TAKE q \in ps
  <2> DEFINE l == q.lon
  <2>1. l \in Int /\ (l + 5 * 1) \div (10 * 1) = c
    BY DEF RoundCoordinate
  <2> HIDE DEF l
  <2>2. (l + 5) \div 10 = c
    BY <2>1
  <2>3. 10 * c <= l + 5 /\ l + 5 < 10 * c + 10
    BY <1>3, <2>1, <2>2
  <2>4. l \in (10 * c - 5)..(10 * c + 4)
    BY <1>3, <2>1, <2>3
  <2> QED
    BY <2>4 DEF l
<1>5. sum \in Int /\ (10 * c - 5) * n <= sum /\ sum <= (10 * c + 4) * n
  BY <1>3, <1>4, SumBounds
<1> HIDE DEF n, sum
<1> DEFINE m == 10 * n
<1>6. m \in Nat \ {0} /\ c * m \in Int /\ c * m <= sum + 5 * n /\ sum + 5 * n < c * m + m
  <2>1. (10 * c - 5) * n = c * (10 * n) - 5 * n /\ (10 * c + 4) * n = c * (10 * n) + 4 * n
    BY <1>1, <1>3
  <2>2. c * (10 * n) \in Int
    BY <1>1, <1>3
  <2> QED
    BY <1>1, <1>5, <2>1, <2>2
<1> HIDE DEF m
<1>7. (sum + 5 * n) \div m = c
  BY <1>1, <1>3, <1>5, <1>6
<1> QED
  BY <1>1, <1>5, <1>7 DEF RoundCoordinate, m, n, sum

------------------------------------------------------------------------------
(* The clusters of photos *)

Photos == [time : Int, lon : Int, inAlbum : BOOLEAN, label : STRING, usable : BOOLEAN, dated : BOOLEAN]

Cells(ps) == {RoundCoordinate(p.lon, 1) : p \in ps}

\* Clusters of some of the photos: each is where photos are.
Labels(ps) == {"coords"} \union {p.label : p \in ps}
PlacedClusters(ps) == {k \in [sum : Int, count : Nat, label : Labels(ps)] : ClusterKey(k) \in Cells(ps)}

\* There are no more cells than photos.
LEMMA FewCells ==
    ASSUME NEW ps, IsFiniteSet(ps)
    PROVE  IsFiniteSet(Cells(ps)) /\ Cardinality(Cells(ps)) <= Cardinality(ps)
           /\ Cardinality(Cells(ps)) \in Nat /\ Cardinality(ps) \in Nat
<1> DEFINE f == [p \in ps |-> RoundCoordinate(p.lon, 1)]
<1>1. DOMAIN f = ps /\ Cells(ps) = {f[p] : p \in ps}
  BY DEF Cells
<1> HIDE DEF f
<1> QED
  BY <1>1, ImageOf, FS_CardinalityType

\* A label is that of a photo, or the coordinates.
LEMMA LabelsOfPhotos ==
    ASSUME NEW ps
    PROVE  MostFrequentLabels(ps) \subseteq Labels(ps)
<1> DEFINE named == {p \in ps : p.label # "none"}
           all == {p.label : p \in named}
<1>1. MostFrequentLabels(ps) \subseteq {"coords"} \union all
  BY DEF MostFrequentLabels
<1> QED
  BY <1>1 DEF Labels

\* A cluster is in the cell of its photos.
LEMMA ClustersOfACell ==
    ASSUME NEW ps \in SUBSET Photos, IsFiniteSet(ps), NEW c \in Cells(ps),
           NEW k \in Clusters({p \in ps : RoundCoordinate(p.lon, 1) = c})
    PROVE  k \in PlacedClusters(ps)
<1> DEFINE own == {p \in ps : RoundCoordinate(p.lon, 1) = c}
<1>1. own \in SUBSET ps /\ own # {} /\ IsFiniteSet(own) /\ own \in SUBSET Photos
  <2>1. own \in SUBSET ps /\ own # {}
    BY DEF Cells
  <2> HIDE DEF own
  <2> QED
    BY <2>1, FS_Subset
<1>2. \A p \in own : p.lon \in Int /\ RoundCoordinate(p.lon, 1) = c
  BY DEF Photos
<1>3. k \in Clusters(own)
  OBVIOUS
<1> HIDE DEF own
<1>4. /\ SumOf(own) \in Int /\ Cardinality(own) \in Nat \ {0}
      /\ RoundCoordinate(SumOf(own), Cardinality(own)) = c
  BY <1>1, <1>2, AverageInCell
<1>5. k.sum = SumOf(own) /\ k.count = Cardinality(own) /\ k.label \in MostFrequentLabels(own)
      /\ k = [sum |-> k.sum, count |-> k.count, label |-> k.label]
  BY <1>3 DEF Clusters
<1>6. k.label \in Labels(ps)
  BY <1>1, <1>5, LabelsOfPhotos DEF Labels
<1>7. k \in [sum : Int, count : Nat, label : Labels(ps)]
  BY <1>4, <1>5, <1>6
<1>8. ClusterKey(k) = c
  BY <1>4, <1>5 DEF ClusterKey
<1> QED
  BY <1>7, <1>8 DEF PlacedClusters

\* The clusters answered: no more than photos, each in a cell.
LEMMA ClusterLists ==
    ASSUME NEW ps \in SUBSET Photos, IsFiniteSet(ps), NEW s \in ClusterAssets(ps)
    PROVE  s \in Seq(PlacedClusters(ps)) /\ Len(s) <= Cardinality(ps)
<1> DEFINE cells == {RoundCoordinate(p.lon, 1) : p \in ps}
           of(c) == {p \in ps : RoundCoordinate(p.lon, 1) = c}
           n == Min({MaxClusters, Cardinality(cells)})
           all == UNION {Clusters(of(c)) : c \in cells}
           orders == {o \in [1..n -> cells] :
                        /\ \A i, j \in 1..n : i < j => o[i] # o[j] /\ Cardinality(of(o[i])) >= Cardinality(of(o[j]))
                        /\ \A c \in cells \ {o[i] : i \in 1..n} : \A i \in 1..n : Cardinality(of(o[i])) >= Cardinality(of(c))}
<1>1. s \in UNION {{q \in [1..n -> all] : \A i \in 1..n : q[i] \in Clusters(of(o[i]))} : o \in orders}
  BY DEF ClusterAssets
<1> HIDE DEF orders
<1>2. PICK o \in orders : s \in {q \in [1..n -> all] : \A i \in 1..n : q[i] \in Clusters(of(o[i]))}
  BY <1>1
<1>3. o \in [1..n -> cells]
  BY DEF orders
<1>4. cells = Cells(ps)
  BY DEF Cells
<1>5. n \in Nat /\ n <= Cardinality(ps)
  <2>1. Cardinality(cells) \in Nat /\ Cardinality(cells) <= Cardinality(ps) /\ Cardinality(ps) \in Nat
    BY <1>4, FewCells
  <2>2. MaxClusters \in Nat
    BY SuggestionLimits
  <2> HIDE DEF cells
  <2> QED
    BY <2>1, <2>2, MinOfTwo
<1> HIDE DEF n
<1>6. s \in [1..n -> all] /\ \A i \in 1..n : s[i] \in Clusters(of(o[i]))
  <2> HIDE DEF all
  <2> QED
    BY <1>2
<1>7. \A i \in 1..n : s[i] \in PlacedClusters(ps)
  <2> TAKE i \in 1..n
  <2>1. o[i] \in Cells(ps)
    BY <1>3, <1>4
  <2>2. s[i] \in Clusters({p \in ps : RoundCoordinate(p.lon, 1) = o[i]})
    BY <1>6
  <2> QED
    BY <2>1, <2>2, ClustersOfACell
<1>8. s \in [1..n -> PlacedClusters(ps)]
  <2> HIDE DEF all
  <2> QED
    BY <1>6, <1>7
<1>9. s \in Seq(PlacedClusters(ps)) /\ Len(s) = n
  BY <1>5, <1>8
<1> QED
  BY <1>5, <1>9

\* The lists a photo is answered, of at most as many clusters as there are photos.
SuggestedLists(ps) == {s \in Seq(PlacedClusters(ps)) : Len(s) <= Cardinality(ps)}

\* The same of some of the photos.
LEMMA PartsArePlaced ==
    ASSUME NEW photos \in SUBSET Photos, IsFiniteSet(photos), NEW ps \in SUBSET photos, NEW s \in ClusterAssets(ps)
    PROVE  s \in SuggestedLists(photos)
<1>1. IsFiniteSet(ps) /\ ps \in SUBSET Photos /\ Cardinality(ps) <= Cardinality(photos)
      /\ Cardinality(ps) \in Nat /\ Cardinality(photos) \in Nat
  BY FS_Subset, FS_CardinalityType
<1>2. s \in Seq(PlacedClusters(ps)) /\ Len(s) <= Cardinality(ps)
  BY <1>1, ClusterLists
<1>3. PlacedClusters(ps) \subseteq PlacedClusters(photos)
  BY DEF PlacedClusters, Cells, Labels
<1>4. s \in Seq(PlacedClusters(photos)) /\ Len(s) \in Nat
  <2>1. Len(s) \in Nat /\ \A i \in 1..Len(s) : s[i] \in PlacedClusters(ps)
    BY <1>2
  <2>2. \A i \in 1..Len(s) : s[i] \in PlacedClusters(photos)
    BY <1>3, <2>1
  <2> QED
    BY <1>2, <2>1, <2>2
<1> QED
  BY <1>1, <1>2, <1>4 DEF SuggestedLists

Suggesting(ps) == [sameDay : SuggestedLists(ps), twoDay : SuggestedLists(ps), weekly : SuggestedLists(ps),
                   album : SuggestedLists(ps)]

\* What the backend answers for a photo.
LEMMA AnswersAreLists ==
    ASSUME NEW photos \in SUBSET Photos, IsFiniteSet(photos), NEW self, NEW album \in BOOLEAN,
           NEW r \in GetSuggestions(photos, self, album)
    PROVE  r \in Suggesting(photos)
<1>1. \A h : WithinHours(photos, self.time, h) \in SUBSET photos
  BY DEF WithinHours
<1>2. OfTheAlbum(photos) \in SUBSET photos
  BY DEF OfTheAlbum
<1>3. \A h : ClusterAssets(WithinHours(photos, self.time, h)) \subseteq SuggestedLists(photos)
  BY <1>1, PartsArePlaced
<1>4. ClusterAssets(OfTheAlbum(photos)) \subseteq SuggestedLists(photos)
  BY <1>2, PartsArePlaced
<1>5. <<>> \in SuggestedLists(photos)
  <2>1. <<>> \in Seq(PlacedClusters(photos)) /\ Len(<<>>) = 0
    OBVIOUS
  <2>2. Cardinality(photos) \in Nat
    BY FS_CardinalityType
  <2> QED
    BY <2>1, <2>2 DEF SuggestedLists
<1>6. /\ r.sameDay \in SuggestedLists(photos) /\ r.twoDay \in SuggestedLists(photos)
      /\ r.weekly \in SuggestedLists(photos) /\ r.album \in SuggestedLists(photos)
      /\ r = [sameDay |-> r.sameDay, twoDay |-> r.twoDay, weekly |-> r.weekly, album |-> r.album]
  BY <1>3, <1>4, <1>5 DEF GetSuggestions
<1> QED
  BY <1>6 DEF Suggesting

------------------------------------------------------------------------------
(* The suggested places *)

AllClusters(r) == r.album \o r.sameDay \o r.twoDay \o r.weekly
FirstsOf(all) == {i \in DOMAIN all : \A j \in 1..i-1 : ClusterKey(all[j]) # ClusterKey(all[i])}
Scored(r) == {[cluster |-> AllClusters(r)[i], score |-> Score(r, ClusterKey(AllClusters(r)[i])), at |-> i] :
                i \in FirstsOf(AllClusters(r))}
Above(x, y) == \/ x.score > y.score
               \/ /\ x.score = y.score
                  /\ x.cluster.count > y.cluster.count \/ (x.cluster.count = y.cluster.count /\ x.at < y.at)
AbovePairs(r) == {p \in Scored(r) \X Scored(r) : Above(p[1], p[2])}

\* BuildSuggested, with its parts named.
LEMMA SuggestedIs ==
    ASSUME NEW r
    PROVE  LET order == Sorted(Scored(r), AbovePairs(r))
           IN  BuildSuggested(r) = [i \in 1..Min({MaxSuggested, Len(order)}) |-> order[i].cluster]
  BY DEF BuildSuggested, Scored, AbovePairs, Above, AllClusters, FirstsOf

\* All the clusters that are answered, one list after the other.
LEMMA AllAreLists ==
    ASSUME NEW ps, NEW r \in Suggesting(ps)
    PROVE  /\ AllClusters(r) \in Seq(PlacedClusters(ps)) /\ Len(AllClusters(r)) \in Nat
           /\ DOMAIN AllClusters(r) = 1..Len(AllClusters(r))
           /\ \A c \in ToSet(r.sameDay) : \E i \in DOMAIN AllClusters(r) : AllClusters(r)[i] = c
<1>1. /\ r.album \in Seq(PlacedClusters(ps)) /\ r.sameDay \in Seq(PlacedClusters(ps))
      /\ r.twoDay \in Seq(PlacedClusters(ps)) /\ r.weekly \in Seq(PlacedClusters(ps))
  BY DEF Suggesting, SuggestedLists
<1> DEFINE a == r.album
           s == r.sameDay
           t == r.twoDay
           w == r.weekly
           X == PlacedClusters(ps)
<1> HIDE DEF a, s, t, w, X
<1>2. a \in Seq(X) /\ s \in Seq(X) /\ t \in Seq(X) /\ w \in Seq(X)
  BY <1>1 DEF a, s, t, w, X
<1>3. a \o s \o t \o w \in Seq(X)
  BY <1>2
<1>4. ASSUME NEW i \in 1..Len(s)
      PROVE  Len(a) + i \in 1..Len(a \o s \o t \o w) /\ (a \o s \o t \o w)[Len(a) + i] = s[i]
  BY <1>2
<1>5. AllClusters(r) = a \o s \o t \o w
  BY DEF AllClusters, a, s, t, w
<1>6. \A c \in ToSet(s) : \E i \in 1..Len(s) : s[i] = c
  BY <1>2 DEF ToSet
<1>7. \A c \in ToSet(s) : \E i \in DOMAIN AllClusters(r) : AllClusters(r)[i] = c
  <2> TAKE c \in ToSet(s)
  <2>1. PICK i \in 1..Len(s) : s[i] = c
    BY <1>6
  <2>2. Len(a) + i \in DOMAIN AllClusters(r) /\ AllClusters(r)[Len(a) + i] = c
    BY <1>3, <1>4, <1>5, <2>1
  <2> QED
    BY <2>2
<1>8. /\ AllClusters(r) \in Seq(X) /\ Len(AllClusters(r)) \in Nat
      /\ DOMAIN AllClusters(r) = 1..Len(AllClusters(r))
  BY <1>3, <1>5
<1> QED
  BY <1>7, <1>8 DEF s, X

\* A score says whether the place is one of the same day.
LEMMA ScoreOfTheDay ==
    ASSUME NEW r, NEW key
    PROVE  Score(r, key) \in Int /\ (Score(r, key) >= 6 <=> key \in Keys(r.sameDay))
<1>1. CASE key \in Keys(r.sameDay)
  BY <1>1 DEF Score
<1>2. CASE key \notin Keys(r.sameDay) /\ key \in Keys(r.twoDay)
  BY <1>2 DEF Score
<1>3. CASE key \notin Keys(r.sameDay) /\ key \notin Keys(r.twoDay) /\ key \in Keys(r.weekly)
  BY <1>3 DEF Score
<1>4. CASE key \notin Keys(r.sameDay) /\ key \notin Keys(r.twoDay) /\ key \notin Keys(r.weekly)
  BY <1>4 DEF Score
<1> QED
  BY <1>1, <1>2, <1>3, <1>4

\* The order by score, count and position is total; no place is twice in it.
LEMMA ScoredFacts ==
    ASSUME NEW ps, IsFiniteSet(ps), NEW r \in Suggesting(ps)
    PROVE  /\ IsFiniteSet(Scored(r)) /\ TotalOn(Scored(r), AbovePairs(r))
           /\ Cardinality(Scored(r)) <= Cardinality(ps)
           /\ \A x \in Scored(r) : /\ x.score = Score(r, ClusterKey(x.cluster))
                                   /\ x.cluster \in PlacedClusters(ps)
           /\ \A x, y \in Scored(r) : ClusterKey(x.cluster) = ClusterKey(y.cluster) => x = y
<1> DEFINE all == AllClusters(r)
           firsts == FirstsOf(all)
           S == Scored(r)
<1>1. all \in Seq(PlacedClusters(ps)) /\ Len(all) \in Nat /\ DOMAIN all = 1..Len(all)
  BY AllAreLists
<1>2. \A i \in firsts : i \in Nat /\ i >= 1 /\ all[i] \in PlacedClusters(ps)
  BY <1>1 DEF FirstsOf
<1>3. \A i, j \in firsts : ClusterKey(all[i]) = ClusterKey(all[j]) => i = j
  <2> SUFFICES ASSUME NEW i \in firsts, NEW j \in firsts, ClusterKey(all[i]) = ClusterKey(all[j]), i < j
               PROVE  FALSE
    BY <1>2
  <2>1. i \in 1..j-1
    BY <1>2
  <2> QED
    BY <2>1 DEF FirstsOf
<1>4. \A x \in S : /\ x.at \in firsts /\ x.cluster = all[x.at] /\ x.score = Score(r, ClusterKey(x.cluster))
                   /\ x = [cluster |-> all[x.at], score |-> Score(r, ClusterKey(all[x.at])), at |-> x.at]
  BY DEF Scored
<1> HIDE DEF all, firsts, S
<1>5. \A x \in S : /\ x.at \in Nat /\ x.cluster \in PlacedClusters(ps)
                   /\ x.cluster.count \in Int /\ x.score \in Int
  <2> TAKE x \in S
  <2>1. x.cluster \in PlacedClusters(ps) /\ x.at \in Nat
    BY <1>2, <1>4
  <2>2. x.cluster.count \in Nat
    BY <2>1 DEF PlacedClusters
  <2> QED
    BY <1>4, <2>1, <2>2, ScoreOfTheDay
<1>6. \A x, y \in S : x.at = y.at => x = y
  BY <1>4
<1>7. \A x, y \in S : ClusterKey(x.cluster) = ClusterKey(y.cluster) => x = y
  BY <1>3, <1>4, <1>6
<1>8. TotalOn(S, AbovePairs(r))
  <2>1. \A x, y \in S : <<x, y>> \in AbovePairs(r) <=> Above(x, y)
    BY DEF AbovePairs, S
  <2>2. \A x \in S : ~Above(x, x)
    BY <1>5 DEF Above
  <2>3. \A x, y, z \in S : Above(x, y) /\ Above(y, z) => Above(x, z)
    BY <1>5 DEF Above
  <2>4. \A x, y \in S : x # y => Above(x, y) \/ Above(y, x)
    <3> TAKE x, y \in S
    <3>1. x # y => x.at # y.at
      BY <1>6
    <3> QED
      BY <1>5, <3>1 DEF Above
  <2> QED
    BY <2>1, <2>2, <2>3, <2>4 DEF TotalOn
<1>9. IsFiniteSet(S) /\ Cardinality(S) <= Cardinality(ps)
  <2> DEFINE f == [x \in S |-> ClusterKey(x.cluster)]
  <2>1. f \in [S -> Cells(ps)] /\ \A x, y \in S : f[x] = f[y] => x = y
    BY <1>5, <1>7 DEF PlacedClusters
  <2>2. f \in Injection(S, Cells(ps))
    <3> HIDE DEF f
    <3> QED
      BY <2>1, Fun_IsInj
  <2>3. /\ IsFiniteSet(Cells(ps)) /\ Cardinality(Cells(ps)) <= Cardinality(ps)
        /\ Cardinality(Cells(ps)) \in Nat /\ Cardinality(ps) \in Nat
    BY FewCells
  <2>4. IsFiniteSet(S) /\ Cardinality(S) <= Cardinality(Cells(ps))
    <3> HIDE DEF f
    <3> QED
      BY <2>2, <2>3, FS_Injection
  <2> QED
    BY <2>3, <2>4, FS_CardinalityType
<1> QED
  BY <1>4, <1>5, <1>7, <1>8, <1>9 DEF S

\* Every place once, and those of the same day first.
LEMMA SuggestedInOrder ==
    ASSUME NEW ps, IsFiniteSet(ps), NEW r \in Suggesting(ps)
    PROVE  LET s == BuildSuggested(r)
               day == Keys(r.sameDay)
           IN  /\ s \in SuggestedLists(ps)
               /\ \A i, j \in DOMAIN s : i < j => /\ ClusterKey(s[i]) # ClusterKey(s[j])
                                                  /\ ClusterKey(s[j]) \in day => ClusterKey(s[i]) \in day
               /\ r.sameDay # <<>> => s # <<>> /\ ClusterKey(s[1]) \in day
<1> DEFINE S == Scored(r)
           R == AbovePairs(r)
           order == Sorted(S, R)
           n == Cardinality(S)
           k == Min({MaxSuggested, Len(order)})
           s == BuildSuggested(r)
           day == Keys(r.sameDay)
<1>1. /\ IsFiniteSet(S) /\ TotalOn(S, R) /\ n <= Cardinality(ps)
      /\ \A x \in S : x.score = Score(r, ClusterKey(x.cluster)) /\ x.cluster \in PlacedClusters(ps)
      /\ \A x, y \in S : ClusterKey(x.cluster) = ClusterKey(y.cluster) => x = y
  BY ScoredFacts
<1>2. s = [i \in 1..k |-> order[i].cluster]
  BY SuggestedIs
<1> HIDE DEF S, R
<1>3. /\ n \in Nat /\ Len(order) = n
      /\ \A i \in 1..n : order[i] \in S
      /\ \A x \in S : Rank(S, R, x) + 1 \in 1..n
      /\ \A i, j \in 1..n : i < j => <<order[i], order[j]>> \in R
      /\ \A i, j \in 1..n : order[i] = order[j] => i = j
  BY <1>1, SortedList
<1> HIDE DEF order, n
<1>4. MaxSuggested \in Nat \ {0}
  BY SuggestionLimits
<1>5. k \in Nat /\ k <= n /\ (n >= 1 => k >= 1)
  BY <1>3, <1>4, MinOfTwo
<1> HIDE DEF k, s, day
<1>6. Cardinality(ps) \in Nat
  BY FS_CardinalityType
<1>7. s \in SuggestedLists(ps) /\ DOMAIN s = 1..k
  <2>1. \A i \in 1..k : order[i].cluster \in PlacedClusters(ps)
    BY <1>1, <1>3, <1>5
  <2>2. s \in [1..k -> PlacedClusters(ps)]
    BY <1>2, <2>1
  <2>3. s \in Seq(PlacedClusters(ps)) /\ Len(s) = k
    BY <1>5, <2>2
  <2>4. k <= Cardinality(ps)
    BY <1>1, <1>3, <1>5, <1>6
  <2> QED
    BY <2>2, <2>3, <2>4 DEF SuggestedLists
<1>8. ASSUME NEW x \in S, NEW y \in S, <<x, y>> \in R PROVE x.score >= y.score
  <2>1. Above(x, y)
    BY <1>8 DEF R, AbovePairs
  <2>2. x.score \in Int /\ y.score \in Int
    BY <1>1, ScoreOfTheDay
  <2> QED
    BY <2>1, <2>2 DEF Above
<1>9. \A x \in S : x.score \in Int /\ (x.score >= 6 <=> ClusterKey(x.cluster) \in day)
  BY <1>1, ScoreOfTheDay DEF day
<1>10. ASSUME NEW i \in 1..k, NEW j \in 1..k, i < j
       PROVE  /\ ClusterKey(s[i]) # ClusterKey(s[j])
              /\ ClusterKey(s[j]) \in day => ClusterKey(s[i]) \in day
  <2>1. i \in 1..n /\ j \in 1..n /\ s[i] = order[i].cluster /\ s[j] = order[j].cluster
    BY <1>2, <1>3, <1>5
  <2>2. order[i] \in S /\ order[j] \in S /\ <<order[i], order[j]>> \in R /\ order[i] # order[j]
    BY <1>3, <1>10, <2>1
  <2>3. order[i].score >= order[j].score
    BY <1>8, <2>2
  <2>4. ClusterKey(s[j]) \in day => ClusterKey(s[i]) \in day
    <3>1. order[i].score \in Int /\ order[j].score \in Int
      BY <1>9, <2>2
    <3> QED
      BY <1>9, <2>1, <2>2, <2>3, <3>1
  <2> QED
    BY <1>1, <2>1, <2>2, <2>4
<1>11. ASSUME r.sameDay # <<>> PROVE s # <<>> /\ ClusterKey(s[1]) \in day
  <2> DEFINE all == AllClusters(r)
             B == {i \in DOMAIN all : ClusterKey(all[i]) \in day}
  <2>1. all \in Seq(PlacedClusters(ps)) /\ Len(all) \in Nat /\ DOMAIN all = 1..Len(all)
        /\ \A c \in ToSet(r.sameDay) : \E i \in DOMAIN all : all[i] = c
    BY AllAreLists
  <2>2. B # {}
    <3>1. r.sameDay \in Seq(PlacedClusters(ps))
      BY DEF Suggesting, SuggestedLists
    <3>2. r.sameDay[1] \in ToSet(r.sameDay)
      <4>1. 1 \in DOMAIN r.sameDay
        BY <1>11, <3>1
      <4> QED
        BY <4>1 DEF ToSet
    <3>3. ClusterKey(r.sameDay[1]) \in day
      BY <3>2 DEF day, Keys
    <3> QED
      BY <2>1, <3>2, <3>3
  <2>3. PICK b \in B : \A x \in B : b <= x
    <3>1. B \in SUBSET Nat
      BY <2>1
    <3> HIDE DEF B
    <3> QED
      BY <2>2, <3>1, Least
  <2>4. b \in 1..Len(all) /\ ClusterKey(all[b]) \in day
    BY <2>1
  <2>5. b \in FirstsOf(all)
    <3>1. ASSUME NEW j \in 1..b-1 PROVE ClusterKey(all[j]) # ClusterKey(all[b])
      <4>1. j \in DOMAIN all /\ ~(b <= j)
        BY <2>1, <2>4
      <4>2. j \notin B
        BY <2>3, <4>1
      <4> QED
        BY <2>4, <4>1, <4>2
    <3> QED
      BY <2>1, <2>4, <3>1 DEF FirstsOf
  <2> DEFINE x == [cluster |-> all[b], score |-> Score(r, ClusterKey(all[b])), at |-> b]
  <2>6. x \in S /\ ClusterKey(x.cluster) \in day
    BY <2>4, <2>5 DEF S, Scored
  <2> HIDE DEF x, all, B
  <2>7. Rank(S, R, x) + 1 \in 1..n
    BY <1>3, <2>6
  <2>8. n >= 1 /\ k >= 1 /\ 1 \in 1..n /\ 1 \in 1..k
    BY <1>3, <1>5, <2>7
  <2>9. s # <<>> /\ s[1] = order[1].cluster /\ order[1] \in S
    BY <1>2, <1>3, <1>7, <2>8
  <2>10. order[1].score >= x.score
    <3>1. PICK j \in 1..n : order[j] = x
      <4>1. order[Rank(S, R, x) + 1] = x
        BY <1>1, <2>6, SortedList DEF order
      <4> QED
        BY <2>7, <4>1
    <3>2. CASE j = 1
      BY <1>9, <2>6, <3>1, <3>2
    <3>3. CASE j # 1
      <4>1. <<order[1], order[j]>> \in R
        BY <1>3, <2>8, <3>1, <3>3
      <4> QED
        BY <1>8, <2>6, <2>9, <3>1, <4>1
    <3> QED
      BY <3>2, <3>3
  <2>11. ClusterKey(order[1].cluster) \in day
    <3>1. order[1].score \in Int /\ x.score \in Int
      BY <1>9, <2>6, <2>9
    <3> QED
      BY <1>9, <2>6, <2>9, <2>10, <3>1
  <2> QED
    BY <2>9, <2>11
<1> QED
  BY <1>7, <1>10, <1>11 DEF s, day

------------------------------------------------------------------------------
(* The tabs of suggestions *)

\* Lists of at most n elements, one for every t of T; a set of elements of theirs.
ShortLists(lists, T, n) == /\ DOMAIN lists = T
                           /\ \A t \in T : /\ DOMAIN lists[t] = 1..Len(lists[t]) /\ Len(lists[t]) \in Nat
                                           /\ Len(lists[t]) <= n
OfLists(U, lists, T) == \A x \in U : \E t \in T : \E i \in DOMAIN lists[t] : lists[t][i] = x

\* Of several lists, none longer than n, there are not more elements than n of each.
LEMMA HeadsAreFew ==
    ASSUME NEW T, IsFiniteSet(T), NEW n \in Nat, NEW heads, ShortLists(heads, T, n),
           NEW U, OfLists(U, heads, T)
    PROVE  IsFiniteSet(U) /\ Cardinality(U) \in Nat /\ Cardinality(T) \in Nat
           /\ Cardinality(U) <= Cardinality(T) * n
<1> USE DEF ShortLists, OfLists
<1> DEFINE P == T \X (1..n)
           place(x) == CHOOSE p \in P : p[2] \in DOMAIN heads[p[1]] /\ heads[p[1]][p[2]] = x
           f == [x \in U |-> place(x)]
<1>1. ASSUME NEW x \in U
      PROVE  place(x) \in P /\ heads[place(x)[1]][place(x)[2]] = x
  <2>1. PICK t \in T : \E i \in DOMAIN heads[t] : heads[t][i] = x
    OBVIOUS
  <2>2. PICK i \in DOMAIN heads[t] : heads[t][i] = x
    BY <2>1
  <2>3. i \in 1..n
    OBVIOUS
  <2>4. \E p \in P : p[2] \in DOMAIN heads[p[1]] /\ heads[p[1]][p[2]] = x
    <3>1. <<t, i>> \in P /\ <<t, i>>[1] = t /\ <<t, i>>[2] = i
      BY <2>3
    <3> HIDE DEF P
    <3> QED
      BY <2>2, <3>1
  <2> HIDE DEF P
  <2> QED
    BY <2>4
<1>2. f \in [U -> P] /\ \A x, y \in U : f[x] = f[y] => x = y
  <2> HIDE DEF P, place
  <2> QED
    BY <1>1
<1>3. f \in Injection(U, P)
  <2> HIDE DEF f, P
  <2> QED
    BY <1>2, Fun_IsInj
<1>4. IsFiniteSet(1..n) /\ Cardinality(1..n) = n
  BY FS_Interval
<1>5. IsFiniteSet(P) /\ Cardinality(P) = Cardinality(T) * n
  BY <1>4, FS_Product
<1>6. IsFiniteSet(U) /\ Cardinality(U) <= Cardinality(P)
  <2> HIDE DEF f, P
  <2> QED
    BY <1>3, <1>5, FS_Injection
<1> QED
  BY <1>5, <1>6, FS_CardinalityType

\* Neighbours are photos, and not more than there are.
LEMMA NeighborsAreFew ==
    ASSUME NEW photos, IsFiniteSet(photos), NEW self, NEW s \in NeighborPoints(photos, self, 12)
    PROVE  DOMAIN s = 1..Len(s) /\ Len(s) \in Nat /\ Len(s) <= Cardinality(photos)
           /\ s \in Seq(photos)
<1> DEFINE near == WithinHours(photos \ {self}, self.time, 12)
           n == Min({MaxNeighbors, Cardinality(near)})
<1>1. near \in SUBSET photos
  BY DEF WithinHours
<1>2. s \in [1..n -> near]
  BY DEF NeighborPoints
<1>3. n \in Nat /\ n <= Cardinality(photos)
  <2>1. /\ Cardinality(near) \in Nat /\ Cardinality(near) <= Cardinality(photos) /\ Cardinality(photos) \in Nat
    BY <1>1, FS_Subset, FS_CardinalityType
  <2>2. MaxNeighbors \in Nat
    BY SuggestionLimits
  <2> HIDE DEF near
  <2> QED
    BY <2>1, <2>2, MinOfTwo
<1> HIDE DEF n, near
<1>4. s \in [1..n -> photos]
  BY <1>1, <1>2
<1>5. s \in Seq(photos) /\ Len(s) = n
  BY <1>3, <1>4
<1> QED
  BY <1>3, <1>5

Tabs == {"suggested", "neighbor", "album", "sameDay", "twoDay", "weekly", "frequent"}

\* There are seven tabs.
LEMMA TabsAreFinite == IsFiniteSet(Tabs)
<1> DEFINE A1 == {} \union {"suggested"}
           A2 == A1 \union {"neighbor"}
           A3 == A2 \union {"album"}
           A4 == A3 \union {"sameDay"}
           A5 == A4 \union {"twoDay"}
           A6 == A5 \union {"weekly"}
           A7 == A6 \union {"frequent"}
<1>1. IsFiniteSet(A1)
  BY FS_EmptySet, FS_AddElement
<1>2. Tabs = A7
  BY DEF Tabs
<1> HIDE DEF A1
<1>3. IsFiniteSet(A2)
  BY <1>1, FS_AddElement
<1> HIDE DEF A2
<1>4. IsFiniteSet(A3)
  BY <1>3, FS_AddElement
<1> HIDE DEF A3
<1>5. IsFiniteSet(A4)
  BY <1>4, FS_AddElement
<1> HIDE DEF A4
<1>6. IsFiniteSet(A5)
  BY <1>5, FS_AddElement
<1> HIDE DEF A5
<1>7. IsFiniteSet(A6)
  BY <1>6, FS_AddElement
<1> HIDE DEF A6
<1>8. IsFiniteSet(A7)
  BY <1>7, FS_AddElement
<1> QED
  BY <1>2, <1>8

\* The tabs of a photo are lists of photos and clusters, and show one window of time.
AreTabs(tabs, photos) ==
    /\ DOMAIN tabs \subseteq Tabs
    /\ \A t \in DOMAIN tabs : /\ DOMAIN tabs[t] = 1..Len(tabs[t]) /\ Len(tabs[t]) \in Nat
                              /\ Len(tabs[t]) <= Cardinality(photos)
                              /\ tabs[t] \in Seq(photos \union PlacedClusters(photos))
    /\ \A t \in {"sameDay", "twoDay", "weekly"} \intersect DOMAIN tabs :
         \A u \in {"sameDay", "twoDay", "weekly"} \intersect DOMAIN tabs : t = u

\* The tabs that are built are such.
LEMMA TabsOfTheDay ==
    ASSUME NEW photos, IsFiniteSet(photos), NEW r \in Suggesting(photos),
           NEW n, n \in Seq(photos), Len(n) <= Cardinality(photos), NEW album \in BOOLEAN,
           NEW tabs, tabs = BuildCategories(r, n, <<>>, album)
    PROVE  AreTabs(tabs, photos)
<1> DEFINE X == photos \union PlacedClusters(photos)
           L == {s \in Seq(X) : Len(s) <= Cardinality(photos)}
           all == [suggested |-> BuildSuggested(r),
                   neighbor |-> n,
                   album |-> r.album,
                   sameDay |-> r.sameDay,
                   twoDay |-> IF r.sameDay = <<>> THEN r.twoDay ELSE <<>>,
                   weekly |-> IF r.sameDay = <<>> /\ r.twoDay = <<>> THEN r.weekly ELSE <<>>,
                   frequent |-> IF album THEN <<>> ELSE <<>>]
<1>1. tabs = [t \in {t \in DOMAIN all : all[t] # <<>>} |-> all[t]]
  BY DEF BuildCategories
<1>2. DOMAIN all = Tabs
  BY DEF Tabs
<1>3. Cardinality(photos) \in Nat
  BY FS_CardinalityType
<1>4. SuggestedLists(photos) \subseteq L
  <2> SUFFICES ASSUME NEW s \in SuggestedLists(photos) PROVE s \in L
    OBVIOUS
  <2>1. s \in Seq(PlacedClusters(photos)) /\ Len(s) <= Cardinality(photos)
    BY DEF SuggestedLists
  <2>2. s \in Seq(X)
    BY <2>1, WiderSeq
  <2> HIDE DEF X
  <2> QED
    BY <2>1, <2>2
<1>5. n \in L
  <2>1. n \in Seq(X)
    BY WiderSeq
  <2> HIDE DEF X
  <2> QED
    BY <2>1
<1>6. <<>> \in L
  <2>1. <<>> \in Seq(X) /\ Len(<<>>) = 0
    OBVIOUS
  <2> QED
    BY <1>3, <2>1
<1>7. \A s \in L : DOMAIN s = 1..Len(s) /\ Len(s) \in Nat /\ Len(s) <= Cardinality(photos) /\ s \in Seq(X)
  OBVIOUS
<1>8. BuildSuggested(r) \in L /\ r.album \in L /\ r.sameDay \in L /\ r.twoDay \in L /\ r.weekly \in L
  BY <1>4, SuggestedInOrder DEF Suggesting
<1> HIDE DEF L
<1>9. \A t \in Tabs : all[t] \in L
  BY <1>5, <1>6, <1>8 DEF Tabs
<1>10. DOMAIN tabs \subseteq Tabs /\ \A t \in DOMAIN tabs : tabs[t] = all[t] /\ all[t] # <<>>
  <2> HIDE DEF all
  <2> QED
    BY <1>1, <1>2
<1>11. \A t \in {"sameDay", "twoDay", "weekly"} \intersect DOMAIN tabs :
         \A u \in {"sameDay", "twoDay", "weekly"} \intersect DOMAIN tabs : t = u
  <2>1. "sameDay" \in DOMAIN tabs => r.sameDay # <<>>
    BY <1>10
  <2>2. "twoDay" \in DOMAIN tabs => r.sameDay = <<>> /\ r.twoDay # <<>>
    BY <1>10
  <2>3. "weekly" \in DOMAIN tabs => r.sameDay = <<>> /\ r.twoDay = <<>>
    BY <1>10
  <2> QED
    BY <2>1, <2>2, <2>3
<1> HIDE DEF all
<1>12. \A t \in DOMAIN tabs : tabs[t] \in L
  BY <1>9, <1>10
<1> QED
  BY <1>7, <1>10, <1>11, <1>12 DEF L, X, AreTabs

\* The number beside the panel: no tab counts more than its list has.
LEMMA FewSuggestions ==
    ASSUME NEW T \in SUBSET Tabs, NEW n \in Nat, NEW tabs, DOMAIN tabs = T,
           \A t \in T : /\ DOMAIN tabs[t] = 1..Len(tabs[t]) /\ Len(tabs[t]) \in Nat /\ Len(tabs[t]) <= n
                        /\ \E X : tabs[t] \in Seq(X)
    PROVE  SuggestionCount(tabs) \in Nat /\ SuggestionCount(tabs) <= n * Cardinality(T)
<1> DEFINE S == T \ {"frequent"}
           most(t) == Min({MaxSuggested, Len(tabs[t])})
           heads == [t \in S |-> SubSeq(tabs[t], 1, most(t))]
           U == UNION {ToSet(SubSeq(tabs[t], 1, Min({MaxSuggested, Len(tabs[t])}))) : t \in T \ {"frequent"}}
<1>1. IsFiniteSet(T) /\ IsFiniteSet(S) /\ Cardinality(S) <= Cardinality(T)
      /\ Cardinality(S) \in Nat /\ Cardinality(T) \in Nat
  <2>1. IsFiniteSet(T) /\ S \in SUBSET T
    BY TabsAreFinite, FS_Subset
  <2> HIDE DEF S
  <2> QED
    BY <2>1, FS_Subset, FS_CardinalityType
<1>2. ASSUME NEW t \in S
      PROVE  /\ DOMAIN heads[t] = 1..Len(heads[t]) /\ Len(heads[t]) \in Nat /\ Len(heads[t]) <= n
  <2>1. MaxSuggested \in Nat
    BY SuggestionLimits
  <2>2. most(t) \in Nat /\ most(t) <= Len(tabs[t])
    BY <2>1, MinOfTwo
  <2> HIDE DEF most
  <2>3. PICK X : tabs[t] \in Seq(X)
    OBVIOUS
  <2>4. heads[t] = SubSeq(tabs[t], 1, most(t)) /\ Len(heads[t]) = most(t) /\ heads[t] \in Seq(X)
    BY <2>2, <2>3, SubSeqProperties
  <2> QED
    BY <2>2, <2>4
<1>3. \A x \in U : \E t \in S : \E i \in DOMAIN heads[t] : heads[t][i] = x
  <2> TAKE x \in U
  <2>1. PICK t \in S : x \in ToSet(SubSeq(tabs[t], 1, most(t)))
    OBVIOUS
  <2>2. heads[t] = SubSeq(tabs[t], 1, most(t))
    OBVIOUS
  <2> HIDE DEF heads, most, S
  <2> QED
    BY <2>1, <2>2 DEF ToSet
<1>4. DOMAIN heads = S
  OBVIOUS
<1>5. SuggestionCount(tabs) = Cardinality(U)
  BY DEF SuggestionCount
<1> HIDE DEF heads, U, S
<1>6. IsFiniteSet(U) /\ Cardinality(U) \in Nat /\ Cardinality(U) <= Cardinality(S) * n
  <2>1. \A t \in S : DOMAIN heads[t] = 1..Len(heads[t]) /\ Len(heads[t]) \in Nat /\ Len(heads[t]) <= n
    BY <1>2
  <2>2. IsFiniteSet(S)
    BY <1>1
  <2>3. IsFiniteSet(U) /\ Cardinality(U) \in Nat /\ Cardinality(S) \in Nat /\ Cardinality(U) <= Cardinality(S) * n
    <3>1. ShortLists(heads, S, n) /\ OfLists(U, heads, S)
      BY <2>1, <1>3, <1>4 DEF ShortLists, OfLists
    <3> QED
      BY <2>2, <3>1, HeadsAreFew
  <2> QED
    BY <2>3
<1>7. Cardinality(S) * n <= n * Cardinality(T)
  <2>1. \A a, b \in Nat : a <= b => a * n <= n * b
    <3> TAKE a, b \in Nat
    <3>1. CASE a <= b
      <4>1. (b - a) * n >= 0
        BY <3>1
      <4>2. (b - a) * n = n * b - a * n
        OBVIOUS
      <4>3. a * n \in Int /\ n * b \in Int
        OBVIOUS
      <4> QED
        BY <4>1, <4>2, <4>3
    <3> QED
      BY <3>1
  <2> QED
    BY <1>1, <2>1
<1>8. Cardinality(S) * n \in Nat /\ n * Cardinality(T) \in Nat
  BY <1>1
<1> QED
  BY <1>5, <1>6, <1>7, <1>8

SuggestInv == kind = "suggest" /\ step = 1 => SuggestedIsSound(answer.r, answer.tabs)

SuggestQuestions == kind = "suggest" => /\ question.photos \in SUBSET Photos /\ IsFiniteSet(question.photos)
                                        /\ question.album \in BOOLEAN
                                        /\ step \in {0, 1}
SuggestIInv == SuggestQuestions /\ SuggestInv

\* Whatever is answered for a photo, what is made of it is sound.
LEMMA SuggestionsAreSound ==
    ASSUME NEW photos \in SUBSET Photos, IsFiniteSet(photos), NEW self, NEW album \in BOOLEAN,
           NEW r \in GetSuggestions(photos, self, album), NEW n \in NeighborPoints(photos, self, 12),
           question.photos = photos
    PROVE  SuggestedIsSound(r, BuildCategories(r, n, <<>>, album))
<1> DEFINE tabs == BuildCategories(r, n, <<>>, album)
           T == DOMAIN tabs
<1>1. r \in Suggesting(photos)
  BY AnswersAreLists
<1>2. n \in Seq(photos) /\ Len(n) <= Cardinality(photos)
  BY NeighborsAreFew
<1>3. AreTabs(tabs, photos)
  BY <1>1, <1>2, TabsOfTheDay
<1> HIDE DEF tabs
<1>4. Cardinality(photos) \in Nat
  BY FS_CardinalityType
<1>5. SuggestionCount(tabs) <= Cardinality(photos) * Cardinality(T)
  BY <1>3, <1>4, FewSuggestions DEF AreTabs
<1> QED
  BY <1>1, <1>3, <1>5, SuggestedInOrder DEF SuggestedIsSound, AreTabs, tabs

\* A photo is opened.
LEMMA SuggestInit == AnswersInit => SuggestIInv
<1> SUFFICES ASSUME AnswersInit, kind = "suggest" PROVE SuggestQuestions /\ step = 0
  BY DEF SuggestIInv, SuggestInv, SuggestQuestions
<1>1. InitSuggest /\ step = 0
  BY DEF AnswersInit, InitPages, InitFocus, InitMatch, InitHistory, InitGeocode, InitCall
<1> QED
  BY <1>1, PlacesAssumption DEF InitSuggest, SuggestQuestions, Photos

\* Asking for its suggestions.
LEMMA SuggestStep == SuggestIInv /\ [AnswersNext]_answersVars => SuggestIInv'
<1> SUFFICES ASSUME SuggestIInv, [AnswersNext]_answersVars PROVE SuggestIInv'
  OBVIOUS
<1>1. CASE AskSuggest
  <2>1. /\ kind = "suggest" /\ kind' = kind /\ question' = question /\ step' = 1
        /\ question.photos \in SUBSET Photos /\ IsFiniteSet(question.photos) /\ question.album \in BOOLEAN
    BY <1>1 DEF AskSuggest, SuggestIInv, SuggestQuestions
  <2>2. PICK r \in GetSuggestions(question.photos, question.self, question.album),
             n \in NeighborPoints(question.photos, question.self, 12) :
          answer' = [r |-> r, tabs |-> BuildCategories(r, n, <<>>, question.album)]
    BY <1>1 DEF AskSuggest
  <2>3. SuggestedIsSound(r, BuildCategories(r, n, <<>>, question.album))
    BY <2>1, SuggestionsAreSound
  <2>4. SuggestedIsSound(r, BuildCategories(r, n, <<>>, question.album))'
    BY <2>1, <2>3 DEF SuggestedIsSound
  <2>5. answer'.r = r /\ answer'.tabs = BuildCategories(r, n, <<>>, question.album)
    BY <2>2
  <2> QED
    BY <2>1, <2>4, <2>5 DEF SuggestIInv, SuggestQuestions, SuggestInv, SuggestedIsSound
<1>2. CASE UNCHANGED answersVars
  BY <1>2 DEF answersVars, SuggestIInv, SuggestQuestions, SuggestInv, SuggestedIsSound
<1>3. CASE kind # "suggest" /\ kind' = kind
  BY <1>3 DEF SuggestIInv, SuggestQuestions, SuggestInv
<1> QED
  BY <1>1, <1>2, <1>3 DEF AnswersNext, AskPage, AskFocus, AskMatch, Save, AskGeocoders, AskCall

------------------------------------------------------------------------------
(* The history that is read *)

Remembered == [place : STRING, valid : BOOLEAN, dated : BOOLEAN, at : Int]
Fresh(list, now) == {i \in DOMAIN list : ValidEntry(list[i]) /\ now - SavedAt(list[i], now) <= TimeToLive}
Kept(list, now) == {i \in Fresh(list, now) : \A j \in Fresh(list, now) : j < i => list[j].place # list[i].place}

\* What is read has a place once, is not too long, and keeps the place and the time of an entry.
LEMMA CleanIs ==
    ASSUME NEW list \in Seq(Remembered), NEW now \in Nat
    PROVE  LET q == InOrder(Kept(list, now))
               h == CleanHistory(list, now)
           IN  /\ Kept(list, now) \in SUBSET (1..Len(list)) /\ IsFiniteSet(Kept(list, now))
               /\ q \in Seq(1..Len(list)) /\ Len(q) \in Nat /\ DOMAIN q = 1..Len(q)
               /\ h \in Seq(Remembered) /\ Len(h) = Min({MaxHistory, Len(q)})
               /\ Len(h) \in Nat /\ Len(h) <= MaxHistory /\ Len(h) <= Len(q) /\ DOMAIN h = 1..Len(h)
               /\ \A k \in 1..Len(h) : /\ h[k].place = list[q[k]].place
                                       /\ h[k].valid = list[q[k]].valid
                                       /\ h[k].dated
                                       /\ h[k].at = SavedAt(list[q[k]], now)
               /\ \A i, j \in 1..Len(h) : i # j => h[i].place # h[j].place
<1> DEFINE S == Kept(list, now)
           q == InOrder(S)
           n == Min({MaxHistory, Len(q)})
           h == CleanHistory(list, now)
<1>1. S \in SUBSET (1..Len(list)) /\ S \in SUBSET Int /\ IsFiniteSet(S)
  <2>1. S \in SUBSET (1..Len(list)) /\ Len(list) \in Nat
    BY DEF Kept, Fresh
  <2>2. IsFiniteSet(1..Len(list))
    BY <2>1, FS_Interval
  <2>3. S \in SUBSET Int
    BY <2>1
  <2> HIDE DEF S
  <2>4. IsFiniteSet(S)
    BY <2>1, <2>2, FS_Subset
  <2> QED
    BY <2>1, <2>3, <2>4
<1>2. \A i, j \in S : i # j => list[i].place # list[j].place
  <2>1. \A i \in S : i \in Fresh(list, now) /\ \A j \in Fresh(list, now) : j < i => list[j].place # list[i].place
    BY DEF Kept
  <2> HIDE DEF S
  <2> QED
    BY <1>1, <2>1
<1>3. \A e \in Remembered : SavedAt(e, now) \in Int
  BY MaxOfTwo DEF Remembered, SavedAt
<1>4. h = [k \in 1..n |-> [list[q[k]] EXCEPT !.at = SavedAt(list[q[k]], now), !.dated = TRUE]]
  BY DEF CleanHistory, Kept, Fresh
<1> HIDE DEF S, h
<1>5. /\ q \in Seq(S) /\ Len(q) \in Nat /\ DOMAIN q = 1..Len(q) /\ \A k \in 1..Len(q) : q[k] \in S
      /\ \A i, j \in 1..Len(q) : q[i] = q[j] => i = j
  BY <1>1, InOrderIs
<1> HIDE DEF q
<1>6. n \in Nat /\ n <= MaxHistory /\ n <= Len(q)
  BY <1>5, MinOfTwo, HistoryLimits
<1>7. \A k \in 1..n : /\ h[k] = [list[q[k]] EXCEPT !.at = SavedAt(list[q[k]], now), !.dated = TRUE]
                      /\ list[q[k]] \in Remembered /\ q[k] \in S
  <2> TAKE k \in 1..n
  <2> HIDE DEF n
  <2>1. k \in 1..Len(q)
    BY <1>5, <1>6
  <2>2. q[k] \in S /\ q[k] \in 1..Len(list)
    BY <1>1, <1>5, <2>1
  <2>3. list[q[k]] \in Remembered
    BY <2>2
  <2>4. h[k] = [list[q[k]] EXCEPT !.at = SavedAt(list[q[k]], now), !.dated = TRUE]
    BY <1>4
  <2> QED
    BY <2>2, <2>3, <2>4
<1>8. \A k \in 1..n : /\ h[k] \in Remembered
                      /\ h[k].place = list[q[k]].place
                      /\ h[k].valid = list[q[k]].valid
                      /\ h[k].dated
                      /\ h[k].at = SavedAt(list[q[k]], now)
  <2> TAKE k \in 1..n
  <2> DEFINE e == list[q[k]]
             t == SavedAt(e, now)
  <2>1. e \in Remembered /\ t \in Int /\ h[k] = [e EXCEPT !.at = t, !.dated = TRUE]
    BY <1>3, <1>7
  <2> HIDE DEF e, t
  <2>2. /\ h[k] \in Remembered /\ h[k].place = e.place /\ h[k].valid = e.valid /\ h[k].dated /\ h[k].at = t
    BY <2>1 DEF Remembered
  <2> QED
    BY <2>2 DEF e, t
<1>9. h \in [1..n -> Remembered] /\ h \in Seq(Remembered) /\ Len(h) = n
  <2> HIDE DEF n
  <2>1. h \in [1..n -> Remembered]
    BY <1>4, <1>8
  <2> QED
    BY <1>6, <2>1
<1>10. \A i, j \in 1..n : i # j => h[i].place # h[j].place
  <2> TAKE i, j \in 1..n
  <2> HIDE DEF n
  <2>1. i # j => q[i] # q[j]
    <3>1. i \in 1..Len(q) /\ j \in 1..Len(q)
      BY <1>5, <1>6
    <3> QED
      BY <1>5, <3>1
  <2>2. /\ q[i] \in S /\ q[j] \in S
        /\ h[i].place = list[q[i]].place /\ h[j].place = list[q[j]].place
    BY <1>7, <1>8
  <2> QED
    BY <1>2, <2>1, <2>2
<1>11. q \in Seq(1..Len(list))
  BY <1>1, <1>5, WiderSeq
<1> HIDE DEF n
<1> QED
  BY <1>1, <1>5, <1>6, <1>8, <1>9, <1>10, <1>11 DEF S, q, h, n

------------------------------------------------------------------------------
(* The places saved last *)

Searched == [place : STRING, at : Nat]
Searches == Seq(Searched)
NewestFirst(saved) == \A i, j \in DOMAIN saved : i < j => saved[i].at >= saved[j].at

\* The places saved since, and their number.
Since(saved, i) == {saved[j].place : j \in 1..i-1}
Behind(saved, i) == Cardinality(Since(saved, i))
IsFirst(saved, i) == saved[i].place \notin Since(saved, i)

\* The times of searches.
LEMMA SearchesAre ==
    ASSUME NEW saved \in Searches
    PROVE  /\ Len(saved) \in Nat /\ DOMAIN saved = 1..Len(saved)
           /\ \A j \in 1..Len(saved) : saved[j].at \in Nat /\ saved[j] \in Searched
<1>1. saved \in Seq(Searched)
  BY DEF Searches
<1>2. \A s \in Searched : s.at \in Nat
  BY DEF Searched
<1>3. Len(saved) \in Nat /\ DOMAIN saved = 1..Len(saved) /\ \A j \in 1..Len(saved) : saved[j] \in Searched
  BY <1>1
<1> QED
  BY <1>2, <1>3

\* The places saved since, search by search.
LEMMA SinceFacts ==
    ASSUME NEW saved \in Searches, NEW i \in 1..Len(saved) + 1
    PROVE  /\ IsFiniteSet(Since(saved, i)) /\ Behind(saved, i) \in Nat
           /\ i = 1 => Behind(saved, i) = 0 /\ Since(saved, i) = {}
           /\ i <= Len(saved) =>
                /\ Since(saved, i + 1) = Since(saved, i) \union {saved[i].place}
                /\ Behind(saved, i + 1) = IF IsFirst(saved, i) THEN Behind(saved, i) + 1 ELSE Behind(saved, i)
<1>1. Len(saved) \in Nat
  BY DEF Searches
<1>2. IsFiniteSet(Since(saved, i))
  <2> DEFINE f == [j \in 1..i-1 |-> saved[j].place]
             T == Since(saved, i)
  <2>1. DOMAIN f = 1..i-1 /\ T = {f[j] : j \in 1..i-1}
    BY DEF Since
  <2>2. IsFiniteSet(1..i-1)
    BY <1>1, FS_Interval
  <2> HIDE DEF f, T
  <2>3. IsFiniteSet(T)
    BY <2>1, <2>2, ImageOf
  <2> QED
    BY <2>3 DEF T
<1>3. i = 1 => Since(saved, i) = {}
  BY DEF Since
<1>4. ASSUME i <= Len(saved) PROVE Since(saved, i + 1) = Since(saved, i) \union {saved[i].place}
  <2>1. \A j : j \in 1..i+1-1 <=> j \in 1..i-1 \/ j = i
    BY <1>1
  <2> QED
    BY <2>1 DEF Since
<1>5. Behind(saved, i) \in Nat
  BY <1>2, FS_CardinalityType DEF Behind
<1>6. ASSUME i <= Len(saved)
      PROVE  Behind(saved, i + 1) = IF IsFirst(saved, i) THEN Behind(saved, i) + 1 ELSE Behind(saved, i)
  <2>1. Cardinality(Since(saved, i) \union {saved[i].place})
          = IF saved[i].place \in Since(saved, i) THEN Cardinality(Since(saved, i))
            ELSE Cardinality(Since(saved, i)) + 1
    BY <1>2, FS_AddElement
  <2> QED
    BY <1>4, <1>6, <2>1 DEF Behind, IsFirst
<1>7. i = 1 => Behind(saved, i) = 0
  BY <1>3, FS_EmptySet DEF Behind
<1> QED
  BY <1>2, <1>3, <1>4, <1>5, <1>6, <1>7

\* An older search has more places in front of it.
LEMMA BehindGrows ==
    ASSUME NEW saved \in Searches, NEW i \in 1..Len(saved) + 1, NEW j \in 1..i
    PROVE  /\ Since(saved, j) \subseteq Since(saved, i) /\ Behind(saved, j) <= Behind(saved, i)
           /\ j < i /\ IsFirst(saved, j) => Behind(saved, j) < Behind(saved, i)
<1>1. Len(saved) \in Nat
  BY DEF Searches
<1>2. \A l \in 1..i : Since(saved, l) \in SUBSET Since(saved, i) /\ Behind(saved, l) <= Behind(saved, i)
                      /\ Behind(saved, l) \in Nat
  <2> TAKE l \in 1..i
  <2>1. Since(saved, l) \in SUBSET Since(saved, i)
    BY <1>1 DEF Since
  <2>2. IsFiniteSet(Since(saved, i)) /\ Behind(saved, l) \in Nat
    BY <1>1, SinceFacts
  <2>3. Cardinality(Since(saved, l)) <= Cardinality(Since(saved, i))
    BY <2>1, <2>2, FS_Subset
  <2> QED
    BY <2>1, <2>2, <2>3 DEF Behind
<1>3. ASSUME j < i, IsFirst(saved, j) PROVE Behind(saved, j) < Behind(saved, i)
  <2>1. Behind(saved, j + 1) = Behind(saved, j) + 1 /\ j + 1 \in 1..i
    BY <1>1, <1>3, SinceFacts
  <2>2. Behind(saved, i) \in Nat
    BY SinceFacts
  <2> QED
    BY <1>2, <2>1, <2>2
<1> QED
  BY <1>2, <1>3

\* Of the places saved since, one was the first, one the second, ...
LEMMA EveryNumber ==
    ASSUME NEW saved \in Searches, NEW i \in 1..Len(saved), NEW k \in Nat, k < Behind(saved, i)
    PROVE  \E j \in 1..i-1 : IsFirst(saved, j) /\ Behind(saved, j) = k
<1> DEFINE B == {l \in 1..i : Behind(saved, l) > k}
<1>1. Len(saved) \in Nat
  BY DEF Searches
<1>2. \A l \in 1..i : Behind(saved, l) \in Nat
  BY <1>1, SinceFacts
<1>3. PICK b \in B : \A x \in B : b <= x
  <2>1. B \in SUBSET Nat /\ i \in B
    BY <1>1
  <2> HIDE DEF B
  <2> QED
    BY <2>1, Least
<1>4. b \in 1..i /\ Behind(saved, b) > k
  OBVIOUS
<1>5. b # 1
  <2>1. 1 \in 1..Len(saved) + 1 /\ Behind(saved, 1) = 0
    BY <1>1, SinceFacts
  <2> QED
    BY <1>4, <2>1
<1>6. b - 1 \in 1..i-1 /\ b - 1 \in 1..Len(saved)
  BY <1>1, <1>4, <1>5
<1>7. Behind(saved, b - 1) <= k
  <2>1. b - 1 \notin B /\ b - 1 \in 1..i
    BY <1>1, <1>3, <1>6
  <2> QED
    BY <1>2, <2>1
<1>8. Behind(saved, b - 1 + 1) = IF IsFirst(saved, b - 1) THEN Behind(saved, b - 1) + 1 ELSE Behind(saved, b - 1)
  BY <1>1, <1>6, SinceFacts
<1>9. b - 1 + 1 = b /\ Behind(saved, b - 1) \in Nat
  BY <1>2, <1>4, <1>6
<1>10. IsFirst(saved, b - 1) /\ Behind(saved, b - 1) = k
  BY <1>2, <1>4, <1>7, <1>8, <1>9
<1> QED
  BY <1>6, <1>10

\* A place that was saved since was saved for a first time since.
LEMMA FirstOfPlace ==
    ASSUME NEW saved \in Searches, NEW i \in 1..Len(saved) + 1, NEW p \in Since(saved, i)
    PROVE  \E j \in 1..i-1 : IsFirst(saved, j) /\ saved[j].place = p
<1> DEFINE B == {l \in 1..i-1 : saved[l].place = p}
<1>1. Len(saved) \in Nat
  BY DEF Searches
<1>2. PICK b \in B : \A x \in B : b <= x
  <2>1. B \in SUBSET Nat /\ B # {}
    BY <1>1 DEF Since
  <2> HIDE DEF B
  <2> QED
    BY <2>1, Least
<1>3. b \in 1..i-1 /\ saved[b].place = p
  OBVIOUS
<1>4. IsFirst(saved, b)
  <2> SUFFICES ASSUME NEW j \in 1..b-1, saved[j].place = saved[b].place PROVE FALSE
    BY DEF IsFirst, Since
  <2>1. j \in B /\ ~(b <= j)
    BY <1>1, <1>3
  <2> QED
    BY <1>2, <2>1
<1> QED
  BY <1>3, <1>4

------------------------------------------------------------------------------
(* The places saved last are in front *)

Lasting(saved, i, now) == /\ IsFirst(saved, i) /\ now - saved[i].at <= TimeToLive
                          /\ Behind(saved, i) < MaxHistory
HeldAt(list, k, s) == /\ k \in DOMAIN list /\ list[k].valid /\ list[k].dated
                      /\ list[k].at = s.at /\ list[k].place = s.place
Held(list, saved, now) ==
    \A i \in DOMAIN saved : Lasting(saved, i, now) => HeldAt(list, Behind(saved, i) + 1, saved[i])

\* What is in front of one of them was saved since, and is there too.
LEMMA HeldBefore ==
    ASSUME NEW list \in Seq(Remembered), NEW saved \in Searches, NewestFirst(saved), NEW now \in Nat,
           Held(list, saved, now), NEW i \in DOMAIN saved, Lasting(saved, i, now),
           NEW k \in 1..Behind(saved, i)
    PROVE  \E j \in 1..i-1 : /\ j \in DOMAIN saved /\ IsFirst(saved, j) /\ Lasting(saved, j, now)
                             /\ Behind(saved, j) + 1 = k
                             /\ HeldAt(list, k, saved[j])
<1>1. /\ Len(saved) \in Nat /\ DOMAIN saved = 1..Len(saved) /\ MaxHistory \in Nat /\ TimeToLive \in Nat
      /\ \A j \in 1..Len(saved) : saved[j].at \in Nat
  <2>1. MaxHistory \in Nat /\ TimeToLive \in Nat
    BY HistoryLimits
  <2>2. /\ Len(saved) \in Nat /\ DOMAIN saved = 1..Len(saved)
        /\ \A j \in 1..Len(saved) : saved[j].at \in Nat
    BY SearchesAre
  <2> QED
    BY <2>1, <2>2
<1>2. Behind(saved, i) \in Nat /\ k - 1 \in Nat /\ k - 1 < Behind(saved, i)
  BY <1>1, SinceFacts
<1>3. PICK j \in 1..i-1 : IsFirst(saved, j) /\ Behind(saved, j) = k - 1
  BY <1>1, <1>2, EveryNumber
<1>4. j \in DOMAIN saved /\ j < i
  BY <1>1
<1>5. saved[j].at >= saved[i].at
  BY <1>4 DEF NewestFirst
<1>6. Lasting(saved, j, now)
  <2>1. saved[j].at \in Nat /\ saved[i].at \in Nat
    BY <1>1, <1>4
  <2>2. now - saved[i].at <= TimeToLive /\ Behind(saved, i) < MaxHistory
    BY DEF Lasting
  <2>3. now - saved[j].at <= TimeToLive
    BY <1>1, <1>5, <2>1, <2>2
  <2> QED
    BY <1>1, <1>2, <1>3, <2>2, <2>3 DEF Lasting
<1>7. HeldAt(list, Behind(saved, j) + 1, saved[j])
  BY <1>4, <1>6 DEF Held
<1>8. Behind(saved, j) + 1 = k
  BY <1>2, <1>3
<1> QED
  BY <1>3, <1>4, <1>6, <1>7, <1>8

\* A place that was saved later than one that lasts, lasts.
LEMMA LaterLasts ==
    ASSUME NEW saved \in Searches, NewestFirst(saved), NEW now \in Nat, NEW i \in DOMAIN saved,
           now - saved[i].at <= TimeToLive, NEW j \in 1..i-1
    PROVE  j \in DOMAIN saved /\ now - saved[j].at <= TimeToLive
<1>1. /\ Len(saved) \in Nat /\ DOMAIN saved = 1..Len(saved)
      /\ \A l \in 1..Len(saved) : saved[l].at \in Nat
  BY SearchesAre
<1>2. j \in DOMAIN saved /\ j < i
  BY <1>1
<1>3. saved[j].at >= saved[i].at
  BY <1>2 DEF NewestFirst
<1>4. saved[j].at \in Nat /\ saved[i].at \in Nat /\ TimeToLive \in Nat
  BY <1>1, <1>2, HistoryLimits
<1> QED
  BY <1>2, <1>3, <1>4

\* Reading the history does not lose what was in front.
LEMMA CleanHolds ==
    ASSUME NEW list \in Seq(Remembered), NEW saved \in Searches, NewestFirst(saved), NEW now \in Nat,
           Held(list, saved, now)
    PROVE  Held(CleanHistory(list, now), saved, now)
<1> SUFFICES ASSUME NEW i \in DOMAIN saved, Lasting(saved, i, now)
             PROVE  HeldAt(CleanHistory(list, now), Behind(saved, i) + 1, saved[i])
  BY DEF Held
<1> DEFINE k == Behind(saved, i) + 1
           S == Kept(list, now)
           q == InOrder(S)
           h == CleanHistory(list, now)
<1>1. /\ DOMAIN saved = 1..Len(saved) /\ Len(saved) \in Nat
      /\ \A j \in 1..Len(saved) : saved[j].at \in Nat
  BY SearchesAre
<1>2. Behind(saved, i) \in Nat /\ k \in Nat /\ k >= 1 /\ k <= MaxHistory /\ MaxHistory \in Nat
  BY <1>1, SinceFacts, HistoryLimits DEF Lasting
<1>3. DOMAIN list = 1..Len(list) /\ Len(list) \in Nat
  OBVIOUS
<1>4. \A l \in 1..k : \E j \in 1..i : /\ j \in DOMAIN saved /\ IsFirst(saved, j) /\ Lasting(saved, j, now)
                                      /\ Behind(saved, j) + 1 = l /\ HeldAt(list, l, saved[j])
  <2> TAKE l \in 1..k
  <2>1. CASE l = k
    <3>1. IsFirst(saved, i) /\ HeldAt(list, k, saved[i])
      BY DEF Held, Lasting
    <3> QED
      BY <1>1, <2>1, <3>1
  <2>2. CASE l # k
    <3>1. l \in 1..Behind(saved, i)
      BY <1>2, <2>2
    <3>2. \E j \in 1..i-1 : /\ j \in DOMAIN saved /\ IsFirst(saved, j) /\ Lasting(saved, j, now)
                            /\ Behind(saved, j) + 1 = l
                            /\ HeldAt(list, l, saved[j])
      BY <3>1, HeldBefore
    <3> QED
      BY <1>1, <3>2
  <2> QED
    BY <2>1, <2>2
<1> HIDE DEF k
<1>5. \A l \in 1..k : l \in DOMAIN list /\ l \in Fresh(list, now) /\ list[l].valid
  <2> TAKE l \in 1..k
  <2>1. PICK j \in 1..i : /\ j \in DOMAIN saved /\ Lasting(saved, j, now) /\ HeldAt(list, l, saved[j])
    BY <1>4
  <2>2. /\ l \in DOMAIN list /\ list[l].valid /\ list[l].dated /\ list[l].at = saved[j].at
        /\ now - saved[j].at <= TimeToLive /\ saved[j].at \in Nat
    BY <1>1, <2>1 DEF HeldAt, Lasting
  <2>3. SavedAt(list[l], now) = saved[j].at
    BY <2>2, MaxOfTwo DEF SavedAt
  <2> QED
    BY <2>2, <2>3 DEF Fresh, ValidEntry
<1>6. \A l, m \in 1..k : l < m => list[l].place # list[m].place
  <2> SUFFICES ASSUME NEW l \in 1..k, NEW m \in 1..k, l < m PROVE list[l].place # list[m].place
    OBVIOUS
  <2>1. PICK j \in 1..i : j \in DOMAIN saved /\ Behind(saved, j) + 1 = l /\ HeldAt(list, l, saved[j])
    BY <1>4
  <2>2. PICK x \in 1..i : /\ x \in DOMAIN saved /\ IsFirst(saved, x) /\ Behind(saved, x) + 1 = m
                          /\ HeldAt(list, m, saved[x])
    BY <1>4
  <2>3. j < x
    <3> SUFFICES ASSUME ~(j < x) PROVE FALSE
      OBVIOUS
    <3>1. x \in 1..j /\ j \in 1..Len(saved) + 1
      BY <1>1, <2>1, <2>2
    <3>2. Behind(saved, x) <= Behind(saved, j)
      BY <3>1, BehindGrows
    <3>3. Behind(saved, x) \in Nat /\ Behind(saved, j) \in Nat
      BY <1>1, <2>1, <2>2, SinceFacts
    <3> QED
      BY <1>2, <2>1, <2>2, <3>2, <3>3
  <2>4. saved[j].place \in Since(saved, x)
    BY <1>1, <2>1, <2>2, <2>3 DEF Since
  <2> QED
    BY <2>1, <2>2, <2>4 DEF HeldAt, IsFirst
<1>7. \A l \in 1..k : l \in S
  <2> TAKE l \in 1..k
  <2>1. \A j \in Fresh(list, now) : j < l => list[j].place # list[l].place
    <3> TAKE j \in Fresh(list, now)
    <3>1. j \in 1..Len(list)
      BY <1>3 DEF Fresh
    <3>2. j < l => j \in 1..k
      BY <1>2, <3>1
    <3> QED
      BY <1>6, <3>2
  <2> QED
    BY <1>5, <2>1 DEF Kept
<1>8. /\ S \in SUBSET (1..Len(list)) /\ IsFiniteSet(S)
      /\ Len(q) \in Nat /\ DOMAIN q = 1..Len(q)
      /\ Len(h) = Min({MaxHistory, Len(q)}) /\ DOMAIN h = 1..Len(h)
      /\ \A l \in 1..Len(h) : /\ h[l].place = list[q[l]].place
                              /\ h[l].valid = list[q[l]].valid
                              /\ h[l].dated
                              /\ h[l].at = SavedAt(list[q[l]], now)
  BY CleanIs
<1> HIDE DEF S, h
<1>9. Below(S, k) = k - 1
  <2>1. {y \in S : y < k} = 1..k-1
    BY <1>2, <1>7, <1>8
  <2>2. Cardinality(1..k-1) = k - 1
    BY <1>2, FS_Interval
  <2> QED
    BY <2>1, <2>2 DEF Below
<1>10. k \in DOMAIN q /\ q[k] = k
  <2>1. S \in SUBSET Int /\ k \in S /\ k - 1 \in Nat /\ k - 1 + 1 = k
    BY <1>2, <1>3, <1>7, <1>8
  <2> HIDE DEF q
  <2> QED
    BY <1>8, <1>9, <2>1, SamePlace DEF q
<1> HIDE DEF q
<1>11. k \in 1..Len(h)
  <2>1. Len(h) = IF MaxHistory <= Len(q) THEN MaxHistory ELSE Len(q)
    BY <1>2, <1>8, MinOfTwo
  <2> QED
    BY <1>2, <1>8, <1>10, <2>1
<1>12. HeldAt(list, k, saved[i]) /\ saved[i].at \in Nat
  BY <1>1 DEF Held, k
<1>13. SavedAt(list[k], now) = saved[i].at
  BY <1>12, MaxOfTwo DEF SavedAt, HeldAt
<1> QED
  BY <1>8, <1>10, <1>11, <1>12, <1>13 DEF HeldAt, h, k

Others(clean, e) == {i \in DOMAIN clean : clean[i].place # e.place}
Saved(e, now) == [e EXCEPT !.at = now, !.dated = TRUE]

\* An entry as it is saved.
LEMMA SavedIs ==
    ASSUME NEW e \in Remembered, NEW now \in Nat
    PROVE  /\ Saved(e, now) \in Remembered
           /\ Saved(e, now).place = e.place /\ Saved(e, now).at = now /\ Saved(e, now).dated
           /\ Saved(e, now).valid = e.valid
<1>1. now \in Int
  OBVIOUS
<1> QED
  BY <1>1 DEF Remembered, Saved

\* A saved place comes first, and the others after it, as they were.
LEMMA SaveIs ==
    ASSUME NEW list \in Seq(Remembered), NEW now \in Nat, NEW e \in Remembered, e.valid
    PROVE  LET clean == CleanHistory(list, now)
               others == InOrder(Others(clean, e))
               s == SaveToHistory(list, e, now)
           IN  /\ clean \in Seq(Remembered) /\ Len(clean) \in Nat /\ DOMAIN clean = 1..Len(clean)
               /\ \A i, j \in 1..Len(clean) : i # j => clean[i].place # clean[j].place
               /\ Others(clean, e) \in SUBSET (1..Len(clean)) /\ IsFiniteSet(Others(clean, e))
               /\ Len(others) \in Nat /\ DOMAIN others = 1..Len(others)
               /\ s \in Seq(Remembered) /\ DOMAIN s = 1..Len(s)
               /\ Len(s) = IF MaxHistory <= Len(others) + 1 THEN MaxHistory ELSE Len(others) + 1
               /\ HeldAt(s, 1, [place |-> e.place, at |-> now])
               /\ \A k \in 1..Len(others) : k + 1 <= MaxHistory => k + 1 \in 1..Len(s) /\ s[k + 1] = clean[others[k]]
<1> DEFINE clean == CleanHistory(list, now)
           M == Others(clean, e)
           others == InOrder(M)
           head == Saved(e, now)
           tail == [k \in DOMAIN others |-> clean[others[k]]]
           next == <<head>> \o tail
           n == Min({MaxHistory, Len(next)})
           s == SaveToHistory(list, e, now)
<1>1. /\ clean \in Seq(Remembered) /\ Len(clean) \in Nat /\ DOMAIN clean = 1..Len(clean)
      /\ \A i, j \in 1..Len(clean) : i # j => clean[i].place # clean[j].place
  BY CleanIs
<1>2. s = SubSeq(next, 1, n)
  BY DEF SaveToHistory, ValidEntry, Others, Saved
<1> HIDE DEF clean, s
<1>3. M \in SUBSET (1..Len(clean)) /\ M \in SUBSET Int /\ IsFiniteSet(M)
  <2>1. M \in SUBSET (1..Len(clean)) /\ M \in SUBSET Int
    BY <1>1 DEF Others
  <2>2. IsFiniteSet(1..Len(clean))
    BY <1>1, FS_Interval
  <2> HIDE DEF M
  <2> QED
    BY <2>1, <2>2, FS_Subset
<1> HIDE DEF M
<1>4. Len(others) \in Nat /\ DOMAIN others = 1..Len(others) /\ \A k \in 1..Len(others) : others[k] \in M
  BY <1>3, InOrderIs
<1> HIDE DEF others
<1>5. \A k \in 1..Len(others) : clean[others[k]] \in Remembered
  <2> TAKE k \in 1..Len(others)
  <2>1. others[k] \in 1..Len(clean)
    BY <1>3, <1>4
  <2> QED
    BY <1>1, <2>1
<1>6. tail \in [1..Len(others) -> Remembered]
  BY <1>4, <1>5
<1>7. tail \in Seq(Remembered) /\ Len(tail) = Len(others) /\ \A k \in 1..Len(others) : tail[k] = clean[others[k]]
  <2>1. \A k \in 1..Len(others) : tail[k] = clean[others[k]]
    BY <1>4
  <2> HIDE DEF tail
  <2> QED
    BY <1>4, <1>6, <2>1
<1>8. /\ head \in Remembered /\ head.place = e.place /\ head.at = now /\ head.dated /\ head.valid
  BY SavedIs
<1> HIDE DEF tail, head
<1>9. <<head>> \in Seq(Remembered) /\ Len(<<head>>) = 1 /\ <<head>>[1] = head
  BY <1>8
<1>10. /\ next \in Seq(Remembered) /\ Len(next) = Len(others) + 1 /\ next[1] = head
       /\ \A k \in 1..Len(others) : next[k + 1] = clean[others[k]]
  <2>1. next \in Seq(Remembered) /\ Len(next) = 1 + Len(others)
    BY <1>4, <1>7, <1>9
  <2>2. next[1] = head
    BY <1>4, <1>7, <1>9
  <2>3. \A k \in 1..Len(others) : next[k + 1] = tail[k]
    BY <1>4, <1>7, <1>9
  <2> HIDE DEF next
  <2> QED
    BY <1>4, <1>7, <2>1, <2>2, <2>3
<1> HIDE DEF next
<1>11. MaxHistory \in Nat /\ MaxHistory >= 1
  BY HistoryLimits
<1>12. n = (IF MaxHistory <= Len(others) + 1 THEN MaxHistory ELSE Len(others) + 1) /\ n \in Nat /\ n >= 1
       /\ n <= Len(next)
  BY <1>4, <1>10, <1>11, MinOfTwo
<1>13. s \in Seq(Remembered) /\ Len(s) = n /\ \A k \in 1..n : s[k] = next[k]
  <2> HIDE DEF n
  <2>1. \A k \in 1..n : next[k] \in Remembered
    BY <1>10, <1>12
  <2>2. /\ SubSeq(next, 1, n) \in Seq(Remembered)
        /\ Len(SubSeq(next, 1, n)) = n
        /\ \A k \in 1..n-1+1 : SubSeq(next, 1, n)[k] = next[1+k-1]
    BY <1>12, <2>1, SubSeqProperties
  <2> QED
    BY <1>2, <1>12, <2>2
<1>14. DOMAIN s = 1..Len(s)
  BY <1>13
<1>15. HeldAt(s, 1, [place |-> e.place, at |-> now])
  <2> HIDE DEF n
  <2>1. 1 \in DOMAIN s /\ s[1] = head
    BY <1>10, <1>12, <1>13, <1>14
  <2> QED
    BY <1>8, <2>1 DEF HeldAt
<1>16. \A k \in 1..Len(others) : k + 1 <= MaxHistory => k + 1 \in 1..Len(s) /\ s[k + 1] = clean[others[k]]
  <2> TAKE k \in 1..Len(others)
  <2>1. k + 1 <= MaxHistory => k + 1 \in 1..n
    BY <1>4, <1>11, <1>12
  <2> HIDE DEF n
  <2> QED
    BY <1>10, <1>13, <2>1
<1> HIDE DEF n
<1> QED
  BY <1>1, <1>3, <1>4, <1>12, <1>13, <1>14, <1>15, <1>16 DEF clean, M, others, s

\* A search is put in front of the others.
SavedOn(all, s, saved) ==
    /\ all \in Searches /\ Len(all) = Len(saved) + 1 /\ DOMAIN all = 1..Len(saved) + 1
    /\ all[1] = s /\ \A i \in 1..Len(saved) : all[i + 1] = saved[i]
    /\ \A i \in 1..Len(saved) + 1 : Since(all, i + 1) = Since(saved, i) \union {s.place}

\* The searches with one more.
LEMMA SavedBefore ==
    ASSUME NEW saved \in Searches, NEW s \in Searched
    PROVE  SavedOn(<<s>> \o saved, s, saved)
<1> DEFINE all == <<s>> \o saved
<1>1. saved \in Seq(Searched) /\ s \in Searched
  BY DEF Searches
<1>2. /\ all \in Seq(Searched) /\ Len(all) = Len(saved) + 1 /\ DOMAIN all = 1..Len(saved) + 1 /\ Len(saved) \in Nat
  BY <1>1
<1>3. all[1] = s /\ \A i \in 1..Len(saved) : all[i + 1] = saved[i]
  BY <1>1
<1> HIDE DEF all
<1>4. ASSUME NEW i \in 1..Len(saved) + 1
      PROVE  Since(all, i + 1) = Since(saved, i) \union {s.place}
  <2>1. ASSUME NEW p \in Since(all, i + 1) PROVE p \in Since(saved, i) \union {s.place}
    <3>1. PICK j \in 1..i : p = all[j].place
      BY <1>2, <2>1 DEF Since
    <3>2. CASE j = 1
      BY <1>3, <3>1, <3>2
    <3>3. CASE j # 1
      <4>1. j - 1 \in 1..i-1 /\ j - 1 \in 1..Len(saved) /\ j - 1 + 1 = j
        BY <1>2, <3>3
      <4>2. p = saved[j - 1].place
        BY <1>3, <3>1, <4>1
      <4> QED
        BY <4>1, <4>2 DEF Since
    <3> QED
      BY <3>2, <3>3
  <2>2. s.place \in Since(all, i + 1)
    <3>1. 1 \in 1..i+1-1
      BY <1>2
    <3> QED
      BY <1>3, <3>1 DEF Since
  <2>3. ASSUME NEW p \in Since(saved, i) PROVE p \in Since(all, i + 1)
    <3>1. PICK j \in 1..i-1 : p = saved[j].place
      BY <2>3 DEF Since
    <3>2. j \in 1..Len(saved) /\ j + 1 \in 1..i+1-1
      BY <1>2
    <3>3. p = all[j + 1].place
      BY <1>3, <3>1, <3>2
    <3> QED
      BY <3>2, <3>3 DEF Since
  <2> QED
    BY <2>1, <2>2, <2>3
<1> QED
  BY <1>2, <1>3, <1>4 DEF Searches, SavedOn, all

\* Saving a place moves the others back by one, unless it was in front of them already.
LEMMA SaveHolds ==
    ASSUME NEW list \in Seq(Remembered), NEW saved \in Searches, NewestFirst(saved), NEW now \in Nat,
           Held(list, saved, now), NEW e \in Remembered, e.valid
    PROVE  Held(SaveToHistory(list, e, now), <<[place |-> e.place, at |-> now]>> \o saved, now)
<1> DEFINE clean == CleanHistory(list, now)
           M == Others(clean, e)
           others == InOrder(M)
           s == SaveToHistory(list, e, now)
           last == [place |-> e.place, at |-> now]
           all == <<last>> \o saved
<1>1. Held(clean, saved, now)
  BY CleanHolds
<1>2. /\ clean \in Seq(Remembered) /\ Len(clean) \in Nat /\ DOMAIN clean = 1..Len(clean)
      /\ \A i, j \in 1..Len(clean) : i # j => clean[i].place # clean[j].place
      /\ M \in SUBSET (1..Len(clean)) /\ IsFiniteSet(M)
      /\ Len(others) \in Nat /\ DOMAIN others = 1..Len(others)
      /\ s \in Seq(Remembered) /\ DOMAIN s = 1..Len(s)
      /\ HeldAt(s, 1, last)
      /\ \A k \in 1..Len(others) : k + 1 <= MaxHistory => k + 1 \in 1..Len(s) /\ s[k + 1] = clean[others[k]]
  BY SaveIs
<1>3. last \in Searched /\ last.place = e.place
  BY DEF Remembered, Searched
<1>4. /\ all \in Searches /\ Len(all) = Len(saved) + 1 /\ DOMAIN all = 1..Len(saved) + 1
      /\ all[1] = last /\ \A i \in 1..Len(saved) : all[i + 1] = saved[i]
      /\ \A i \in 1..Len(saved) + 1 : Since(all, i + 1) = Since(saved, i) \union {e.place}
  <2>1. SavedOn(all, last, saved)
    <3> HIDE DEF last
    <3> QED
      BY <1>3, SavedBefore
  <2> HIDE DEF last, all
  <2> QED
    BY <1>3, <2>1 DEF SavedOn
<1>5. /\ DOMAIN saved = 1..Len(saved) /\ Len(saved) \in Nat
      /\ \A j \in 1..Len(saved) : saved[j].at \in Nat
  BY SearchesAre
<1>6. MaxHistory \in Nat
  BY HistoryLimits
<1> HIDE DEF clean, s, last, all
<1> SUFFICES ASSUME NEW x \in DOMAIN all, Lasting(all, x, now)
             PROVE  HeldAt(s, Behind(all, x) + 1, all[x])
  BY DEF Held, s, all, last
<1>7. CASE x = 1
  <2>1. Behind(all, 1) = 0
    BY <1>4, <1>5, SinceFacts
  <2> QED
    BY <1>2, <1>4, <1>7, <2>1
<1>8. CASE x # 1
  <2> DEFINE i == x - 1
             r == Behind(saved, i)
             k == Behind(all, x)
  <2>1. i \in 1..Len(saved) /\ x = i + 1 /\ i \in DOMAIN saved
    BY <1>4, <1>5, <1>8
  <2> HIDE DEF i
  <2>2. all[x] = saved[i] /\ Since(all, x) = Since(saved, i) \union {e.place}
    BY <1>4, <1>5, <2>1
  <2>3. /\ saved[i].place \notin Since(saved, i) /\ saved[i].place # e.place
        /\ now - saved[i].at <= TimeToLive /\ k < MaxHistory
    BY <2>2 DEF Lasting, IsFirst
  <2>4. r \in Nat /\ IsFiniteSet(Since(saved, i))
    BY <1>5, <2>1, SinceFacts
  <2>5. k = IF e.place \in Since(saved, i) THEN r ELSE r + 1
    BY <2>2, <2>4, FS_AddElement DEF Behind
  <2>6. Lasting(saved, i, now)
    BY <1>6, <2>3, <2>4, <2>5 DEF Lasting, IsFirst
  <2>7. HeldAt(clean, r + 1, saved[i])
    BY <1>1, <2>1, <2>6 DEF Held
  <2>8. r + 1 \in M
    BY <2>3, <2>7 DEF M, Others, HeldAt
  <2>9. r + 1 <= Len(clean)
    BY <1>2, <2>7 DEF HeldAt
  <2>10. Below(M, r + 1) = k - 1 /\ k >= 1
    <3>1. {y \in M : y < r + 1} = {y \in 1..r : clean[y].place # e.place}
      BY <1>2, <2>4, <2>9 DEF M, Others
    <3>2. IsFiniteSet(1..r) /\ Cardinality(1..r) = r
      BY <2>4, FS_Interval
    <3>3. CASE e.place \in Since(saved, i)
      <4>1. PICK j \in 1..i-1 : IsFirst(saved, j) /\ saved[j].place = e.place
        <5>1. i \in 1..Len(saved) + 1
          BY <1>5, <2>1
        <5> QED
          BY <3>3, <5>1, FirstOfPlace
      <4>2. j \in DOMAIN saved /\ j \in 1..i /\ j < i /\ now - saved[j].at <= TimeToLive
        BY <1>5, <2>1, <2>3, LaterLasts
      <4>3. Behind(saved, j) < r /\ Behind(saved, j) \in Nat
        <5>1. j \in 1..Len(saved) + 1 /\ i \in 1..Len(saved) + 1
          BY <1>5, <2>1, <4>2
        <5>2. Behind(saved, j) \in Nat
          BY <5>1, SinceFacts
        <5>3. Behind(saved, j) < Behind(saved, i)
          BY <4>1, <4>2, <5>1, BehindGrows
        <5> QED
          BY <5>2, <5>3
      <4>4. HeldAt(clean, Behind(saved, j) + 1, saved[j])
        <5>1. r < MaxHistory
          BY <2>6 DEF Lasting
        <5>2. Behind(saved, j) < MaxHistory
          BY <1>6, <2>4, <4>3, <5>1
        <5> QED
          BY <1>1, <4>1, <4>2, <5>2 DEF Held, Lasting
      <4> DEFINE m == Behind(saved, j) + 1
      <4>5. m \in 1..r /\ clean[m].place = e.place /\ m \in 1..Len(clean)
        BY <1>2, <2>4, <4>1, <4>3, <4>4 DEF HeldAt
      <4> HIDE DEF m
      <4>6. {y \in 1..r : clean[y].place # e.place} = (1..r) \ {m}
        <5>1. \A y \in 1..r : y \in 1..Len(clean)
          BY <1>2, <2>4, <2>9
        <5> QED
          BY <1>2, <4>5, <5>1
      <4>7. Cardinality((1..r) \ {m}) = r - 1
        <5> DEFINE I == 1..r
        <5>1. IsFiniteSet(I) /\ Cardinality(I) = r /\ m \in I
          BY <3>2, <4>5
        <5> HIDE DEF I
        <5>2. Cardinality(I \ {m}) = Cardinality(I) - 1
          BY <5>1, FS_RemoveElement
        <5> QED
          BY <5>1, <5>2 DEF I
      <4>8. r >= 1
        BY <2>4, <4>5
      <4> QED
        BY <2>5, <3>1, <3>3, <4>6, <4>7, <4>8 DEF Below
    <3>4. CASE e.place \notin Since(saved, i)
      <4>1. ASSUME NEW y \in 1..r PROVE clean[y].place # e.place
        <5>1. PICK j \in 1..i-1 : j \in DOMAIN saved /\ HeldAt(clean, y, saved[j])
          BY <1>1, <1>2, <2>1, <2>6, HeldBefore
        <5>2. saved[j].place \in Since(saved, i)
          BY DEF Since
        <5> QED
          BY <3>4, <5>1, <5>2 DEF HeldAt
      <4>2. {y \in 1..r : clean[y].place # e.place} = 1..r
        BY <4>1
      <4> QED
        <5>1. {y \in M : y < r + 1} = 1..r
          BY <3>1, <4>2
        <5>2. Below(M, r + 1) = r
          BY <3>2, <5>1 DEF Below
        <5> HIDE DEF r, k
        <5> QED
          BY <2>4, <2>5, <3>4, <5>2
    <3> QED
      BY <3>3, <3>4
  <2>11. k \in 1..Len(others) /\ others[k] = r + 1
    <3> DEFINE m == r + 1
               l == k - 1
    <3>1. M \in SUBSET Int /\ IsFiniteSet(M)
      BY <1>2
    <3>2. l \in Nat /\ l + 1 = k
      BY <2>4, <2>5, <2>10
    <3>3. m \in M /\ Below(M, m) = l
      BY <2>8, <2>10
    <3> HIDE DEF M, l, m
    <3>4. l + 1 \in DOMAIN InOrder(M) /\ InOrder(M)[l + 1] = m
      BY <3>1, <3>2, <3>3, SamePlace
    <3> QED
      BY <1>2, <3>2, <3>4 DEF m
  <2>12. k + 1 <= MaxHistory
    BY <1>6, <2>3, <2>4, <2>5
  <2>13. k + 1 \in DOMAIN s /\ s[k + 1] = clean[r + 1]
    BY <1>2, <2>11, <2>12
  <2> QED
    BY <2>2, <2>7, <2>13 DEF HeldAt
<1> QED
  BY <1>7, <1>8

\* What is in front of the history that is read.
LEMMA RecentInFront ==
    ASSUME NEW h \in Seq(Remembered), NEW saved \in Searches, NewestFirst(saved), NEW now \in Nat,
           Held(h, saved, now)
    PROVE  IsPrefix(Recent(saved, now), [i \in DOMAIN h |-> h[i].place])
<1> DEFINE F == {i \in DOMAIN saved : /\ now - saved[i].at <= TimeToLive
                                      /\ \A j \in 1..i-1 : saved[j].place # saved[i].place}
           order == InOrder(F)
           n == Min({MaxHistory, Len(order)})
           p == [i \in DOMAIN h |-> h[i].place]
           r == Recent(saved, now)
<1>1. /\ DOMAIN saved = 1..Len(saved) /\ Len(saved) \in Nat
  BY SearchesAre
<1>2. MaxHistory \in Nat
  BY HistoryLimits
<1>3. DOMAIN h = 1..Len(h) /\ Len(h) \in Nat
  OBVIOUS
<1>4. r = [k \in 1..n |-> saved[order[k]].place]
  BY DEF Recent
<1>5. \A i : i \in F <=> i \in DOMAIN saved /\ now - saved[i].at <= TimeToLive /\ IsFirst(saved, i)
  BY DEF IsFirst, Since
<1> HIDE DEF F, r
<1>6. F \in SUBSET Int /\ IsFiniteSet(F)
  <2>1. F \in SUBSET (1..Len(saved))
    BY <1>1, <1>5
  <2>2. IsFiniteSet(1..Len(saved))
    BY <1>1, FS_Interval
  <2>3. IsFiniteSet(F)
    BY <2>1, <2>2, FS_Subset
  <2>4. F \in SUBSET Int
    BY <1>1, <2>1
  <2> QED
    BY <2>3, <2>4
<1>7. Len(order) \in Nat /\ \A k \in 1..Len(order) : order[k] \in F /\ Below(F, order[k]) = k - 1
  BY <1>6, InOrderIs
<1> HIDE DEF order
<1>8. n \in Nat /\ n <= Len(order) /\ n <= MaxHistory
  BY <1>2, <1>7, MinOfTwo
<1> HIDE DEF n
<1>9. ASSUME NEW i \in F
      PROVE  Below(F, i) = Behind(saved, i)
  <2> DEFINE D == {y \in F : y < i}
             T == Since(saved, i)
             f == [y \in D |-> saved[y].place]
  <2>1. i \in DOMAIN saved /\ i \in 1..Len(saved) + 1 /\ i \in Nat /\ now - saved[i].at <= TimeToLive
    BY <1>1, <1>5
  <2>2. \A y \in D : y \in 1..i-1 /\ y \in DOMAIN saved /\ IsFirst(saved, y) /\ saved[y].place \in T
    BY <1>1, <1>5, <2>1 DEF Since
  <2>3. \A x, y \in D : x < y => saved[x].place # saved[y].place
    <3> SUFFICES ASSUME NEW x \in D, NEW y \in D, x < y PROVE saved[x].place # saved[y].place
      OBVIOUS
    <3>1. saved[x].place \in Since(saved, y)
      BY <1>1, <2>1, <2>2 DEF Since
    <3> QED
      BY <2>2, <3>1 DEF IsFirst
  <2>4. \A q \in T : \E y \in D : f[y] = q
    <3> TAKE q \in T
    <3>1. PICK y \in 1..i-1 : IsFirst(saved, y) /\ saved[y].place = q
      BY <2>1, FirstOfPlace
    <3>2. y \in DOMAIN saved /\ now - saved[y].at <= TimeToLive
      BY <2>1, LaterLasts
    <3>3. y \in D
      BY <1>5, <2>1, <3>1, <3>2
    <3> QED
      BY <3>1, <3>3
  <2>5. f \in [D -> T]
    BY <2>2
  <2>6. \A x, y \in D : f[x] = f[y] => x = y
    <3>1. \A x \in D : x \in Int
      BY <2>1, <2>2
    <3> QED
      BY <2>3, <3>1
  <2>7. IsFiniteSet(D)
    BY <1>6, FS_Subset
  <2> HIDE DEF D, T, f
  <2>8. f \in Injection(D, T) /\ f \in Surjection(D, T)
    BY <2>4, <2>5, <2>6, Fun_IsInj, Fun_IsSurj
  <2>9. Cardinality(T) = Cardinality(D)
    BY <2>7, <2>8, FS_Surjection
  <2> QED
    BY <2>9 DEF Below, Behind, D, T
<1>10. ASSUME NEW k \in 1..n
       PROVE  k \in DOMAIN h /\ r[k] = h[k].place
  <2>1. order[k] \in F /\ Below(F, order[k]) = k - 1
    BY <1>7, <1>8
  <2>2. Behind(saved, order[k]) = k - 1
    BY <1>9, <2>1
  <2>3. Lasting(saved, order[k], now) /\ order[k] \in DOMAIN saved
    BY <1>2, <1>5, <1>8, <2>1, <2>2 DEF Lasting
  <2>4. HeldAt(h, Behind(saved, order[k]) + 1, saved[order[k]]) /\ Behind(saved, order[k]) + 1 = k
    BY <1>8, <2>2, <2>3 DEF Held
  <2> QED
    BY <1>4, <2>4 DEF HeldAt
<1>11. n <= Len(h)
  <2>1. n >= 1 => n \in DOMAIN h
    BY <1>8, <1>10
  <2> QED
    BY <1>3, <1>8, <2>1
<1>12. DOMAIN p = 1..Len(h) /\ Len(p) = Len(h) /\ p \in Seq(STRING)
  <2>1. \A i \in DOMAIN h : h[i].place \in STRING
    <3>1. \A e \in Remembered : e.place \in STRING
      BY DEF Remembered
    <3> QED
      BY <3>1
  <2>2. p \in [1..Len(h) -> STRING]
    BY <1>3, <2>1
  <2> HIDE DEF p
  <2> QED
    BY <1>3, <2>2
<1>13. Len(r) = n /\ r \in Seq(STRING)
  <2>1. \A k \in 1..n : r[k] \in STRING
    <3>1. \A e \in Remembered : e.place \in STRING
      BY DEF Remembered
    <3> QED
      BY <1>10, <3>1
  <2>2. r \in [1..n -> STRING]
    BY <1>4, <2>1
  <2> QED
    BY <1>8, <2>2
<1>14. \A k \in 1..n : r[k] = p[k]
  BY <1>10
<1> HIDE DEF p
<1>15. SubSeq(r, 1, n) = SubSeq(p, 1, n)
  <2>1. \A k \in 1..n : r[k] \in STRING /\ p[k] \in STRING
    BY <1>3, <1>8, <1>11, <1>12, <1>13
  <2>2. /\ SubSeq(r, 1, n) \in Seq(STRING) /\ Len(SubSeq(r, 1, n)) = n
        /\ \A k \in 1..n-1+1 : SubSeq(r, 1, n)[k] = r[1+k-1]
    BY <1>8, <2>1, SubSeqProperties
  <2>3. /\ SubSeq(p, 1, n) \in Seq(STRING) /\ Len(SubSeq(p, 1, n)) = n
        /\ \A k \in 1..n-1+1 : SubSeq(p, 1, n)[k] = p[1+k-1]
    BY <1>8, <2>1, SubSeqProperties
  <2>4. \A k \in 1..n : SubSeq(r, 1, n)[k] = r[k] /\ SubSeq(p, 1, n)[k] = p[k]
    BY <1>8, <2>2, <2>3
  <2> QED
    BY <1>14, <2>2, <2>3, <2>4, SeqEqual
<1> QED
  BY <1>11, <1>12, <1>13, <1>15 DEF IsPrefix, p, r

------------------------------------------------------------------------------
(* The history, with time passing *)

HistoryState == kind = "history" =>
    /\ question.stored \in Seq(Remembered) /\ question.saved \in Searches /\ NewestFirst(question.saved)
    /\ question.now \in Nat /\ step \in Nat /\ question.now <= step
    /\ \A i \in DOMAIN question.saved : question.saved[i].at <= question.now
    /\ Held(question.stored, question.saved, question.now)
HistoryInv == kind = "history" /\ step > 0 => HistoryIsSound(question, answer)
HistoryIInv == HistoryState /\ HistoryInv

\* As time passes, fewer places have to be there.
LEMMA HeldLater ==
    ASSUME NEW list, NEW saved \in Searches, NEW now \in Nat, NEW t \in Nat, now <= t, Held(list, saved, now)
    PROVE  Held(list, saved, t)
<1> SUFFICES ASSUME NEW i \in DOMAIN saved, Lasting(saved, i, t) PROVE Lasting(saved, i, now)
  BY DEF Held
<1>1. saved[i].at \in Nat /\ TimeToLive \in Nat
  BY SearchesAre, HistoryLimits
<1>2. now - saved[i].at <= TimeToLive
  BY <1>1 DEF Lasting
<1> QED
  BY <1>2 DEF Lasting

\* Anything may be stored at first.
LEMMA HistoryInit == AnswersInit => HistoryIInv
<1> SUFFICES ASSUME AnswersInit, kind = "history" PROVE HistoryState /\ step = 0
  BY DEF HistoryIInv, HistoryInv, HistoryState
<1>1. InitHistory /\ step = 0
  BY DEF AnswersInit, InitPages, InitFocus, InitMatch, InitSuggest, InitGeocode, InitCall
<1>2. PICK s \in Stored : question = [stored |-> s, saved |-> <<>>, now |-> 0]
  BY <1>1 DEF InitHistory
<1>3. question.stored \in Seq(Remembered) /\ question.saved = <<>> /\ question.now = 0
  BY <1>2, PlacesAssumption DEF Remembered
<1>4. <<>> \in Searches /\ DOMAIN <<>> = {}
  BY DEF Searches
<1>5. NewestFirst(<<>>) /\ Held(question.stored, <<>>, 0)
  BY <1>4 DEF NewestFirst, Held
<1> QED
  BY <1>1, <1>3, <1>4, <1>5 DEF HistoryState

\* Saving a place, or something that is not an entry, and reading the history again.
LEMMA HistoryStep == HistoryIInv /\ [AnswersNext]_answersVars => HistoryIInv'
<1> SUFFICES ASSUME HistoryIInv, [AnswersNext]_answersVars PROVE HistoryIInv'
  OBVIOUS
<1>1. CASE Save
  <2>1. PICK e \in Entries, wait \in 0..1 :
          question' = [stored |-> SaveToHistory(question.stored, e, step + wait),
                       saved |-> (IF ValidEntry(e) THEN <<[place |-> e.place, at |-> step + wait]>> ELSE <<>>)
                                   \o question.saved,
                       now |-> step + wait]
          /\ answer' = CleanHistory(question'.stored, step + wait)
    BY <1>1 DEF Save
  <2> DEFINE list == question.stored
             saved == question.saved
             now == step + wait
             last == [place |-> e.place, at |-> now]
             next == SaveToHistory(list, e, now)
             all == (IF ValidEntry(e) THEN <<last>> ELSE <<>>) \o saved
  <2>2. /\ kind = "history" /\ kind' = kind /\ step' = step + 1
        /\ list \in Seq(Remembered) /\ saved \in Searches /\ NewestFirst(saved)
        /\ question.now \in Nat /\ step \in Nat /\ question.now <= step
        /\ \A i \in DOMAIN saved : saved[i].at <= question.now
        /\ Held(list, saved, question.now)
    BY <1>1 DEF Save, HistoryIInv, HistoryState
  <2>3. now \in Nat /\ question.now <= now /\ now <= step + 1 /\ step + 1 \in Nat /\ step + 1 > 0
    BY <2>2
  <2>4. question'.stored = next /\ question'.saved = all /\ question'.now = now /\ answer' = CleanHistory(next, now)
    BY <2>1
  <2>5. e \in Remembered
    BY PlacesAssumption DEF Remembered
  <2> HIDE DEF now, list, saved
  <2>6. Held(list, saved, now)
    BY <2>2, <2>3, HeldLater
  <2>7. /\ DOMAIN saved = 1..Len(saved) /\ Len(saved) \in Nat
        /\ \A j \in 1..Len(saved) : saved[j].at \in Nat
    BY <2>2, SearchesAre
  <2>8. \A i \in DOMAIN saved : saved[i].at <= now
    BY <2>2, <2>3, <2>7
  <2>9. /\ next \in Seq(Remembered) /\ all \in Searches /\ NewestFirst(all)
        /\ \A i \in DOMAIN all : all[i].at <= now
        /\ Held(next, all, now)
    <3>1. CASE e.valid
      <4>1. all = <<last>> \o saved
        BY <3>1 DEF ValidEntry
      <4>2. last \in Searched /\ last.at = now
        BY <2>3, <2>5 DEF Searched, Remembered
      <4>3. next \in Seq(Remembered)
        BY <2>2, <2>3, <2>5, <3>1, SaveIs
      <4>4. Held(next, all, now)
        BY <2>2, <2>3, <2>5, <2>6, <3>1, <4>1, SaveHolds
      <4> HIDE DEF last, all, next
      <4>5. SavedOn(all, last, saved)
        BY <2>2, <4>1, <4>2, SavedBefore
      <4>6. \A i \in DOMAIN all : all[i].at <= now /\ (i = 1 => all[i].at = now)
                                  /\ (i # 1 => i - 1 \in DOMAIN saved /\ all[i] = saved[i - 1])
        <5> TAKE i \in DOMAIN all
        <5>1. CASE i = 1
          BY <2>3, <4>2, <4>5, <5>1 DEF SavedOn
        <5>2. CASE i # 1
          <6>1. i - 1 \in 1..Len(saved) /\ i - 1 + 1 = i
            BY <2>7, <4>5, <5>2 DEF SavedOn
          <6>2. all[i] = saved[i - 1]
            BY <4>5, <6>1 DEF SavedOn
          <6> QED
            BY <2>7, <2>8, <5>2, <6>1, <6>2
        <5> QED
          BY <5>1, <5>2
      <4>7. NewestFirst(all)
        <5> SUFFICES ASSUME NEW i \in DOMAIN all, NEW j \in DOMAIN all, i < j PROVE all[i].at >= all[j].at
          BY DEF NewestFirst
        <5>1. i \in Nat /\ j \in Nat
          BY <2>7, <4>5 DEF SavedOn
        <5>2. CASE i = 1
          BY <2>3, <2>7, <4>6, <5>1, <5>2
        <5>3. CASE i # 1
          <6>1. /\ i - 1 \in DOMAIN saved /\ all[i] = saved[i - 1]
                /\ j - 1 \in DOMAIN saved /\ all[j] = saved[j - 1] /\ i - 1 < j - 1
            BY <2>7, <4>5, <4>6, <5>1, <5>3 DEF SavedOn
          <6> QED
            BY <2>2, <6>1 DEF NewestFirst
        <5> QED
          BY <5>2, <5>3
      <4> QED
        BY <4>3, <4>4, <4>5, <4>6, <4>7 DEF SavedOn
    <3>2. CASE ~e.valid
      <4>1. next = list
        BY <3>2 DEF SaveToHistory, ValidEntry
      <4>2. all = saved
        <5>1. all = <<>> \o saved
          BY <3>2 DEF ValidEntry
        <5>2. saved \in Seq(Searched)
          BY <2>2 DEF Searches
        <5> QED
          BY <5>1, <5>2
      <4> HIDE DEF all, next
      <4> QED
        BY <2>2, <2>6, <2>8, <4>1, <4>2
    <3> QED
      BY <3>1, <3>2
  <2> HIDE DEF next, all
  <2>10. HistoryState'
    BY <2>2, <2>3, <2>4, <2>9 DEF HistoryState
  <2>11. HistoryIsSound(question', answer')
    <3>1. Held(answer', all, now)
      BY <2>3, <2>4, <2>9, CleanHolds
    <3>2. /\ answer' \in Seq(Remembered) /\ Len(answer') <= MaxHistory
          /\ DOMAIN answer' = 1..Len(answer')
          /\ \A i, j \in 1..Len(answer') : i # j => answer'[i].place # answer'[j].place
      <4> DEFINE h == CleanHistory(next, now)
      <4>1. /\ h \in Seq(Remembered) /\ Len(h) <= MaxHistory /\ DOMAIN h = 1..Len(h)
            /\ \A i, j \in 1..Len(h) : i # j => h[i].place # h[j].place
        BY <2>3, <2>9, CleanIs
      <4> HIDE DEF h
      <4>2. answer' = h
        BY <2>4 DEF h
      <4> QED
        BY <4>1, <4>2
    <3>3. IsPrefix(Recent(all, now), [i \in DOMAIN answer' |-> answer'[i].place])
      BY <2>3, <2>9, <3>1, <3>2, RecentInFront
    <3> QED
      BY <2>4, <3>2, <3>3 DEF HistoryIsSound
  <2> QED
    BY <2>10, <2>11 DEF HistoryIInv, HistoryInv
<1>2. CASE UNCHANGED answersVars
  BY <1>2 DEF answersVars, HistoryIInv, HistoryState, HistoryInv
<1>3. CASE kind # "history" /\ kind' = kind
  BY <1>3 DEF HistoryIInv, HistoryState, HistoryInv
<1> QED
  BY <1>1, <1>2, <1>3 DEF AnswersNext, AskPage, AskFocus, AskMatch, AskSuggest, AskGeocoders, AskCall

\* Suggestions, matches on a track, answers of the geocoders and the history of searches
\* are sound for every set of photos, every track and everything that may be stored.
THEOREM PlacesAreSoundHolds == AnswersSpec => []PlacesAreSound
<1> DEFINE Inv == SuggestIInv /\ MatchInv /\ GeocodeInv /\ HistoryIInv
<1>1. AnswersInit => Inv
  BY SuggestInit, MatchInit, GeocodeInit, HistoryInit
<1>2. Inv /\ [AnswersNext]_answersVars => Inv'
  BY SuggestStep, MatchStep, GeocodeStep, HistoryStep
<1>3. Inv => PlacesAreSound
  BY DEF SuggestIInv, SuggestInv, MatchInv, GeocodeInv, HistoryIInv, HistoryInv, PlacesAreSound
<1> QED
  BY <1>1, <1>2, <1>3, PTL DEF AnswersSpec

------------------------------------------------------------------------------
(* Late answers *)

Typed ==
    /\ hook \in Hooks
    /\ input \in Inputs \union {None} /\ shown \in Inputs \union {None}
    /\ asked \in Inputs \union {None} /\ held \in Inputs \union {None}
    /\ on \in BOOLEAN /\ begun \in BOOLEAN /\ stale \in BOOLEAN
    /\ loading \in BOOLEAN /\ failed \in BOOLEAN
    /\ reqs \in SUBSET Requests
    /\ loads \in 0..MaxLoads
    /\ input = None => hook \in Having("optional")
    /\ held # None => hook \in Having("save")
    /\ hook = "search" /\ stale => input # None

Newest ==
    \A r \in reqs : IF r.superseded THEN r.aborted ELSE r.of = asked

\* The request whose answer the screen is going to show.
Awaited(r) == ~r.superseded /\ ~r.aborted

OnTheWay ==
    \/ shown \in {None, asked}
    \/ failed
    \/ \E r \in reqs : Awaited(r)
    \/ hook = "days" /\ input = None
    \/ hook = "folders" /\ stale

AskedForIt ==
    input # None /\ hook \notin Having("save") => asked \in {None, input} \/ stale

QuietInv == Typed /\ Newest /\ OnTheWay /\ AskedForIt

------------------------------------------------------------------------------
\* What the traits say of single hooks.
LEMMA HookTraits ==
    /\ Having("save") = {"assets", "albums"}
    /\ Having("clear") = {"assets", "albums", "folders"}
    /\ Having("once") = {"assets", "albums", "health"}
    /\ Having("optional") \intersect {"assets", "albums", "folders", "health", "tags"} = {}
    /\ Having("fixed") \intersect {"assets", "albums", "folders", "markers", "days", "missing",
                                   "folderPath", "suggestions", "search"} = {}
BY DEF Having, Hooks, Traits, useAssets, useAlbums, useFolders, useMapMarkers, usePlaceSearch, useTags,
   useBackendStatus, useDayCounts, useMissingLocationCount, useAssetFolderPath, useSuggestions

\* Both ways to drop the requests keep what else is known of them.
LEMMA DroppedRequests ==
    ASSUME reqs \in SUBSET Requests
    PROVE  /\ Dropped \in SUBSET Requests /\ \A q \in Dropped : q.aborted /\ q.superseded
           /\ Aborted \in SUBSET Requests
           /\ \A q \in Aborted : /\ q.aborted
                                 /\ \E r \in reqs : q.of = r.of /\ (q.superseded <=> r.superseded)
<1>1. ASSUME NEW r \in reqs
      PROVE  /\ [r EXCEPT !.aborted = TRUE] \in Requests
             /\ [r EXCEPT !.aborted = TRUE].of = r.of
             /\ [r EXCEPT !.aborted = TRUE].aborted
             /\ [r EXCEPT !.aborted = TRUE].superseded = r.superseded
             /\ [r EXCEPT !.aborted = TRUE, !.superseded = TRUE] \in Requests
             /\ [r EXCEPT !.aborted = TRUE, !.superseded = TRUE].aborted
             /\ [r EXCEPT !.aborted = TRUE, !.superseded = TRUE].superseded
  BY DEF Requests
<1>2. Dropped \in SUBSET Requests /\ \A q \in Dropped : q.aborted /\ q.superseded
  <2>1. \A q \in Dropped : \E r \in reqs : q = [r EXCEPT !.aborted = TRUE, !.superseded = TRUE]
    BY DEF Dropped
  <2>2. ASSUME NEW q \in Dropped PROVE q \in Requests /\ q.aborted /\ q.superseded
    <3>1. PICK r \in reqs : q = [r EXCEPT !.aborted = TRUE, !.superseded = TRUE]
      BY <2>1
    <3> QED
      BY <1>1, <3>1
  <2> QED
    BY <2>2
<1>3. \A q \in Aborted : \E r \in reqs : q = [r EXCEPT !.aborted = TRUE]
  BY DEF Aborted
<1>4. ASSUME NEW q \in Aborted
      PROVE  /\ q \in Requests /\ q.aborted
             /\ \E r \in reqs : q.of = r.of /\ (q.superseded <=> r.superseded)
  <2>1. PICK r \in reqs : q = [r EXCEPT !.aborted = TRUE]
    BY <1>3
  <2>2. q \in Requests /\ q.aborted /\ q.of = r.of /\ q.superseded = r.superseded
    BY <1>1, <2>1
  <2> QED
    BY <2>2
<1> QED
  BY <1>2, <1>4

\* A new request is the one that is awaited, and the only one that is not superseded.
LEMMA Loads ==
    ASSUME Typed, NEW i \in Inputs, Load(i)
    PROVE  /\ reqs' \in SUBSET Requests /\ loads' \in 0..MaxLoads /\ asked' = i
           /\ loading' \in BOOLEAN /\ failed' = FALSE
           /\ Newest' /\ OnTheWay'
<1> DEFINE new == [of |-> i, n |-> loads, answered |-> FALSE, aborted |-> FALSE, superseded |-> FALSE]
<1>1. new \in Requests /\ Awaited(new) /\ new.of = i
  <2>1. loads \in 0..MaxLoads-1
    BY MaxLoadsAssumption DEF Typed, Load
  <2> QED
    BY <2>1 DEF Requests, Awaited
<1>2. reqs' = Dropped \union {new} /\ asked' = i /\ failed' = FALSE
  BY DEF Load
<1>3. loads' \in 0..MaxLoads /\ loading' \in BOOLEAN
  BY MaxLoadsAssumption DEF Load, Typed
<1> HIDE DEF new
<1>4. Dropped \in SUBSET Requests /\ \A q \in Dropped : q.aborted /\ q.superseded
  BY DroppedRequests DEF Typed
<1>5. Newest'
  BY <1>1, <1>2, <1>4 DEF Newest, Awaited
<1>6. OnTheWay'
  BY <1>1, <1>2 DEF OnTheWay, Awaited
<1> QED
  BY <1>1, <1>2, <1>3, <1>4, <1>5, <1>6

\* The actions that load: what is asked for is what is wanted, but after a save.
LEMMA LoadsQuiet ==
    ASSUME QuietInv, NEW i \in Inputs, Load(i),
           UNCHANGED <<hook, on>> \/ (hook = "tags" /\ hook' = hook /\ on' \in BOOLEAN),
           input' \in Inputs, i = input' \/ hook \in Having("save"),
           begun' \in BOOLEAN, stale' \in BOOLEAN, shown' \in {None, shown}, held' \in {None, held}
    PROVE  QuietInv'
<1>1. /\ reqs' \in SUBSET Requests /\ loads' \in 0..MaxLoads /\ asked' = i
      /\ loading' \in BOOLEAN /\ failed' = FALSE
      /\ Newest' /\ OnTheWay'
  BY Loads DEF QuietInv
<1>2. None \notin Inputs
  BY InputsAssumption DEF None
<1>3. Typed'
  BY <1>1, <1>2 DEF QuietInv, Typed
<1>4. AskedForIt'
  BY <1>1 DEF AskedForIt
<1> QED
  BY <1>1, <1>3, <1>4 DEF QuietInv

\* A change of what the screen wants.
LEMMA ChangeQuiet ==
    ASSUME QuietInv, NEW i \in Inputs \union {None}, Change(i)
    PROVE  QuietInv'
<1>0. None \notin Inputs /\ (i = None => hook \in Having("optional"))
  BY InputsAssumption DEF None, Change
<1>1. CASE ChangeNumbered(i)
  <2>1. CASE i # None
    <3>1. Load(i) /\ input' = i /\ UNCHANGED <<hook, on, begun, stale, held>> /\ shown' \in {None, shown}
      BY <1>1, <2>1 DEF ChangeNumbered
    <3> QED
      BY <1>0, <2>1, <3>1, LoadsQuiet DEF QuietInv, Typed
  <2>2. CASE i = None
    <3>1. /\ UNCHANGED <<hook, on, begun, stale, shown, loading, failed, reqs, asked, held, loads>>
          /\ input' = None /\ hook = "markers"
      BY <1>1, <2>2 DEF ChangeNumbered, Idle
    <3> QED
      BY <1>0, <2>2, <3>1 DEF QuietInv, Typed, Newest, OnTheWay, Awaited, AskedForIt
  <2> QED
    BY <2>1, <2>2
<1>2. CASE ChangeFolders(i)
  <2>1. /\ hook = "folders" /\ input' = i /\ stale' = TRUE /\ reqs' = Dropped
        /\ loading' = FALSE /\ failed' = FALSE /\ UNCHANGED <<hook, on, begun, shown, asked, held, loads>>
    BY <1>2 DEF ChangeFolders
  <2>2. Newest' /\ reqs' \in SUBSET Requests
    BY <2>1, DroppedRequests DEF QuietInv, Typed, Newest
  <2> QED
    BY <1>0, <2>1, <2>2 DEF QuietInv, Typed, OnTheWay, AskedForIt
<1>3. CASE ChangeSignalled(i)
  <2>0. UNCHANGED <<hook, on, begun, stale, held>> /\ input' = i /\ hook # "search"
    BY <1>3 DEF ChangeSignalled
  <2>1. CASE i # None
    <3>1. Load(i) /\ shown' \in {None, shown}
      BY <1>3, <2>1 DEF ChangeSignalled
    <3> QED
      BY <1>0, <2>0, <2>1, <3>1, LoadsQuiet DEF QuietInv, Typed
  <2>2. CASE i = None
    <3>1. /\ reqs' = Dropped /\ loading' = FALSE /\ failed' = FALSE /\ UNCHANGED <<asked, loads>>
          /\ shown' = None \/ (hook = "days" /\ shown' = shown)
      BY <1>3, <2>2 DEF ChangeSignalled
    <3>2. Newest' /\ reqs' \in SUBSET Requests
      BY <3>1, DroppedRequests DEF QuietInv, Typed, Newest
    <3> QED
      BY <1>0, <2>0, <2>2, <3>1, <3>2 DEF QuietInv, Typed, OnTheWay, AskedForIt
  <2> QED
    BY <2>1, <2>2
<1>4. CASE Type(i)
  <2>0. UNCHANGED <<hook, on, begun, held>> /\ input' = i /\ stale' = (i # None)
    BY <1>4 DEF Type
  <2>1. CASE i # None
    <3>1. UNCHANGED <<reqs, asked, loads, shown, loading, failed>> /\ hook = "search"
      BY <1>4, <2>1 DEF Type, Idle
    <3> QED
      BY <1>0, <2>0, <2>1, <3>1 DEF QuietInv, Typed, Newest, OnTheWay, Awaited, AskedForIt
  <2>2. CASE i = None
    <3>1. /\ reqs' = Aborted /\ shown' = None /\ loading' = FALSE /\ failed' = FALSE
          /\ UNCHANGED <<asked, loads>>
      BY <1>4, <2>2 DEF Type
    <3>2. Newest' /\ reqs' \in SUBSET Requests
      BY <3>1, DroppedRequests DEF QuietInv, Typed, Newest
    <3> QED
      BY <1>0, <2>0, <2>2, <3>1, <3>2 DEF QuietInv, Typed, OnTheWay, AskedForIt
  <2> QED
    BY <2>1, <2>2
<1> QED
  BY <1>1, <1>2, <1>3, <1>4 DEF Change

\* A request ends: one that is awaited with its answer, or as a failure.
LEMMA EndsQuiet ==
    ASSUME QuietInv, NEW r \in reqs, Arrive(r) \/ Ends(r)
    PROVE  QuietInv'
<1>1. CASE Arrive(r)
  <2> DEFINE q == [r EXCEPT !.answered = TRUE]
  <2>1. /\ q \in Requests /\ q.of = r.of /\ q.aborted = r.aborted /\ q.superseded = r.superseded
    BY DEF QuietInv, Typed, Requests
  <2>2. /\ reqs' = (reqs \ {r}) \union {q}
        /\ UNCHANGED <<hook, input, on, begun, stale, shown, loading, failed, asked, held, loads>>
    BY <1>1 DEF Arrive
  <2> HIDE DEF q
  <2>3. Newest'
    BY <2>1, <2>2 DEF QuietInv, Newest
  <2>4. OnTheWay'
    BY <2>1, <2>2 DEF QuietInv, OnTheWay, Awaited
  <2> QED
    BY <2>1, <2>2, <2>3, <2>4 DEF QuietInv, Typed, AskedForIt
<1>2. CASE Ends(r)
  <2>1. /\ reqs' = reqs \ {r}
        /\ UNCHANGED <<hook, input, on, begun, stale, asked, held, loads>>
        /\ loading' \in BOOLEAN /\ failed' \in BOOLEAN
    BY <1>2 DEF Ends, Apply, Fail, Reject, QuietInv, Typed
  <2>2. r \in Requests /\ (Counts(r) => ~r.superseded /\ r.of = asked) /\ (Awaited(r) => Counts(r))
    BY DEF QuietInv, Typed, Requests, Newest, Counts, Awaited
  <2>3. shown' \in Inputs \union {None}
    BY <1>2, <2>2 DEF Ends, Apply, Fail, Reject, QuietInv, Typed, Requests
  <2>4. OnTheWay'
    <3>1. CASE Apply(r)
      <4>1. failed' = failed /\ shown' = IF Counts(r) THEN r.of ELSE shown
        BY <3>1 DEF Apply
      <4> QED
        BY <2>1, <2>2, <4>1 DEF QuietInv, OnTheWay
    <3>2. CASE Fail(r)
      <4>1. /\ failed' = (failed \/ (Counts(r) /\ ~r.aborted))
            /\ shown' \in {None, shown}
        BY <3>2 DEF Fail
      <4> QED
        BY <2>1, <2>2, <4>1 DEF QuietInv, OnTheWay, Awaited
    <3>3. CASE Reject(r)
      BY <2>1, <3>3 DEF Reject, QuietInv, OnTheWay, Awaited
    <3> QED
      BY <1>2, <3>1, <3>2, <3>3 DEF Ends
  <2> QED
    BY <2>1, <2>3, <2>4 DEF QuietInv, Typed, Newest, AskedForIt
<1> QED
  BY <1>1, <1>2

LEMMA QuietStep == QuietInv /\ [Next]_vars => QuietInv'
<1> SUFFICES ASSUME QuietInv, [Next]_vars PROVE QuietInv'
  OBVIOUS
<1>0. None \notin Inputs
  BY InputsAssumption DEF None
<1>1. ASSUME FirstLoad \/ LoadStale \/ Retry \/ Search \/ Reload PROVE QuietInv'
  <2>1. /\ Load(input) /\ UNCHANGED <<hook, on, input, shown, held>>
        /\ begun' \in BOOLEAN /\ stale' \in BOOLEAN
    BY <1>1 DEF FirstLoad, LoadStale, Retry, Search, Reload, QuietInv, Typed
  <2>2. input # None
    BY <1>1, HookTraits DEF FirstLoad, LoadStale, Retry, Search, Reload, QuietInv, Typed
  <2> QED
    BY <2>1, <2>2, LoadsQuiet DEF QuietInv, Typed
<1>2. ASSUME OpenTags PROVE QuietInv'
  <2>1. /\ hook = "tags" /\ on' = ~on /\ on' \in BOOLEAN
        /\ UNCHANGED <<hook, input, begun, stale, shown, held>>
    BY <1>2 DEF OpenTags, QuietInv, Typed
  <2>2. input \in Inputs
    BY <2>1, HookTraits DEF QuietInv, Typed
  <2>3. CASE Load(input)
    BY <2>1, <2>2, <2>3, LoadsQuiet DEF QuietInv, Typed
  <2>4. CASE UNCHANGED <<loading, failed, reqs, asked, loads>>
    BY <2>1, <2>4 DEF QuietInv, Typed, Newest, OnTheWay, Awaited, AskedForIt
  <2> QED
    BY <1>2, <2>3, <2>4 DEF OpenTags, Idle
<1>3. ASSUME Switch \/ SaveBegins \/ UNCHANGED vars PROVE QuietInv'
  <2>1. /\ UNCHANGED <<hook, input, begun, stale, shown, loading, failed, reqs, asked, loads>>
        /\ on' \in BOOLEAN /\ held' \in Inputs \union {None} /\ (held' # None => hook \in Having("save"))
    BY <1>3 DEF Switch, SaveBegins, vars, QuietInv, Typed
  <2> QED
    BY <2>1 DEF QuietInv, Typed, Newest, OnTheWay, Awaited, AskedForIt
<1>4. ASSUME SaveEnds PROVE QuietInv'
  <2>1. /\ held \in Inputs /\ Load(held) /\ hook \in Having("save") /\ held' = None
        /\ UNCHANGED <<hook, input, on, begun, stale, shown>>
    BY <1>4 DEF SaveEnds, QuietInv, Typed
  <2>2. input \in Inputs
    BY <2>1, HookTraits DEF QuietInv, Typed
  <2> QED
    BY <2>1, <2>2, LoadsQuiet DEF QuietInv, Typed
<1>5. ASSUME Clear PROVE QuietInv'
  <2>1. /\ hook \in {"assets", "albums", "folders"} /\ reqs' = Dropped /\ shown' = None
        /\ stale' = (hook = "folders") /\ loading' = FALSE /\ failed' = FALSE
        /\ UNCHANGED <<hook, input, on, begun, asked, held, loads>>
    BY <1>5, HookTraits DEF Clear
  <2>2. Newest' /\ reqs' \in SUBSET Requests
    BY <2>1, DroppedRequests DEF QuietInv, Typed, Newest
  <2>3. OnTheWay'
    BY <2>1 DEF OnTheWay
  <2>4. AskedForIt'
    BY <2>1, HookTraits DEF AskedForIt, Having
  <2> QED
    BY <2>1, <2>2, <2>3, <2>4 DEF QuietInv, Typed
<1>6. ASSUME NEW i \in Inputs \union {None}, Change(i) PROVE QuietInv'
  BY <1>6, ChangeQuiet
<1>7. ASSUME NEW r \in reqs, Arrive(r) \/ Ends(r) PROVE QuietInv'
  BY <1>7, EndsQuiet
<1> QED
  BY <1>1, <1>2, <1>3, <1>4, <1>5, <1>6, <1>7 DEF Next

LEMMA QuietInit == Init => QuietInv
<1> SUFFICES ASSUME Init PROVE QuietInv
  OBVIOUS
<1>1. None \notin Inputs
  BY InputsAssumption DEF None
<1>2. Typed
  <2>1. hook \in Having("optional") => input = None
    BY DEF Init
  <2>2. hook \notin Having("optional") => input \in Inputs
    BY DEF Init
  <2>3. (hook = "folders") \in BOOLEAN /\ (hook = "health") \in BOOLEAN /\ 0 \in 0..MaxLoads
    BY MaxLoadsAssumption
  <2>4. input \in Inputs \union {None} /\ (input = None => hook \in Having("optional"))
    BY <1>1, <2>1, <2>2
  <2> QED
    BY <2>3, <2>4 DEF Init, Typed
<1> QED
  BY <1>2 DEF Init, QuietInv, Newest, OnTheWay, AskedForIt

\* Either guard lets what is awaited through, so that a quiet hook awaits nothing.
LEMMA QuietHolds == QuietInv => QuietScreenIsCurrent
<1> SUFFICES ASSUME QuietInv, Settled, ~failed, shown # None
             PROVE  /\ input # None \/ hook # "days" => shown = asked
                    /\ input # None /\ hook \notin Having("save") => shown = input
  BY DEF QuietScreenIsCurrent
<1>1. ~stale /\ \A r \in reqs : ~Awaited(r)
  BY DEF Settled, Counts, Awaited
<1>2. shown = asked \/ (hook = "days" /\ input = None)
  BY <1>1 DEF QuietInv, OnTheWay
<1>3. input # None /\ hook \notin Having("save") => asked \in {None, input}
  BY <1>1 DEF QuietInv, AskedForIt
<1> QED
  BY <1>2, <1>3

\* Type correctness of the hooks, for every set of inputs and every number of requests.
THEOREM TypeCorrect == Spec => []TypeOK
<1>1. Init => QuietInv
  BY QuietInit
<1>2. QuietInv /\ [Next]_vars => QuietInv'
  BY QuietStep
<1>3. QuietInv => TypeOK
  BY DEF QuietInv, Typed, TypeOK
<1> QED
  BY <1>1, <1>2, <1>3, PTL DEF Spec

(***************************************************************************)
(* A screen that waits for nothing shows the answer to the newest request, *)
(* which asked for what the screen wants, however many requests overlap.   *)
(***************************************************************************)
THEOREM QuietScreens == Spec => []QuietScreenIsCurrent
<1>1. Init => QuietInv
  BY QuietInit
<1>2. QuietInv /\ [Next]_vars => QuietInv'
  BY QuietStep
<1>3. QuietInv => QuietScreenIsCurrent
  BY QuietHolds
<1> QED
  BY <1>1, <1>2, <1>3, PTL DEF Spec

------------------------------------------------------------------------------
Flows == [at : {"idle", "trigger", "check", "wait", "ask", "reload"}, polls : Nat,
          limited : BOOLEAN, storing : BOOLEAN]

\* A run that is awaited goes on: what ends it ends the waiting in the same step.
PollingInv ==
    /\ flow \in Flows
    /\ awaited => running
    /\ ReloadFollowsTheRun

LEMMA PollingStep == PollingInv /\ [PollingNext]_pollingVars => PollingInv'
<1> SUFFICES ASSUME PollingInv, [PollingNext]_pollingVars PROVE PollingInv'
  OBVIOUS
<1>0. /\ flow \in Flows /\ (awaited => running) /\ (flow.at = "reload" /\ awaited => flow.limited)
  BY DEF PollingInv, ReloadFollowsTheRun
<1>a. ASSUME NEW where \in {"trigger", "check", "wait", "ask"}, NEW n \in Nat
      PROVE  /\ [flow EXCEPT !.at = where] \in Flows /\ [flow EXCEPT !.at = where].at = where
             /\ [flow EXCEPT !.at = where, !.polls = n] \in Flows
             /\ [flow EXCEPT !.at = where, !.polls = n].at = where
  BY <1>0 DEF Flows
<1>b. NoFlow \in Flows /\ NoFlow.at = "idle"
  BY DEF NoFlow, Flows
<1>c. ASSUME flow' \in Flows, awaited' => running', flow'.at # "reload" \/ ~awaited' \/ flow'.limited
      PROVE  PollingInv'
  BY <1>c DEF PollingInv, ReloadFollowsTheRun
<1>1. ASSUME RunStarts \/ RunEnds PROVE PollingInv'
  BY <1>1, <1>0, <1>c DEF RunStarts, RunEnds, resyncVars
<1>2. ASSUME Resync \/ InitialCheck PROVE PollingInv'
  <2>1. UNCHANGED <<awaited, running>>
    BY <1>2 DEF Resync, InitialCheck
  <2>2. flow' = flow \/ (flow' \in Flows /\ flow'.at # "reload")
    <3>1. ASSUME NEW where \in {"trigger", "check"}, NEW b \in BOOLEAN
          PROVE  /\ [NoFlow EXCEPT !.at = where] \in Flows /\ [NoFlow EXCEPT !.at = where].at # "reload"
                 /\ [NoFlow EXCEPT !.at = where, !.storing = b] \in Flows
                 /\ [NoFlow EXCEPT !.at = where, !.storing = b].at # "reload"
      BY DEF NoFlow, Flows
    <3>2. CASE Resync
      BY <3>1, <3>2 DEF Resync
    <3>3. CASE InitialCheck
      <4>1. CASE flow.at = "idle"
        <5>1. (~stored) \in BOOLEAN
          OBVIOUS
        <5>2. (IF stored THEN "check" ELSE "trigger") \in {"trigger", "check"}
          OBVIOUS
        <5> QED
          BY <3>1, <3>3, <4>1, <5>1, <5>2 DEF InitialCheck
      <4> QED
        BY <3>3, <4>1 DEF InitialCheck
    <3> QED
      BY <1>2, <3>2, <3>3
  <2> QED
    BY <1>0, <1>c, <2>1, <2>2
<1>3. ASSUME FlowStep PROVE PollingInv'
  <2>1. CASE Triggered
    BY <1>a, <1>c, <2>1 DEF Triggered
  <2>2. CASE Checked
    BY <1>a, <1>b, <1>c, <2>2 DEF Checked
  <2>3. CASE Wait
    <3>1. CASE flow' = [flow EXCEPT !.at = "reload", !.limited = TRUE]
      <4>1. flow' \in Flows /\ flow'.limited
        BY <1>0, <3>1 DEF Flows
      <4> QED
        BY <1>0, <1>c, <2>3, <4>1 DEF Wait
    <3>2. CASE flow' = [flow EXCEPT !.at = "ask", !.polls = @ + 1]
      <4>1. flow.polls + 1 \in Nat
        BY <1>0 DEF Flows
      <4> QED
        BY <1>0, <1>a, <1>c, <2>3, <3>2, <4>1 DEF Wait
    <3> QED
      BY <2>3, <3>1, <3>2 DEF Wait
  <2>4. CASE Asked
    <3>1. flow' \in Flows /\ UNCHANGED <<running, awaited>> /\ (flow'.at = "reload" => ~running)
      BY <1>0, <2>4 DEF Asked, Flows
    <3> QED
      BY <1>0, <1>c, <3>1
  <2>5. CASE FlowFails \/ ReloadData
    BY <1>b, <1>c, <2>5 DEF FlowFails, ReloadData
  <2> QED
    BY <1>3, <2>1, <2>2, <2>3, <2>4, <2>5 DEF FlowStep
<1>4. ASSUME UNCHANGED <<awaited, flow>>, running => running' PROVE PollingInv'
  BY <1>0, <1>c, <1>4
<1>5. ASSUME Open \/ Close \/ KeyChanges \/ Refresh \/ Preview \/ UNCHANGED pollingVars PROVE PollingInv'
  <2>1. UNCHANGED <<awaited, flow, running>>
    BY <1>5 DEF Open, Close, KeyChanges, Refresh, Preview, pollingVars, resyncVars
  <2> QED
    BY <1>4, <2>1
<1>6. ASSUME NEW c \in chains, ChainStep(c) PROVE PollingInv'
  <2>1. UNCHANGED <<awaited, flow, running>>
    BY <1>6 DEF ChainStep, Fires, PollAgain, PollDone, resyncVars
  <2> QED
    BY <1>4, <2>1
<1>7. ASSUME NEW c \in calls, CallStep(c) PROVE PollingInv'
  <2>1. UNCHANGED <<awaited, flow>> /\ (running => running')
    <3>1. ASSUME StatusAnswered(c) \/ TracksAnswered(c) \/ RefreshFails(c) \/ AfterAnswered(c)
                 \/ PreviewAnswered(c)
          PROVE  UNCHANGED <<awaited, flow, running>>
      <4>1. CASE StatusAnswered(c)
        BY <4>1 DEF StatusAnswered, resyncVars
      <4>2. CASE TracksAnswered(c) \/ RefreshFails(c) \/ AfterAnswered(c)
        BY <4>2 DEF TracksAnswered, RefreshFails, AfterAnswered, resyncVars
      <4>3. CASE PreviewAnswered(c)
        BY <4>3 DEF PreviewAnswered, resyncVars
      <4> QED
        BY <3>1, <4>1, <4>2, <4>3
    <3>2. ASSUME RefreshAnswered(c)
          PROVE  UNCHANGED <<awaited, flow>> /\ (running' = running \/ running' = TRUE)
      BY <3>2 DEF RefreshAnswered, resyncVars
    <3>3. CASE RefreshAnswered(c)
      <4>1. CASE running' = running
        BY <3>2, <3>3, <4>1
      <4>2. CASE running' = TRUE
        BY <3>2, <3>3, <4>2
      <4> QED
        BY <3>2, <3>3, <4>1, <4>2
    <3> QED
      BY <1>7, <3>1, <3>3 DEF CallStep
  <2> QED
    BY <1>4, <2>1
<1> QED
  BY <1>1, <1>2, <1>3, <1>5, <1>6, <1>7 DEF PollingNext

(***************************************************************************)
(* useResync reloads the screen while the run it waits for goes on only    *)
(* when the limit of time ended the polling, however many polls there are. *)
(***************************************************************************)
THEOREM ReloadsAfterTheRun == PollingSpec => []ReloadFollowsTheRun
<1>1. PollingInit => PollingInv
  BY DEF PollingInit, PollingInv, NoFlow, Flows, ReloadFollowsTheRun
<1>2. PollingInv /\ [PollingNext]_pollingVars => PollingInv'
  BY PollingStep
<1>3. PollingInv => ReloadFollowsTheRun
  BY DEF PollingInv
<1> QED
  BY <1>1, <1>2, <1>3, PTL DEF PollingSpec
==============================================================================
