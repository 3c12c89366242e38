---------------------------- MODULE PostIndexProofs ----------------------------
(***************************************************************************)
(* Proofs about PostIndex, for collections of any length: the binary       *)
(* search, insertions and pages; and about the collections there are while *)
(* messages are processed (RealTimePosts).                                 *)
(*                                                                         *)
(* What the recursive function of the search computes is shown by a least  *)
(* counterexample, as natural numbers are well-founded: there is no least  *)
(* range on which the equation that defines it, or the result, is wrong.   *)
(***************************************************************************)
EXTENDS RealTimePosts, RealTimeProofs

--------------------------------------------------------------------------------
(* The recursion of the search. *)

Size(range) == range.max + 1 - range.min

\* The two halves are ranges, and smaller ones.
LEMMA HalvesAreSmaller ==
    ASSUME NEW list, Len(list) \in Nat, NEW range \in Ranges(list), range.min <= range.max,
           NEW guess, guess = (range.min + range.max) \div 2
    PROVE  /\ guess \in range.min..range.max
           /\ FromTo(NextHigher(guess), range.max) \in Ranges(list)
           /\ Size(FromTo(NextHigher(guess), range.max)) < Size(range)
           /\ FromTo(range.min, guess - 1) \in Ranges(list)
           /\ Size(FromTo(range.min, guess - 1)) < Size(range)
<1>1. /\ range.min \in 1..(Len(list) + 2) /\ range.max \in 0..Len(list)
  BY DEF Ranges
<1>2. guess \in range.min..range.max
  BY <1>1
<1> QED BY <1>1, <1>2 DEF Ranges, FromTo, Size, NextHigher

\* A turn of the loop depends on what the search does with smaller ranges.
LEMMA HalveDepends ==
    ASSUME NEW list, Len(list) \in Nat, NEW n, NEW range \in Ranges(list), NEW f, NEW g,
           \A r \in Ranges(list) : Size(r) < Size(range) => f[r] = g[r]
    PROVE  Halve(f, list, n, range) = Halve(g, list, n, range)
<1>1. CASE range.min > range.max
  BY <1>1 DEF Halve
<1>2. CASE ~(range.min > range.max)
  <2> DEFINE guess == (range.min + range.max) \div 2
             upper == FromTo(NextHigher(guess), range.max)
             lower == FromTo(range.min, guess - 1)
  <2>1. range.min <= range.max
    BY <1>2 DEF Ranges
  <2>2. f[upper] = g[upper] /\ f[lower] = g[lower]
    BY <2>1, HalvesAreSmaller
  <2> QED BY <2>2 DEF Halve
<1> QED BY <1>1, <1>2

\* What the search does with the ranges in R, as the equation that defines it says.
Solves(f, list, n, R) == f = [r \in R |-> Halve(f, list, n, r)]
SmallRanges(list, w) == {r \in Ranges(list) : Size(r) <= w}

\* If f solves it on the ranges that are smaller than some, it is solved on those too.
LEMMA SolutionExtends ==
    ASSUME NEW list, Len(list) \in Nat, NEW n, NEW w \in Nat, NEW f,
           \A r \in SmallRanges(list, w) : \A q \in Ranges(list) : Size(q) < Size(r) =>
               f[q] = Halve(f, list, n, q)
    PROVE  \E g : Solves(g, list, n, SmallRanges(list, w))
<1> DEFINE g == [r \in SmallRanges(list, w) |-> Halve(f, list, n, r)]
<1>0. \A r \in Ranges(list) : Size(r) \in Int
  BY DEF Ranges, Size
<1>1. \A r \in SmallRanges(list, w) : \A q \in Ranges(list) : Size(q) < Size(r) =>
          q \in SmallRanges(list, w)
  BY <1>0 DEF SmallRanges
<1>2. \A r \in SmallRanges(list, w) : \A q \in Ranges(list) : Size(q) < Size(r) => f[q] = g[q]
  BY <1>1
<1> HIDE DEF g
<1>3. ASSUME NEW r \in SmallRanges(list, w) PROVE Halve(f, list, n, r) = Halve(g, list, n, r)
  <2>1. r \in Ranges(list)
    BY DEF SmallRanges
  <2> QED BY <2>1, <1>2, HalveDepends
<1>4. g = [r \in SmallRanges(list, w) |-> Halve(g, list, n, r)]
  BY <1>3 DEF g
<1> QED BY <1>4 DEF Solves

\* The equation has a solution, on ranges of any size ...
LEMMA SearchIsDefined ==
    ASSUME NEW list, Len(list) \in Nat, NEW n, NEW w \in Nat
    PROVE  \E f : Solves(f, list, n, SmallRanges(list, w))
<1> DEFINE Bad == {v \in Nat : ~\E f : Solves(f, list, n, SmallRanges(list, v))}
<1>0. \A r \in Ranges(list) : Size(r) \in Int
  BY DEF Ranges, Size
<1>1. SUFFICES ASSUME Bad # {} PROVE FALSE
  OBVIOUS
<1>2. PICK v \in Bad : \A y \in Bad : v <= y
  <2>1. Bad \in SUBSET Nat
    OBVIOUS
  <2> HIDE DEF Bad
  <2> QED BY <2>1, <1>1, HasFirst
<1>3. CASE v = 0
  <2> DEFINE f == [r \in SmallRanges(list, 0) |-> Throws]
  <2>1. \A r \in Ranges(list) : Size(r) < 0 => r \in SmallRanges(list, 0) /\ r.min > r.max
    BY <1>0 DEF Ranges, Size, SmallRanges
  <2>2. \A r \in SmallRanges(list, 0) : \A q \in Ranges(list) : Size(q) < Size(r) => Size(q) < 0
    BY <1>0 DEF SmallRanges
  <2>3. \A q \in Ranges(list) : Size(q) < 0 => f[q] = Halve(f, list, n, q)
    BY <2>1 DEF Halve
  <2> HIDE DEF f
  <2>4. \E g : Solves(g, list, n, SmallRanges(list, 0))
    BY <2>2, <2>3, SolutionExtends
  <2> QED BY <2>4, <1>3
<1>4. CASE v # 0
  <2>1. v \in Nat /\ v - 1 \in Nat /\ ~(v <= v - 1)
    BY <1>4
  <2>2. v - 1 \notin Bad
    <3> HIDE DEF Bad
    <3> QED BY <2>1, <1>2
  <2>3. PICK f : Solves(f, list, n, SmallRanges(list, v - 1))
    BY <2>1, <2>2
  <2>4. \A r \in SmallRanges(list, v) : \A q \in Ranges(list) : Size(q) < Size(r) =>
            q \in SmallRanges(list, v - 1)
    BY <2>1, <1>0 DEF SmallRanges
  <2>5. \A q \in SmallRanges(list, v - 1) : f[q] = Halve(f, list, n, q)
    BY <2>3 DEF Solves
  <2>6. \E g : Solves(g, list, n, SmallRanges(list, v))
    BY <2>1, <2>4, <2>5, SolutionExtends
  <2> QED BY <2>6
<1> QED BY <1>3, <1>4

\* ... so that a search does what a turn of its loop does.
LEMMA SearchUnfolds ==
    ASSUME NEW list, Len(list) \in Nat, NEW n, NEW range \in Ranges(list)
    PROVE  Probes(list, n)[range] = Halve(Probes(list, n), list, n, range)
<1>1. \A r \in Ranges(list) : Size(r) <= Len(list)
  BY DEF Ranges, Size
<1>2. Ranges(list) = SmallRanges(list, Len(list))
  BY <1>1 DEF SmallRanges
<1>3. \E f : Solves(f, list, n, Ranges(list))
  BY <1>2, SearchIsDefined
<1>4. Probes(list, n) = CHOOSE f : Solves(f, list, n, Ranges(list))
  BY DEF Probes, Solves
<1>5. Solves(Probes(list, n), list, n, Ranges(list))
  BY <1>3, <1>4
<1> QED BY <1>5 DEF Solves

--------------------------------------------------------------------------------
(* The search finds what it is to find. *)

\* A collection that n is in, or in a gap of.
Spans(list, n) ==
    /\ list \in Seq(Int) /\ list # <<>> /\ Increasing(list)
    /\ n \in Int /\ list[1] <= n /\ n <= Last(list)

\* The posts left of a range are older than n and those right of it newer.  A collection of no more
\* than three is halved once, and never has no post left.
Encloses(list, n, r) ==
    /\ r \in Ranges(list)
    /\ r.min <= r.max + 1
    /\ r.min = 1 \/ list[r.min - 1] < n
    /\ r.max = Len(list) \/ n < list[r.max + 1]
    /\ Len(list) <= 3 => r.min = r.max \/ (r.min = 1 /\ r.max = Len(list))

IsRight(list, n, result) ==
    \/ /\ result.reason = "found"
       /\ result.index \in 1..Len(list) /\ list[result.index] = n
    \/ /\ result.reason = "after"
       /\ result.index \in 1..(Len(list) - 1)
       /\ list[result.index] < n /\ n < list[result.index + 1]
    \/ /\ result = Throws
       /\ Len(list) >= 4 /\ \A i \in 1..Len(list) : list[i] # n

LEMMA ElementsOf ==
    ASSUME NEW list \in Seq(Int)
    PROVE  /\ Len(list) \in Nat /\ DOMAIN list = 1..Len(list)
           /\ \A i \in 1..Len(list) : list[i] \in Int
           /\ list # <<>> => Len(list) >= 1
           /\ Len(list) >= 1 => list # <<>>
  OBVIOUS

\* If smaller ranges are searched right, so is this one.
LEMMA TurnIsRight ==
    ASSUME NEW list, NEW n, Spans(list, n), NEW r, Encloses(list, n, r), NEW f,
           \A q \in Ranges(list) : Encloses(list, n, q) /\ Size(q) < Size(r) => IsRight(list, n, f[q])
    PROVE  IsRight(list, n, Halve(f, list, n, r))
<1> DEFINE min == r.min
           max == r.max
           guess == (min + max) \div 2
           L == Len(list)
<1>1. /\ L \in Nat /\ L >= 1 /\ DOMAIN list = 1..L
      /\ \A i \in 1..L : list[i] \in Int
      /\ \A i, j \in 1..L : i < j => list[i] < list[j]
      /\ n \in Int /\ list[1] <= n /\ n <= list[L]
  BY ElementsOf DEF Spans, Increasing, Last
<1>2. /\ min \in 1..(L + 2) /\ max \in 0..L /\ min <= max + 1
      /\ min = 1 \/ list[min - 1] < n
      /\ max = L \/ n < list[max + 1]
      /\ L <= 3 => min = max \/ (min = 1 /\ max = L)
  BY DEF Encloses, Ranges
<1>3. CASE min > max
  <2>1. Halve(f, list, n, r) = Throws
    BY <1>3 DEF Halve
  <2>2. min = max + 1
    BY <1>2, <1>3
  <2>3. min # 1
    BY <2>2, <1>1, <1>2
  <2>4. max \in 1..L /\ list[max] < n
    BY <2>2, <2>3, <1>2
  <2>5. max # L
    BY <2>4, <1>1
  <2>6. max + 1 \in 1..L /\ n < list[max + 1]
    BY <2>4, <2>5, <1>1, <1>2
  <2>7. \A i \in 1..L : list[i] # n
    <3>1. SUFFICES ASSUME NEW i \in 1..L PROVE list[i] # n
      OBVIOUS
    <3>2. CASE i <= max
      <4>1. i = max \/ list[i] < list[max]
        BY <3>2, <2>4, <1>1
      <4> QED BY <4>1, <2>4, <1>1
    <3>3. CASE ~(i <= max)
      <4>1. i = max + 1 \/ max + 1 < i
        BY <3>3, <2>4
      <4>2. i = max + 1 \/ list[max + 1] < list[i]
        BY <4>1, <2>6, <1>1
      <4> QED BY <4>2, <2>6, <1>1
    <3> QED BY <3>2, <3>3
  <2>8. L >= 4
    BY <1>1, <1>2, <2>2, <2>3
  <2> QED BY <2>1, <2>7, <2>8 DEF IsRight
<1>4. CASE ~(min > max)
  <2>1. min <= max /\ max \in 1..L /\ min \in 1..L
    BY <1>4, <1>1, <1>2
  <2>2. guess \in min..max /\ guess \in 1..L
    BY <2>1
  <2>3. CASE list[guess] = n
    <3>1. Halve(f, list, n, r) = Found(guess)
      BY <2>3, <1>4 DEF Halve
    <3> QED BY <3>1, <2>2, <2>3 DEF IsRight, Found, Result
  <2>4. CASE list[guess] # n /\ min = max
    <3>1. Halve(f, list, n, r) = After(IF list[guess] < n THEN min ELSE min - 1)
      BY <2>4, <1>4 DEF Halve
    <3>2. guess = min
      BY <2>2, <2>4, <2>1
    <3>3. CASE list[min] < n
      <4>1. max # L
        BY <3>3, <2>4, <1>1
      <4>2. min \in 1..(L - 1) /\ n < list[min + 1]
        BY <4>1, <2>1, <2>4, <1>1, <1>2
      <4>3. Halve(f, list, n, r) = After(min)
        BY <3>1, <3>2, <3>3
      <4> HIDE DEF min
      <4> QED BY <4>2, <4>3, <3>3 DEF IsRight, After, Result
    <3>4. CASE ~(list[min] < n)
      <4>1. n < list[min]
        BY <3>4, <3>2, <2>4, <2>1, <1>1
      <4>2. min # 1
        BY <4>1, <1>1
      <4>3. min - 1 \in 1..(L - 1) /\ list[min - 1] < n /\ (min - 1) + 1 = min
        BY <4>2, <2>1, <1>1, <1>2
      <4>4. Halve(f, list, n, r) = After(min - 1)
        BY <3>1, <3>2, <3>4
      <4> HIDE DEF min
      <4> QED BY <4>1, <4>3, <4>4 DEF IsRight, After, Result
    <3> QED BY <3>3, <3>4
  <2>5. CASE list[guess] # n /\ min # max /\ list[guess] < n
    <3> DEFINE q == FromTo(NextHigher(guess), max)
    <3>1. Halve(f, list, n, r) = f[q]
      BY <2>5, <1>4 DEF Halve
    <3>2. q \in Ranges(list) /\ Size(q) < Size(r)
      BY <1>1, <2>1, HalvesAreSmaller DEF Encloses
    <3>3. q.min = guess + 1 /\ q.max = max
      BY DEF FromTo, NextHigher
    <3>4. q.min <= q.max + 1 /\ list[q.min - 1] < n /\ (q.max = L \/ n < list[q.max + 1])
      <4>1. q.min - 1 = guess /\ q.min <= q.max + 1
        BY <3>3, <2>2, <2>1
      <4> HIDE DEF q, guess
      <4> QED BY <4>1, <3>3, <2>5, <1>2
    <3>5. L <= 3 => q.min = q.max
      BY <3>3, <2>1, <2>5, <1>2
    <3>6. Encloses(list, n, q)
      BY <3>2, <3>4, <3>5 DEF Encloses
    <3> QED BY <3>1, <3>2, <3>6
  <2>6. CASE list[guess] # n /\ min # max /\ ~(list[guess] < n)
    <3> DEFINE q == FromTo(min, guess - 1)
    <3>1. Halve(f, list, n, r) = f[q]
      BY <2>6, <1>4 DEF Halve
    <3>2. q \in Ranges(list) /\ Size(q) < Size(r)
      BY <1>1, <2>1, HalvesAreSmaller DEF Encloses
    <3>3. q.min = min /\ q.max = guess - 1
      BY DEF FromTo
    <3>4. n < list[guess] /\ guess # 1
      BY <2>6, <2>2, <1>1
    <3>5. /\ q.min <= q.max + 1 /\ n < list[q.max + 1]
          /\ q.min = 1 \/ list[q.min - 1] < n
      <4>1. (guess - 1) + 1 = guess
        BY <2>2
      <4> QED BY <4>1, <3>3, <3>4, <2>2, <1>2
    <3>6. L <= 3 => q.min = q.max
      BY <3>3, <3>4, <2>1, <2>6, <1>2
    <3>7. Encloses(list, n, q)
      BY <3>2, <3>5, <3>6 DEF Encloses
    <3> QED BY <3>1, <3>2, <3>7
  <2> QED BY <2>3, <2>4, <2>5, <2>6
<1> QED BY <1>3, <1>4

LEMMA ProbesAreRight ==
    ASSUME NEW list, NEW n, Spans(list, n), NEW range, Encloses(list, n, range)
    PROVE  IsRight(list, n, Probes(list, n)[range])
<1> DEFINE Wrong == {r \in Ranges(list) : Encloses(list, n, r) /\ ~IsRight(list, n, Probes(list, n)[r])}
           Sizes == {Size(r) : r \in Wrong}
<1>1. Len(list) \in Nat
  BY ElementsOf DEF Spans
<1>2. SUFFICES ASSUME Wrong # {} PROVE FALSE
  BY DEF Encloses
<1>3. \A r \in Ranges(list) : Encloses(list, n, r) => Size(r) \in Nat
  BY <1>1 DEF Encloses, Ranges, Size
<1>4. Sizes \in SUBSET Nat /\ Sizes # {}
  BY <1>2, <1>3
<1>5. PICK w \in Sizes : \A v \in Sizes : w <= v
  <2> HIDE DEF Sizes
  <2> QED BY <1>4, HasFirst
<1>6. PICK r \in Wrong : Size(r) = w
  BY <1>5
<1>7. \A q \in Ranges(list) : Encloses(list, n, q) /\ Size(q) < Size(r) =>
          IsRight(list, n, Probes(list, n)[q])
  <2>1. SUFFICES ASSUME NEW q \in Ranges(list), Encloses(list, n, q), Size(q) < Size(r),
                        ~IsRight(list, n, Probes(list, n)[q])
                 PROVE  FALSE
    OBVIOUS
  <2>2. Size(q) \in Sizes
    BY <2>1
  <2>3. w <= Size(q) /\ Size(q) \in Nat /\ w \in Nat
    BY <2>2, <1>4, <1>5
  <2> QED BY <2>1, <2>3, <1>6
<1>8. IsRight(list, n, Halve(Probes(list, n), list, n, r))
  BY <1>6, <1>7, TurnIsRight
<1>9. Probes(list, n)[r] = Halve(Probes(list, n), list, n, r)
  BY <1>1, <1>6, SearchUnfolds
<1> QED BY <1>6, <1>8, <1>9

\* A search of any collection: outside of it, or right.
LEMMA SearchRight ==
    ASSUME NEW list \in Seq(Int), Increasing(list), NEW n \in Int
    PROVE  /\ ~Spans(list, n) => /\ Search(list, n) = OutOfRange
                                 /\ list = <<>> \/ n < list[1] \/ n > Last(list)
           /\ Spans(list, n) => IsRight(list, n, Search(list, n))
<1>1. list # <<>> => list[1] \in Int /\ Last(list) \in Int
  BY DEF Last
<1>2. CASE ~Spans(list, n)
  BY <1>1, <1>2 DEF Spans, Search
<1>3. CASE Spans(list, n)
  <2>1. Search(list, n) = Probes(list, n)[FromTo(1, Len(list))]
    BY <1>1, <1>3 DEF Spans, Search
  <2>2. Encloses(list, n, FromTo(1, Len(list)))
    BY <1>3, ElementsOf DEF Spans, Encloses, Ranges, FromTo
  <2> QED BY <2>1, <2>2, <1>3, ProbesAreRight
<1> QED BY <1>2, <1>3

--------------------------------------------------------------------------------
(* Collections: the posts of a set, in the order of their numbers. *)

Rank(S, n) == Cardinality({k \in S : k <= n})

LEMMA RankInRange ==
    ASSUME NEW S \in SUBSET Int, IsFiniteSet(S), NEW n \in S
    PROVE  Rank(S, n) \in 1..Cardinality(S)
<1> DEFINE T == {k \in S : k <= n}
<1>1. T \in SUBSET S /\ n \in T
  OBVIOUS
<1>2. Cardinality(S) \in Nat
  BY FS_CardinalityType
<1> HIDE DEF T
<1>3. IsFiniteSet(T) /\ Cardinality(T) <= Cardinality(S)
  BY <1>1, FS_Subset
<1>4. Cardinality(T) \in Nat
  BY <1>3, FS_CardinalityType
<1>5. Cardinality(T) # 0
  BY <1>1, <1>3, FS_EmptySet
<1>6. Cardinality(T) \in 1..Cardinality(S)
  BY <1>2, <1>3, <1>4, <1>5
<1> QED BY <1>6 DEF Rank, T

LEMMA RankGrows ==
    ASSUME NEW S \in SUBSET Int, IsFiniteSet(S), NEW m \in S, NEW n \in S, m < n
    PROVE  Rank(S, m) < Rank(S, n)
<1> DEFINE T == {k \in S : k <= m}
           U == {k \in S : k <= n}
<1>1. T \in SUBSET U /\ n \in U /\ n \notin T /\ U \in SUBSET S
  <2>1. m \in Int /\ n \in Int /\ \A k \in S : k \in Int
    OBVIOUS
  <2>2. \A k \in S : k <= m => k <= n
    BY <2>1
  <2>3. ~(n <= m)
    BY <2>1
  <2>4. T \in SUBSET U
    BY <2>2
  <2> QED BY <2>1, <2>3, <2>4
<1> HIDE DEF T, U
<1>2. IsFiniteSet(U)
  BY <1>1, FS_Subset
<1>3. IsFiniteSet(T) /\ Cardinality(T) <= Cardinality(U) /\ Cardinality(T) # Cardinality(U)
  BY <1>1, <1>2, FS_Subset
<1>4. Cardinality(T) \in Nat /\ Cardinality(U) \in Nat
  BY <1>2, <1>3, FS_CardinalityType
<1>5. Cardinality(T) < Cardinality(U)
  BY <1>3, <1>4
<1> QED BY <1>5 DEF Rank, T, U

\* Every place has a post.
LEMMA RanksAreTaken ==
    ASSUME NEW S \in SUBSET Int, IsFiniteSet(S), NEW i \in 1..Cardinality(S)
    PROVE  \E n \in S : Rank(S, n) = i
<1> DEFINE f == [n \in S |-> Rank(S, n)]
           c == Cardinality(S)
<1>1. c \in Nat
  BY FS_CardinalityType
<1>2. f \in [S -> 1..c]
  BY RankInRange
<1>3. \A m, n \in S : f[m] = f[n] => m = n
  <2>1. SUFFICES ASSUME NEW m \in S, NEW n \in S, m # n PROVE Rank(S, m) # Rank(S, n)
    OBVIOUS
  <2>2. Rank(S, m) \in Int /\ Rank(S, n) \in Int
    BY RankInRange
  <2>3. m < n \/ n < m
    BY <2>1
  <2>4. CASE m < n
    BY <2>4, <2>2, RankGrows
  <2>5. CASE n < m
    BY <2>5, <2>2, RankGrows
  <2> QED BY <2>3, <2>4, <2>5
<1>4. f \in Injection(S, 1..c)
  BY <1>2, <1>3 DEF Injection, IsInjective
<1>5. IsFiniteSet(1..c) /\ Cardinality(1..c) = c
  BY <1>1, FS_Interval
<1> HIDE DEF f
<1>6. f \in Surjection(S, 1..c)
  BY <1>4, <1>5, FS_Injection
<1>7. \E n \in S : f[n] = i
  BY <1>6 DEF Surjection
<1> QED BY <1>7 DEF f

\* A collection has the posts of its set, each once, in order.
LEMMA SortedProperties ==
    ASSUME NEW S \in SUBSET Int, IsFiniteSet(S)
    PROVE  /\ Sorted(S) \in Seq(Int) /\ Len(Sorted(S)) = Cardinality(S)
           /\ Range(Sorted(S)) = S
           /\ Increasing(Sorted(S))
<1> DEFINE c == Cardinality(S)
           list == Sorted(S)
<1>1. c \in Nat
  BY FS_CardinalityType
<1>2. list = [i \in 1..c |-> CHOOSE n \in S : Rank(S, n) = i]
  BY DEF Sorted, Rank
<1>3. \A i \in 1..c : list[i] \in S /\ Rank(S, list[i]) = i
  BY <1>2, RanksAreTaken
<1>4. list \in [1..c -> Int] /\ DOMAIN list = 1..c
  BY <1>2, <1>3
<1> HIDE DEF list
<1>5. list \in Seq(Int) /\ Len(list) = c
  BY <1>1, <1>4
<1>6. Increasing(list)
  <2>1. SUFFICES ASSUME NEW i \in 1..c, NEW j \in 1..c, i < j, ~(list[i] < list[j]) PROVE FALSE
    BY <1>4 DEF Increasing
  <2>2. /\ list[i] \in S /\ Rank(S, list[i]) = i
        /\ list[j] \in S /\ Rank(S, list[j]) = j
    BY <1>3
  <2>3. list[i] \in Int /\ list[j] \in Int
    BY <2>2
  <2>4. list[i] # list[j]
    BY <2>1, <2>2
  <2>5. list[j] < list[i]
    BY <2>1, <2>3, <2>4
  <2>6. j < i
    BY <2>2, <2>5, RankGrows
  <2> QED BY <2>1, <2>6
<1>7. Range(list) = S
  <2>1. ASSUME NEW n \in S PROVE \E i \in 1..c : list[i] = n
    <3>1. Rank(S, n) \in 1..c
      BY RankInRange
    <3> DEFINE m == list[Rank(S, n)]
    <3>2. m \in S /\ Rank(S, m) = Rank(S, n)
      BY <3>1, <1>3
    <3> HIDE DEF m
    <3>3. ~(m < n) /\ ~(n < m)
      <4>1. Rank(S, n) \in Int
        BY <3>1
      <4> QED BY <4>1, <3>2, RankGrows
    <3>4. m = n
      BY <3>2, <3>3
    <3> QED BY <3>1, <3>4 DEF m
  <2> QED BY <2>1, <1>3, <1>4 DEF Range
<1> QED BY <1>5, <1>6, <1>7 DEF list

\* There is no other sequence in order of the same posts.
LEMMA SortedUnique ==
    ASSUME NEW list \in Seq(Int), Increasing(list)
    PROVE  list = Sorted(Range(list))
<1> DEFINE S == Range(list)
           L == Len(list)
<1>1. /\ L \in Nat /\ DOMAIN list = 1..L /\ list = [i \in 1..L |-> list[i]]
      /\ \A i \in 1..L : list[i] \in Int
      /\ \A i, j \in 1..L : i < j => list[i] < list[j]
  BY ElementsOf DEF Increasing
<1>2. S = {list[i] : i \in 1..L} /\ S \in SUBSET Int
  BY <1>1 DEF Range
<1> HIDE DEF S
<1>3. ASSUME NEW i \in 0..L PROVE IsFiniteSet({list[j] : j \in 1..i}) /\ Cardinality({list[j] : j \in 1..i}) = i
  <2> DEFINE T == {list[j] : j \in 1..i}
             f == [j \in 1..i |-> list[j]]
  <2>1. IsFiniteSet(1..i) /\ Cardinality(1..i) = i
    BY FS_Interval
  <2>2. f \in Surjection(1..i, T)
    BY DEF Surjection
  <2>3. f \in Injection(1..i, T)
    <3>1. \A j, k \in 1..i : list[j] = list[k] => j = k
      <4>1. SUFFICES ASSUME NEW j \in 1..i, NEW k \in 1..i, j # k PROVE list[j] # list[k]
        OBVIOUS
      <4>2. j \in 1..L /\ k \in 1..L /\ (j < k \/ k < j)
        BY <4>1, <1>1
      <4> QED BY <4>2, <1>1
    <3> QED BY <3>1 DEF Injection, IsInjective
  <2> HIDE DEF T, f
  <2>4. IsFiniteSet(T) /\ Cardinality(T) = Cardinality(1..i)
    BY <2>1, <2>2, <2>3, FS_Surjection
  <2> QED BY <2>1, <2>4 DEF T
<1>4. IsFiniteSet(S) /\ Cardinality(S) = L
  <2>1. L \in 0..L
    BY <1>1
  <2> QED BY <2>1, <1>2, <1>3
<1>5. ASSUME NEW i \in 1..L PROVE Rank(S, list[i]) = i
  <2>1. {k \in S : k <= list[i]} = {list[j] : j \in 1..i}
    <3>1. ASSUME NEW j \in 1..L PROVE list[j] <= list[i] <=> j <= i
      <4>1. j < i \/ j = i \/ i < j
        BY <3>1
      <4> QED BY <4>1, <1>1
    <3>2. ASSUME NEW k \in S, k <= list[i] PROVE k \in {list[j] : j \in 1..i}
      <4>1. PICK j \in 1..L : k = list[j]
        BY <1>2
      <4>2. j \in 1..i
        BY <4>1, <3>1, <3>2
      <4> QED BY <4>1, <4>2
    <3>3. ASSUME NEW j \in 1..i PROVE list[j] \in S /\ list[j] <= list[i]
      <4>1. j \in 1..L /\ j <= i
        BY <1>1
      <4> QED BY <4>1, <3>1, <1>2
    <3> QED BY <3>2, <3>3
  <2>2. i \in 0..L
    BY <1>1
  <2> QED BY <2>1, <2>2, <1>3 DEF Rank
<1>6. ASSUME NEW i \in 1..L PROVE list[i] = CHOOSE n \in S : Rank(S, n) = i
  <2>1. list[i] \in S /\ Rank(S, list[i]) = i
    BY <1>2, <1>5
  <2>2. ASSUME NEW n \in S, Rank(S, n) = i PROVE n = list[i]
    <3>1. PICK j \in 1..L : n = list[j]
      BY <1>2
    <3> QED BY <3>1, <2>2, <1>5
  <2> QED BY <2>1, <2>2
<1>7. Sorted(S) = [i \in 1..L |-> CHOOSE n \in S : Rank(S, n) = i]
  BY <1>4 DEF Sorted, Rank
<1>8. Sorted(S) = [i \in 1..L |-> list[i]]
  BY <1>6, <1>7
<1> QED BY <1>1, <1>8 DEF S

--------------------------------------------------------------------------------
(* Searches and insertions. *)

LEMMA SearchIsRightForAll ==
    ASSUME NEW list \in Seq(Int), Increasing(list), NEW n \in Int
    PROVE  SearchIsRight(list, n)
<1> DEFINE result == Search(list, n)
           L == Len(list)
<1>1. /\ L \in Nat /\ DOMAIN list = 1..L
      /\ \A i \in 1..L : list[i] \in Int
      /\ \A i, j \in 1..L : i < j => list[i] < list[j]
      /\ L >= 1 <=> list # <<>>
  BY ElementsOf DEF Increasing
<1>2. Range(list) = {list[i] : i \in 1..L}
  BY <1>1 DEF Range
<1>3. CASE ~Spans(list, n)
  <2>1. result = OutOfRange /\ (list = <<>> \/ n < list[1] \/ n > Last(list))
    BY <1>3, SearchRight
  <2>2. n \notin Range(list)
    <3>1. SUFFICES ASSUME NEW i \in 1..L, n = list[i] PROVE FALSE
      BY <1>2
    <3> HIDE DEF result
    <3>2. L \in Nat
      BY <1>1
    <3>3. 1 \in 1..L /\ L \in 1..L /\ L >= 1 /\ (1 = i \/ 1 < i) /\ (i = L \/ i < L)
      BY <3>2
    <3>4. list[1] = list[i] \/ list[1] < list[i]
      BY <3>3, <1>1
    <3>5. list[i] = list[L] \/ list[i] < list[L]
      BY <3>3, <1>1
    <3>6. list[1] \in Int /\ list[L] \in Int /\ list[i] \in Int
      BY <3>3, <1>1
    <3>7. ~(n < list[1]) /\ ~(n > list[L])
      BY <3>1, <3>4, <3>5, <3>6
    <3>8. list # <<>>
      BY <3>3, <1>1
    <3> QED BY <2>1, <3>7, <3>8 DEF Last
  <2> HIDE DEF result
  <2>3. /\ n \in Range(list) => result.reason = "found" /\ list[result.index] = n
        /\ n \notin Range(list) =>
            \/ result.reason = "after" /\ list[result.index] < n /\ n < list[result.index + 1]
            \/ result = OutOfRange /\ (list = <<>> \/ n < list[1] \/ n > Last(list))
            \/ result = Throws /\ Len(list) >= 4
    BY <2>1, <2>2
  <2> QED BY <2>3 DEF SearchIsRight, result
<1>4. CASE Spans(list, n)
  <2>1. IsRight(list, n, result)
    BY <1>4, SearchRight
  <2> HIDE DEF result
  <2>2. CASE /\ result.reason = "found"
             /\ result.index \in 1..Len(list) /\ list[result.index] = n
    <3>1. n \in Range(list)
      BY <2>2, <1>2
    <3> QED BY <3>1, <2>2 DEF SearchIsRight, result
  <2>3. CASE /\ result.reason = "after"
             /\ result.index \in 1..(Len(list) - 1)
             /\ list[result.index] < n /\ n < list[result.index + 1]
    <3> DEFINE i == result.index
    <3>1. \A j \in 1..L : list[j] # n
      <4>1. SUFFICES ASSUME NEW j \in 1..L PROVE list[j] # n
        OBVIOUS
      <4>2. L \in Nat /\ i \in 1..(L - 1)
        BY <2>3, <1>1
      <4>3. list[i] < n /\ n < list[i + 1]
        BY <2>3
      <4> HIDE DEF i
      <4>4. i \in 1..L /\ i + 1 \in 1..L /\ (j = i \/ j < i \/ j = i + 1 \/ i + 1 < j)
        BY <4>2
      <4>5. list[j] = list[i] \/ list[j] < list[i] \/ list[j] = list[i + 1] \/ list[i + 1] < list[j]
        BY <4>4, <1>1
      <4>6. list[i] \in Int /\ list[i + 1] \in Int /\ list[j] \in Int
        BY <4>4, <1>1
      <4> QED BY <4>3, <4>5, <4>6
    <3>2. n \notin Range(list)
      BY <3>1, <1>2
    <3> QED BY <3>2, <2>3 DEF SearchIsRight, result
  <2>4. CASE result = Throws /\ Len(list) >= 4 /\ \A i \in 1..Len(list) : list[i] # n
    <3>1. n \notin Range(list)
      BY <2>4, <1>2
    <3> QED BY <3>1, <2>4 DEF SearchIsRight, result
  <2> QED BY <2>1, <2>2, <2>3, <2>4 DEF IsRight
<1> QED BY <1>3, <1>4

\* A post between its neighbours keeps the order.
LEMMA InsertKeepsOrder ==
    ASSUME NEW list \in Seq(Int), Increasing(list), NEW n \in Int, NEW i \in 1..(Len(list) - 1),
           list[i] < n, n < list[i + 1]
    PROVE  /\ Insert(list, i, n) \in Seq(Int)
           /\ Increasing(Insert(list, i, n))
           /\ Range(Insert(list, i, n)) = Range(list) \cup {n}
<1> DEFINE L == Len(list)
           new == Insert(list, i, n)
<1>1. /\ L \in Nat /\ DOMAIN list = 1..L
      /\ \A j \in 1..L : list[j] \in Int
      /\ \A j, k \in 1..L : j < k => list[j] < list[k]
  BY ElementsOf DEF Increasing
<1>2. i \in 1..L /\ i + 1 \in 1..L /\ i \in Int
  BY <1>1
<1>3. /\ SubSeq(list, 1, i) \in Seq(Int) /\ Len(SubSeq(list, 1, i)) = i
      /\ \A j \in 1..i : SubSeq(list, 1, i)[j] = list[j]
  <2>1. \A j \in 1..i : list[j] \in Int
    BY <1>1, <1>2
  <2>2. /\ SubSeq(list, 1, i) \in Seq(Int)
        /\ Len(SubSeq(list, 1, i)) = IF 1 <= i THEN i - 1 + 1 ELSE 0
        /\ \A j \in 1..(i - 1 + 1) : SubSeq(list, 1, i)[j] = list[1 + j - 1]
    BY <2>1, <1>2, SubSeqProperties
  <2>3. i - 1 + 1 = i /\ 1 <= i /\ \A j \in 1..i : 1 + j - 1 = j
    BY <1>2
  <2> QED BY <2>2, <2>3
<1>4. /\ SubSeq(list, i + 1, L) \in Seq(Int) /\ Len(SubSeq(list, i + 1, L)) = L - i
      /\ \A j \in 1..(L - i) : SubSeq(list, i + 1, L)[j] = list[i + j]
  <2>1. \A j \in (i + 1)..L : list[j] \in Int
    BY <1>1, <1>2
  <2>2. /\ SubSeq(list, i + 1, L) \in Seq(Int)
        /\ Len(SubSeq(list, i + 1, L)) = IF i + 1 <= L THEN L - (i + 1) + 1 ELSE 0
        /\ \A j \in 1..(L - (i + 1) + 1) : SubSeq(list, i + 1, L)[j] = list[(i + 1) + j - 1]
    BY <2>1, <1>1, <1>2, SubSeqProperties
  <2>3. L - (i + 1) + 1 = L - i /\ i + 1 <= L /\ \A j \in 1..(L - i) : (i + 1) + j - 1 = i + j
    BY <1>1, <1>2
  <2> QED BY <2>2, <2>3
<1>5. /\ new \in Seq(Int) /\ Len(new) = L + 1 /\ DOMAIN new = 1..(L + 1)
      /\ \A j \in 1..i : new[j] = list[j]
      /\ new[i + 1] = n
      /\ \A j \in (i + 2)..(L + 1) : new[j] = list[j - 1]
  <2> DEFINE a == SubSeq(list, 1, i)
             b == SubSeq(list, i + 1, L)
  <2>1. new = a \o <<n>> \o b
    BY DEF Insert
  <2> HIDE DEF a, b, new
  <2>2. a \in Seq(Int) /\ Len(a) = i /\ b \in Seq(Int) /\ Len(b) = L - i
    BY <1>3, <1>4 DEF a, b
  <2> DEFINE front == a \o <<n>>
  <2>a. L \in Nat /\ i \in 1..L
    BY <1>1, <1>2
  <2>b. /\ front \in Seq(Int) /\ Len(front) = i + 1
        /\ \A j \in 1..i : front[j] = a[j]
        /\ front[i + 1] = n
    <3>1. /\ <<n>> \in Seq(Int) /\ Len(<<n>>) = 1 /\ <<n>>[1] = n
      OBVIOUS
    <3>2. /\ front \in Seq(Int) /\ Len(front) = Len(a) + Len(<<n>>)
          /\ \A j \in 1..(Len(a) + Len(<<n>>)) : front[j] = IF j <= Len(a) THEN a[j] ELSE <<n>>[j - Len(a)]
      BY <2>2, <3>1, ConcatProperties
    <3> HIDE DEF front
    <3>3. \A j \in 1..i : j \in 1..(i + 1) /\ j <= i
      BY <2>a
    <3>4. i + 1 \in 1..(i + 1) /\ ~(i + 1 <= i) /\ (i + 1) - i = 1
      BY <2>a
    <3> QED BY <2>2, <3>1, <3>2, <3>3, <3>4
  <2>c. new = front \o b
    BY <2>1
  <2> HIDE DEF front
  <2>d. /\ new \in Seq(Int) /\ Len(new) = (i + 1) + (L - i)
        /\ \A j \in 1..((i + 1) + (L - i)) : new[j] = IF j <= i + 1 THEN front[j] ELSE b[j - (i + 1)]
    <3>1. /\ front \o b \in Seq(Int) /\ Len(front \o b) = Len(front) + Len(b)
          /\ \A j \in 1..(Len(front) + Len(b)) :
                 (front \o b)[j] = IF j <= Len(front) THEN front[j] ELSE b[j - Len(front)]
      <4>1. front \in Seq(Int) /\ b \in Seq(Int)
        BY <2>b, <2>2
      <4> QED BY <4>1, ConcatProperties
    <3>2. Len(front) = i + 1 /\ Len(b) = L - i
      BY <2>b, <2>2
    <3> QED BY <3>1, <3>2, <2>c
  <2>e. /\ \A j \in 1..(i + 1) : new[j] = front[j]
        /\ \A j \in (i + 2)..(L + 1) : new[j] = b[j - (i + 1)]
    <3>1. \A j \in 1..(i + 1) : j \in 1..((i + 1) + (L - i)) /\ j <= i + 1
      BY <2>a
    <3>2. \A j \in (i + 2)..(L + 1) : j \in 1..((i + 1) + (L - i)) /\ ~(j <= i + 1)
      BY <2>a
    <3> QED BY <3>1, <3>2, <2>d
  <2>3. new \in Seq(Int) /\ Len(new) = L + 1 /\ DOMAIN new = 1..(L + 1)
    <3>1. (i + 1) + (L - i) = L + 1
      BY <2>a
    <3>2. DOMAIN new = 1..Len(new)
      BY <2>d
    <3> QED BY <3>1, <3>2, <2>d
  <2>4. \A j \in 1..i : new[j] = a[j]
    BY <2>b, <2>e, <2>a
  <2>5. new[i + 1] = n
    <3>1. i + 1 \in 1..(i + 1)
      BY <2>a
    <3> QED BY <3>1, <2>b, <2>e
  <2>6. \A j \in (i + 2)..(L + 1) : new[j] = b[j - i - 1]
    <3>1. \A j \in (i + 2)..(L + 1) : j - (i + 1) = j - i - 1
      BY <2>a
    <3> QED BY <3>1, <2>e
  <2>7. \A j \in (i + 2)..(L + 1) : j - i - 1 \in 1..(L - i) /\ i + (j - i - 1) = j - 1
    BY <1>1, <1>2
  <2> QED BY <2>3, <2>4, <2>5, <2>6, <2>7, <1>3, <1>4 DEF a, b
<1> HIDE DEF new
<1>6. Increasing(new)
  <2>1. SUFFICES ASSUME NEW j \in 1..(L + 1), NEW k \in 1..(L + 1), j < k PROVE new[j] < new[k]
    BY <1>5 DEF Increasing
  <2>2. CASE k <= i
    <3>1. j \in 1..i /\ k \in 1..i /\ j \in 1..L /\ k \in 1..L
      BY <2>1, <2>2, <1>2
    <3> QED BY <3>1, <2>1, <1>1, <1>5
  <2>3. CASE j <= i /\ k = i + 1
    <3>1. j \in 1..i /\ j \in 1..L /\ (j = i \/ j < i)
      BY <2>3, <1>2
    <3>2. list[j] = list[i] \/ list[j] < list[i]
      BY <3>1, <1>1, <1>2
    <3>4. list[j] \in Int /\ list[i] \in Int
      BY <3>1, <1>1, <1>2
    <3>3. list[j] < n
      BY <3>2, <3>4
    <3> QED BY <3>1, <3>3, <2>3, <1>5
  <2>4. CASE j <= i /\ k > i + 1
    <3>1. /\ j \in 1..i /\ j \in 1..L /\ k \in (i + 2)..(L + 1)
          /\ k - 1 \in 1..L /\ j < k - 1
      BY <2>4, <1>1, <1>2
    <3> QED BY <3>1, <1>1, <1>5
  <2>5. CASE j = i + 1 /\ k > i + 1
    <3>1. /\ k \in (i + 2)..(L + 1) /\ k - 1 \in 1..L /\ (i + 1 = k - 1 \/ i + 1 < k - 1)
      BY <2>5, <1>1, <1>2
    <3>2. list[i + 1] = list[k - 1] \/ list[i + 1] < list[k - 1]
      BY <3>1, <1>1, <1>2
    <3>4. list[i + 1] \in Int /\ list[k - 1] \in Int
      BY <3>1, <1>1, <1>2
    <3>3. n < list[k - 1]
      BY <3>2, <3>4
    <3> QED BY <3>1, <3>3, <2>5, <1>5
  <2>6. CASE j > i + 1
    <3>1. /\ j \in (i + 2)..(L + 1) /\ k \in (i + 2)..(L + 1)
          /\ j - 1 \in 1..L /\ k - 1 \in 1..L /\ j - 1 < k - 1
      BY <2>1, <2>6, <1>1, <1>2
    <3> QED BY <3>1, <1>1, <1>5
  <2>7. \/ k <= i \/ (j <= i /\ k = i + 1) \/ (j <= i /\ k > i + 1)
        \/ (j = i + 1 /\ k > i + 1) \/ j > i + 1
    BY <2>1, <1>2
  <2> QED BY <2>2, <2>3, <2>4, <2>5, <2>6, <2>7
<1>7. Range(new) = Range(list) \cup {n}
  <2>1. Range(new) = {new[j] : j \in 1..(L + 1)} /\ Range(list) = {list[j] : j \in 1..L}
    BY <1>1, <1>5 DEF Range
  <2>2. ASSUME NEW j \in 1..(L + 1) PROVE new[j] \in Range(list) \cup {n}
    <3>1. j \in 1..i \/ j = i + 1 \/ j \in (i + 2)..(L + 1)
      BY <1>1, <1>2
    <3>2. j \in 1..i => j \in 1..L
      BY <1>1, <1>2
    <3>3. j \in (i + 2)..(L + 1) => j - 1 \in 1..L
      BY <1>1, <1>2
    <3> QED BY <3>1, <3>2, <3>3, <2>1, <1>5
  <2>3. ASSUME NEW j \in 1..L PROVE list[j] \in Range(new)
    <3>1. CASE j <= i
      <4>1. j \in 1..i /\ j \in 1..(L + 1)
        BY <3>1, <1>1, <1>2
      <4> QED BY <4>1, <2>1, <1>5
    <3>2. CASE ~(j <= i)
      <4>1. j + 1 \in (i + 2)..(L + 1) /\ j + 1 \in 1..(L + 1) /\ (j + 1) - 1 = j
        BY <3>2, <1>1, <1>2
      <4> QED BY <4>1, <2>1, <1>5
    <3> QED BY <3>1, <3>2
  <2>4. n \in Range(new)
    <3>1. i + 1 \in 1..(L + 1)
      BY <1>1, <1>2
    <3> QED BY <3>1, <2>1, <1>5
  <2> QED BY <2>1, <2>2, <2>3, <2>4
<1> QED BY <1>5, <1>6, <1>7 DEF new

\* So does one that is newer than all.
LEMMA AppendKeepsOrder ==
    ASSUME NEW list \in Seq(Int), Increasing(list), NEW n \in Int,
           list # <<>> => Last(list) < n
    PROVE  /\ Append(list, n) \in Seq(Int)
           /\ Increasing(Append(list, n))
           /\ Range(Append(list, n)) = Range(list) \cup {n}
<1> DEFINE L == Len(list)
           new == Append(list, n)
<1>1. /\ L \in Nat /\ DOMAIN list = 1..L
      /\ \A j \in 1..L : list[j] \in Int
      /\ \A j, k \in 1..L : j < k => list[j] < list[k]
      /\ L >= 1 => list[L] < n
  BY ElementsOf DEF Increasing, Last
<1>2. /\ new \in Seq(Int) /\ Len(new) = L + 1 /\ DOMAIN new = 1..(L + 1)
      /\ \A j \in 1..L : new[j] = list[j]
      /\ new[L + 1] = n
  BY <1>1
<1> HIDE DEF new
<1>3. Increasing(new)
  <2>1. SUFFICES ASSUME NEW j \in 1..(L + 1), NEW k \in 1..(L + 1), j < k PROVE new[j] < new[k]
    BY <1>2 DEF Increasing
  <2>2. j \in 1..L /\ (k \in 1..L \/ k = L + 1)
    BY <2>1, <1>1
  <2>3. L \in 1..L /\ L >= 1 /\ (j = L \/ j < L)
    <3>1. L \in Nat
      BY <1>1
    <3> QED BY <3>1, <2>2
  <2>4. list[j] = list[L] \/ list[j] < list[L]
    BY <2>2, <2>3, <1>1
  <2>5. list[j] < n
    <3>1. list[j] \in Int /\ list[L] \in Int /\ list[L] < n
      BY <2>2, <2>3, <1>1
    <3> QED BY <3>1, <2>4
  <2> QED BY <2>1, <2>2, <2>5, <1>1, <1>2
<1>4. Range(new) = Range(list) \cup {n}
  <2>1. Range(new) = {new[j] : j \in 1..(L + 1)} /\ Range(list) = {list[j] : j \in 1..L}
    BY <1>1, <1>2 DEF Range
  <2>2. 1..(L + 1) = (1..L) \cup {L + 1}
    BY <1>1
  <2>3. {new[j] : j \in 1..L} = {list[j] : j \in 1..L}
    BY <1>2
  <2>4. {new[j] : j \in 1..(L + 1)} = {new[j] : j \in 1..L} \cup {new[L + 1]}
    BY <2>2
  <2> QED BY <2>1, <2>3, <2>4, <1>2
<1> QED BY <1>2, <1>3, <1>4 DEF new

\* updateOrInsert() leaves the collection, or adds the post to it where it belongs.
LEMMA UpdateOrInsertAdds ==
    ASSUME NEW list \in Seq(Int), Increasing(list), NEW n \in Int
    PROVE  /\ UpdateOrInsert(list, n) \in Seq(Int)
           /\ Increasing(UpdateOrInsert(list, n))
           /\ \/ Range(UpdateOrInsert(list, n)) = Range(list) \cup {n}
              \/ /\ UpdateOrInsert(list, n) = list /\ n \notin Range(list)
                 /\ Search(list, n) = Throws \/ (list # <<>> /\ n < list[1])
<1> DEFINE result == Search(list, n)
<1>1. CASE list = <<>> \/ n > Last(list)
  <2>1. UpdateOrInsert(list, n) = Append(list, n)
    BY <1>1 DEF UpdateOrInsert
  <2>2. list # <<>> => Last(list) < n
    BY <1>1, ElementsOf DEF Last
  <2> QED BY <2>1, <2>2, AppendKeepsOrder
<1>2. CASE ~(list = <<>> \/ n > Last(list))
  <2>1. list # <<>> /\ Last(list) \in Int /\ list[1] \in Int
    BY <1>2, ElementsOf DEF Last
  <2>2. UpdateOrInsert(list, n) = IF result.reason = "after" THEN Insert(list, result.index, n) ELSE list
    BY <1>2 DEF UpdateOrInsert
  <2>3. CASE n < list[1]
    <3>1. result = OutOfRange
      BY <2>3, <2>1, SearchRight DEF Spans
    <3>2. result.reason # "after"
      BY <3>1 DEF OutOfRange, Result
    <3> HIDE DEF result
    <3>3. UpdateOrInsert(list, n) = list
      BY <3>2, <2>2
    <3>4. n \in Range(list) => Range(list) = Range(list) \cup {n}
      OBVIOUS
    <3> QED BY <3>3, <3>4, <2>1, <2>3
  <2>4. CASE ~(n < list[1])
    <3>1. Spans(list, n)
      BY <1>2, <2>1, <2>4 DEF Spans
    <3>2. IsRight(list, n, result)
      BY <3>1, SearchRight
    <3>3. Search(list, n) = result
      OBVIOUS
    <3> HIDE DEF result
    <3>4. CASE /\ result.reason = "found"
               /\ result.index \in 1..Len(list) /\ list[result.index] = n
      <4>1. UpdateOrInsert(list, n) = list
        BY <3>4, <2>2
      <4>2. n \in Range(list)
        BY <3>4, ElementsOf DEF Range
      <4>3. Range(list) = Range(list) \cup {n}
        BY <4>2
      <4> QED BY <4>1, <4>3
    <3>5. CASE /\ result.reason = "after"
               /\ result.index \in 1..(Len(list) - 1)
               /\ list[result.index] < n /\ n < list[result.index + 1]
      <4>1. UpdateOrInsert(list, n) = Insert(list, result.index, n)
        BY <3>5, <2>2
      <4> QED BY <4>1, <3>5, InsertKeepsOrder
    <3>6. CASE result = Throws /\ Len(list) >= 4 /\ \A i \in 1..Len(list) : list[i] # n
      <4>1. result.reason # "after"
        BY <3>6 DEF Throws, Result
      <4>2. UpdateOrInsert(list, n) = list
        BY <4>1, <2>2
      <4>3. n \notin Range(list)
        BY <3>6, ElementsOf DEF Range
      <4> QED BY <4>2, <4>3, <3>3, <3>6
    <3> QED BY <3>2, <3>4, <3>5, <3>6 DEF IsRight
  <2> QED BY <2>3, <2>4
<1> QED BY <1>1, <1>2

LEMMA InsertIsRightForAll ==
    ASSUME NEW list \in Seq(Int), Increasing(list), NEW n \in Int
    PROVE  InsertIsRight(list, n)
<1> DEFINE result == UpdateOrInsert(list, n)
<1>1. /\ Increasing(result)
      /\ \/ Range(result) = Range(list) \cup {n}
         \/ result = list /\ (Search(list, n) = Throws \/ n < list[1])
  BY UpdateOrInsertAdds
<1> HIDE DEF result
<1>2. /\ Increasing(result)
      /\ Range(list) \subseteq Range(result) /\ Range(result) \subseteq Range(list) \cup {n}
      /\ n \in Range(result) \/ n < list[1] \/ Search(list, n) = Throws
  BY <1>1
<1> QED BY <1>2 DEF InsertIsRight, result

--------------------------------------------------------------------------------
(* Pages. *)

\* The search finds each post of a collection at its place.
LEMMA SearchFindsPlace ==
    ASSUME NEW list \in Seq(Int), Increasing(list), NEW i \in 1..Len(list)
    PROVE  Search(list, list[i]).reason = "found" /\ Search(list, list[i]).index = i
<1> DEFINE n == list[i]
           L == Len(list)
<1>1. /\ L \in Nat /\ \A j \in 1..L : list[j] \in Int
      /\ \A j, k \in 1..L : j < k => list[j] < list[k]
  BY ElementsOf DEF Increasing
<1>2. 1 \in 1..L /\ L \in 1..L /\ L >= 1 /\ (1 = i \/ 1 < i) /\ (i = L \/ i < L)
  <2>1. L \in Nat
    BY <1>1
  <2> QED BY <2>1
<1>3. n \in Int /\ list[1] <= n /\ n <= list[L]
  BY <1>1, <1>2
<1>4. Spans(list, n)
  <2>1. list # <<>>
    BY <1>2, ElementsOf
  <2> QED BY <2>1, <1>3 DEF Spans, Last
<1> DEFINE result == Search(list, n)
<1>5. IsRight(list, n, result)
  BY <1>3, <1>4, SearchRight
<1> HIDE DEF result
<1>6. CASE result.reason = "found" /\ result.index \in 1..L /\ list[result.index] = n
  <2>1. result.index < i \/ result.index = i \/ i < result.index
    BY <1>6
  <2>2. result.index = i
    BY <2>1, <1>1, <1>6
  <2> QED BY <2>2, <1>6 DEF result
<1>7. CASE result.index \in 1..(L - 1) /\ list[result.index] < n /\ n < list[result.index + 1]
  <2> DEFINE k == result.index
  <2>1. k \in 1..L /\ k + 1 \in 1..L /\ (i = k \/ i < k \/ i = k + 1 \/ k + 1 < i)
    <3>1. L \in Nat
      BY <1>1
    <3>2. k \in 1..(L - 1) /\ i \in 1..L
      BY <1>7
    <3> HIDE DEF k, L
    <3> QED BY <3>1, <3>2
  <2>2. list[k] < n /\ n < list[k + 1]
    BY <1>7
  <2> HIDE DEF k
  <2>3. list[i] = list[k] \/ list[i] < list[k] \/ list[i] = list[k + 1] \/ list[k + 1] < list[i]
    BY <2>1, <1>1
  <2>4. list[i] \in Int /\ list[k] \in Int /\ list[k + 1] \in Int
    BY <2>1, <1>1
  <2> QED BY <2>2, <2>3, <2>4
<1> QED BY <1>5, <1>6, <1>7 DEF IsRight

LEMMA SubSeqElements ==
    ASSUME NEW list \in Seq(Int), NEW i \in 1..(Len(list) + 1), NEW j \in (i - 1)..Len(list)
    PROVE  /\ SubSeq(list, i, j) \in Seq(Int) /\ Len(SubSeq(list, i, j)) = j - i + 1
           /\ \A k \in 1..(j - i + 1) : SubSeq(list, i, j)[k] = list[i + k - 1]
<1>1. Len(list) \in Nat
  BY ElementsOf
<1>2. \A k \in i..j : k \in 1..Len(list)
  BY <1>1
<1>3. \A k \in i..j : list[k] \in Int
  BY <1>2, ElementsOf
<1>4. /\ SubSeq(list, i, j) \in Seq(Int)
      /\ Len(SubSeq(list, i, j)) = IF i <= j THEN j - i + 1 ELSE 0
      /\ \A k \in 1..(j - i + 1) : SubSeq(list, i, j)[k] = list[i + k - 1]
  BY <1>1, <1>3, SubSeqProperties
<1>5. ~(i <= j) => j - i + 1 = 0
  BY <1>1
<1> QED BY <1>4, <1>5

\* A page up to the newest post is the rest of the collection.
LEMMA RestIsSorted ==
    ASSUME NEW list \in Seq(Int), Increasing(list), NEW i \in 1..Len(list)
    PROVE  Between(list, list[i], Last(list)) = Sorted({n \in Range(list) : n >= list[i]})
<1> DEFINE L == Len(list)
           rest == SubSeq(list, i, L)
<1>1. /\ L \in Nat /\ DOMAIN list = 1..L
      /\ \A j \in 1..L : list[j] \in Int
      /\ \A j, k \in 1..L : j < k => list[j] < list[k]
  BY ElementsOf DEF Increasing
<1>2. i \in 1..L /\ L \in 1..L /\ i \in 1..(L + 1) /\ L \in (i - 1)..L
  <2>1. L \in Nat
    BY <1>1
  <2> QED BY <2>1
<1>3. Between(list, list[i], Last(list)) = rest
  BY <1>2, SearchFindsPlace DEF Between, Last
<1>4. /\ rest \in Seq(Int) /\ Len(rest) = L - i + 1
      /\ \A k \in 1..(L - i + 1) : rest[k] = list[i + k - 1]
  BY <1>2, SubSeqElements
<1> HIDE DEF rest
<1>5. DOMAIN rest = 1..(L - i + 1)
  BY <1>4
<1>6. \A k \in 1..(L - i + 1) : i + k - 1 \in 1..L /\ i + k - 1 >= i
  BY <1>1, <1>2
<1>7. Increasing(rest)
  <2>1. SUFFICES ASSUME NEW j \in 1..(L - i + 1), NEW k \in 1..(L - i + 1), j < k
                 PROVE  rest[j] < rest[k]
    BY <1>5 DEF Increasing
  <2>2. i + j - 1 < i + k - 1
    BY <2>1, <1>1, <1>2
  <2> QED BY <2>2, <1>1, <1>4, <1>6
<1>8. Range(rest) = {n \in Range(list) : n >= list[i]}
  <2>1. Range(rest) = {rest[k] : k \in 1..(L - i + 1)} /\ Range(list) = {list[k] : k \in 1..L}
    BY <1>1, <1>5 DEF Range
  <2>2. ASSUME NEW k \in 1..(L - i + 1) PROVE rest[k] \in Range(list) /\ rest[k] >= list[i]
    <3> DEFINE p == i + k - 1
    <3>1. p \in 1..L /\ (p = i \/ i < p)
      BY <1>6, <1>1, <1>2
    <3>2. rest[k] = list[p]
      BY <1>4
    <3> HIDE DEF p
    <3>3. list[p] \in Int /\ list[i] \in Int /\ (list[p] = list[i] \/ list[i] < list[p])
      BY <3>1, <1>1, <1>2
    <3>4. list[p] >= list[i]
      BY <3>3
    <3> QED BY <3>1, <3>2, <3>4, <2>1
  <2>3. ASSUME NEW p \in 1..L, list[p] >= list[i] PROVE list[p] \in Range(rest)
    <3>1. ~(p < i)
      BY <2>3, <1>1, <1>2
    <3> DEFINE k == p - i + 1
    <3>2. k \in 1..(L - i + 1) /\ i + k - 1 = p
      BY <3>1, <1>1, <1>2
    <3> HIDE DEF k
    <3> QED BY <3>2, <1>4, <2>1
  <2> QED BY <2>1, <2>2, <2>3
<1> QED BY <1>3, <1>4, <1>7, <1>8, SortedUnique

LEMMA UptoElements ==
    ASSUME NEW first \in Int, NEW last \in Int, first <= last + 1
    PROVE  /\ Upto(first, last) \in Seq(Int) /\ Len(Upto(first, last)) = last - first + 1
           /\ \A i \in 1..(last - first + 1) : Upto(first, last)[i] = first + i - 1
           /\ Increasing(Upto(first, last))
<1> DEFINE list == Upto(first, last)
           L == last - first + 1
<1>1. L \in Nat
  OBVIOUS
<1>2. list \in [1..L -> Int] /\ \A i \in 1..L : list[i] = first + i - 1
  BY DEF Upto
<1> HIDE DEF list
<1>3. list \in Seq(Int) /\ Len(list) = L
  BY <1>1, <1>2
<1>4. Increasing(list)
  <2>1. DOMAIN list = 1..L
    BY <1>2
  <2>2. \A i, j \in 1..L : i < j => first + i - 1 < first + j - 1
    BY <1>1
  <2> QED BY <2>1, <2>2, <1>2 DEF Increasing
<1> QED BY <1>2, <1>3, <1>4 DEF list

LEMMA SubSeqOfUpto ==
    ASSUME NEW first \in Int, NEW last \in Int, first <= last + 1,
           NEW i \in 1..(last - first + 2), NEW j \in (i - 1)..(last - first + 1)
    PROVE  SubSeq(Upto(first, last), i, j) = Upto(first + i - 1, first + j - 1)
<1> DEFINE list == Upto(first, last)
           part == SubSeq(list, i, j)
           page == Upto(first + i - 1, first + j - 1)
<1>1. /\ list \in Seq(Int) /\ Len(list) = last - first + 1
      /\ \A k \in 1..(last - first + 1) : list[k] = first + k - 1
  BY UptoElements
<1>2. /\ i \in 1..(Len(list) + 1) /\ j \in (i - 1)..Len(list)
  BY <1>1
<1>3. /\ part \in Seq(Int) /\ Len(part) = j - i + 1
      /\ \A k \in 1..(j - i + 1) : part[k] = list[i + k - 1]
  <2> HIDE DEF list
  <2> QED BY <1>1, <1>2, SubSeqElements
<1>4. /\ page \in Seq(Int) /\ Len(page) = j - i + 1
      /\ \A k \in 1..(j - i + 1) : page[k] = (first + i - 1) + k - 1
  <2>1. /\ first + i - 1 \in Int /\ first + j - 1 \in Int
        /\ first + i - 1 <= (first + j - 1) + 1
        /\ (first + j - 1) - (first + i - 1) + 1 = j - i + 1
    OBVIOUS
  <2> QED BY <2>1, UptoElements
<1>5. ASSUME NEW k \in 1..(j - i + 1) PROVE part[k] = page[k]
  <2>1. i + k - 1 \in 1..(last - first + 1) /\ first + (i + k - 1) - 1 = (first + i - 1) + k - 1
    OBVIOUS
  <2> HIDE DEF part, page, list
  <2> QED BY <2>1, <1>1, <1>3, <1>4
<1> HIDE DEF part, page, list
<1>6. part = page
  BY <1>3, <1>4, <1>5, SeqEqual
<1> QED BY <1>6 DEF part, page, list

LEMMA UptoConcat ==
    ASSUME NEW a \in Int, NEW b \in Int, NEW c \in Int, a <= b + 1, b <= c
    PROVE  Upto(a, b) \o Upto(b + 1, c) = Upto(a, c)
<1> DEFINE s == Upto(a, b)
           t == Upto(b + 1, c)
           u == Upto(a, c)
<1>1. /\ s \in Seq(Int) /\ Len(s) = b - a + 1
      /\ \A i \in 1..(b - a + 1) : s[i] = a + i - 1
  BY UptoElements
<1>2. /\ t \in Seq(Int) /\ Len(t) = c - b
      /\ \A i \in 1..(c - b) : t[i] = b + i
  <2>1. b + 1 \in Int /\ b + 1 <= c + 1 /\ c - (b + 1) + 1 = c - b
    OBVIOUS
  <2>2. /\ t \in Seq(Int) /\ Len(t) = c - b
        /\ \A i \in 1..(c - b) : t[i] = (b + 1) + i - 1
    BY <2>1, UptoElements
  <2>3. \A i \in 1..(c - b) : (b + 1) + i - 1 = b + i
    OBVIOUS
  <2> QED BY <2>2, <2>3
<1>3. /\ u \in Seq(Int) /\ Len(u) = c - a + 1
      /\ \A i \in 1..(c - a + 1) : u[i] = a + i - 1
  <2>1. a <= c + 1
    OBVIOUS
  <2> QED BY <2>1, UptoElements
<1> HIDE DEF s, t, u
<1>4. /\ s \o t \in Seq(Int) /\ Len(s \o t) = Len(s) + Len(t)
      /\ \A i \in 1..(Len(s) + Len(t)) : (s \o t)[i] = IF i <= Len(s) THEN s[i] ELSE t[i - Len(s)]
  BY <1>1, <1>2, ConcatProperties
<1>5. Len(s) + Len(t) = c - a + 1
  BY <1>1, <1>2
<1>6. ASSUME NEW i \in 1..(c - a + 1) PROVE (s \o t)[i] = u[i]
  <2>1. CASE i <= b - a + 1
    <3>1. i \in 1..(b - a + 1)
      BY <2>1
    <3> QED BY <3>1, <2>1, <1>1, <1>3, <1>4, <1>5
  <2>2. CASE ~(i <= b - a + 1)
    <3>1. i - (b - a + 1) \in 1..(c - b) /\ b + (i - (b - a + 1)) = a + i - 1
      BY <2>2
    <3>2. (s \o t)[i] = t[i - (b - a + 1)]
      BY <2>2, <1>1, <1>4, <1>5
    <3> QED BY <3>1, <3>2, <1>2, <1>3
  <2> QED BY <2>1, <2>2
<1>7. s \o t = u
  BY <1>3, <1>4, <1>5, <1>6, SeqEqual
<1> QED BY <1>7 DEF s, t, u

\* Where the search finds a post among those from first to last.
LEMMA PlaceInUpto ==
    ASSUME NEW first \in Int, NEW last \in Int, NEW n \in first..last
    PROVE  /\ Upto(first, last)[n - first + 1] = n
           /\ Search(Upto(first, last), n).reason = "found"
           /\ Search(Upto(first, last), n).index = n - first + 1
<1> DEFINE list == Upto(first, last)
           i == n - first + 1
<1>1. /\ list \in Seq(Int) /\ Len(list) = last - first + 1
      /\ \A k \in 1..(last - first + 1) : list[k] = first + k - 1
      /\ Increasing(list)
  <2>1. first <= last + 1
    OBVIOUS
  <2> QED BY <2>1, UptoElements
<1>2. i \in 1..(last - first + 1) /\ first + i - 1 = n
  OBVIOUS
<1>3. list[i] = n
  BY <1>1, <1>2
<1> HIDE DEF list, i
<1>4. Search(list, list[i]).reason = "found" /\ Search(list, list[i]).index = i
  BY <1>1, <1>2, SearchFindsPlace
<1>5. list[i] = n /\ Search(list, n).reason = "found" /\ Search(list, n).index = i
  BY <1>3, <1>4
<1> QED BY <1>5 DEF list, i

PageStart(n, limit) == IF n > limit THEN n - limit ELSE 1

\* A page that is cached.
LEMMA CachedPage ==
    ASSUME NEW first \in Nat \ {0}, NEW last \in Nat, NEW n \in first..last, NEW limit \in Nat \ {0}
    PROVE  /\ HasBefore(Upto(first, last), n, limit, first = 1) <=> n - first + 1 > limit \/ first = 1
           /\ HasBefore(Upto(first, last), n, limit, first = 1) =>
                Before(Upto(first, last), n, limit) = Upto(PageStart(n, limit), n - 1)
<1> DEFINE list == Upto(first, last)
           end == n - first + 1
<1>1. Search(list, n).reason = "found" /\ Search(list, n).index = end
  BY PlaceInUpto
<1>2. HasBefore(list, n, limit, first = 1) <=> end > limit \/ first = 1
  BY <1>1 DEF HasBefore, Caches
<1>3. Before(list, n, limit) = SubSeq(list, IF end > limit THEN end - limit ELSE 1, end - 1)
  BY <1>1 DEF Before
<1>4. ASSUME end > limit \/ first = 1
      PROVE  Before(list, n, limit) = Upto(PageStart(n, limit), n - 1)
  <2> DEFINE i == IF end > limit THEN end - limit ELSE 1
  <2>1. /\ i \in 1..(last - first + 2) /\ end - 1 \in (i - 1)..(last - first + 1)
        /\ first <= last + 1
    OBVIOUS
  <2>2. first + i - 1 = PageStart(n, limit)
    BY <1>4 DEF PageStart
  <2>3. first + (end - 1) - 1 = n - 1
    OBVIOUS
  <2>4. Before(list, n, limit) = SubSeq(list, i, end - 1)
    BY <1>3
  <2> DEFINE j == end - 1
  <2>6. first \in Int /\ last \in Int
    OBVIOUS
  <2>7. first <= last + 1 /\ i \in 1..(last - first + 2) /\ j \in (i - 1)..(last - first + 1)
    BY <2>1
  <2> HIDE DEF i, j, list
  <2>8. SubSeq(Upto(first, last), i, j) = Upto(first + i - 1, first + j - 1)
    BY ONLY <2>6, <2>7, SubSeqOfUpto
  <2>5. SubSeq(Upto(first, last), i, end - 1) = Upto(first + i - 1, first + (end - 1) - 1)
    BY <2>8 DEF j
  <2> QED BY <2>2, <2>3, <2>4, <2>5 DEF list
<1> QED BY <1>2, <1>4

\* A page that is not cached is put before what is.
LEMMA FetchedPage ==
    ASSUME NEW first \in Nat \ {0}, NEW last \in Nat, NEW n \in first..last, NEW limit \in Nat \ {0},
           first # 1, n - first + 1 <= limit
    PROVE  /\ PageStart(n, limit) \in 1..first
           /\ AddPage(Upto(first, last), n, Upto(PageStart(n, limit), n - 1))
                = Upto(PageStart(n, limit), last)
<1> DEFINE start == PageStart(n, limit)
           list == Upto(first, last)
           page == Upto(start, n - 1)
<1>1. start \in 1..(first - 1) /\ start \in Int /\ start <= n - 1
  BY DEF PageStart
<1> HIDE DEF start
<1>2. /\ Len(page) = n - 1 - start + 1
      /\ \A i \in 1..(n - 1 - start + 1) : page[i] = start + i - 1
  <2>1. n - 1 \in Int /\ start <= (n - 1) + 1
    BY <1>1
  <2> QED BY <2>1, <1>1, UptoElements
<1>3. page[1] = start /\ Last(page) = n - 1
  <2>1. /\ 1 \in 1..(n - 1 - start + 1) /\ n - 1 - start + 1 \in 1..(n - 1 - start + 1)
        /\ start + 1 - 1 = start /\ start + (n - 1 - start + 1) - 1 = n - 1
    BY <1>1
  <2> HIDE DEF page
  <2> QED BY <2>1, <1>2 DEF Last
<1>4. list[1] = first
  <2>1. first \in first..last /\ first - first + 1 = 1
    OBVIOUS
  <2>2. Upto(first, last)[first - first + 1] = first
    BY <2>1, PlaceInUpto
  <2> QED BY <2>1, <2>2
<1>5. CASE n = first
  <2>1. AddPage(list, n, page) = page \o list
    BY <1>3, <1>4, <1>5 DEF AddPage
  <2>2. n - 1 + 1 = first /\ n - 1 <= last /\ n - 1 \in Int /\ start <= (n - 1) + 1
    BY <1>1, <1>5
  <2>3. Upto(start, n - 1) \o Upto(n - 1 + 1, last) = Upto(start, last)
    BY <1>1, <2>2, UptoConcat
  <2> QED BY <1>1, <2>1, <2>2, <2>3 DEF start
<1>6. CASE n # first
  <2>1. n - 1 \in first..last
    BY <1>6
  <2>2. Search(list, n - 1).reason = "found" /\ Search(list, n - 1).index = (n - 1) - first + 1
    BY <2>1, PlaceInUpto
  <2>3. AddPage(list, n, page) = page \o RestAfter(list, (n - 1) - first + 1)
    <3>1. ~(n = list[1]) /\ page[1] < list[1]
      BY <1>1, <1>3, <1>4, <1>6
    <3>2. Caches(list, Last(page)) /\ Search(list, Last(page)).index = (n - 1) - first + 1
      BY <1>3, <2>2 DEF Caches
    <3> HIDE DEF page, list
    <3> QED BY <3>1, <3>2 DEF AddPage
  <2>4. RestAfter(list, (n - 1) - first + 1) = Upto(n - 1 + 1, last)
    <3>1. Len(list) = last - first + 1
      BY UptoElements
    <3>2. RestAfter(list, (n - 1) - first + 1) = SubSeq(list, (n - 1) - first + 1 + 1, last - first + 1)
      BY <3>1 DEF RestAfter
    <3> DEFINE i == (n - 1) - first + 1 + 1
               j == last - first + 1
    <3>3. /\ i \in 1..(last - first + 2) /\ j \in (i - 1)..(last - first + 1) /\ first <= last + 1
          /\ first + i - 1 = n - 1 + 1 /\ first + j - 1 = last
      BY <2>1
    <3>5. first \in Int /\ last \in Int
      OBVIOUS
    <3> HIDE DEF i, j
    <3>6. first <= last + 1 /\ i \in 1..(last - first + 2) /\ j \in (i - 1)..(last - first + 1)
      BY <3>3
    <3>4. SubSeq(Upto(first, last), i, j) = Upto(first + i - 1, first + j - 1)
      BY ONLY <3>5, <3>6, SubSeqOfUpto
    <3> QED BY <3>2, <3>3, <3>4 DEF i, j
  <2>5. Upto(start, n - 1) \o Upto(n - 1 + 1, last) = Upto(start, last)
    <3> DEFINE m == n - 1
    <3>1. m <= last /\ m \in Int /\ start <= m + 1 /\ start \in Int /\ last \in Int
      BY <1>1
    <3> HIDE DEF m
    <3>2. Upto(start, m) \o Upto(m + 1, last) = Upto(start, last)
      BY ONLY <3>1, UptoConcat
    <3> QED BY <3>2 DEF m
  <2>6. AddPage(list, n, page) = Upto(start, last)
    BY <2>3, <2>4, <2>5
  <2>7. start \in 1..first
    BY <1>1
  <2> QED BY <2>6, <2>7 DEF start
<1> QED BY <1>5, <1>6

LEMMA PageIsRightForAll ==
    ASSUME NEW first \in Nat \ {0}, NEW last \in Nat, NEW n \in first..last, NEW limit \in Nat \ {0}
    PROVE  PageIsRight(first, last, n, limit)
<1> DEFINE list == Upto(first, last)
           page == Upto(PageStart(n, limit), n - 1)
           more == AddPage(list, n, page)
<1>1. page = Upto(IF n > limit THEN n - limit ELSE 1, n - 1)
  BY DEF PageStart
<1>2. CASE HasBefore(list, n, limit, first = 1)
  <2>1. Before(list, n, limit) = page
    BY <1>2, CachedPage
  <2> QED BY <1>1, <1>2, <2>1 DEF PageIsRight
<1>3. CASE ~HasBefore(list, n, limit, first = 1)
  <2> DEFINE start == PageStart(n, limit)
  <2>1. first # 1 /\ n - first + 1 <= limit
    <3>1. ~(n - first + 1 > limit \/ first = 1)
      BY <1>3, CachedPage
    <3> QED BY <3>1
  <2>2. start \in 1..first /\ more = Upto(start, last)
    BY <2>1, FetchedPage
  <2>3. n - start + 1 > limit \/ start = 1
    BY DEF PageStart
  <2> HIDE DEF start
  <2>4. start \in Nat \ {0} /\ n \in start..last
    BY <2>2
  <2>5. /\ HasBefore(Upto(start, last), n, limit, start = 1)
        /\ Before(Upto(start, last), n, limit) = page
    BY <2>3, <2>4, CachedPage
  <2>6. Upto(start, last)[1] = start
    <3>1. start \in start..last /\ start - start + 1 = 1 /\ start \in Int
      BY <2>4
    <3>2. Upto(start, last)[start - start + 1] = start
      BY <3>1, PlaceInUpto
    <3> QED BY <3>1, <3>2
  <2>7. /\ \E s \in 1..first : more = Upto(s, last)
        /\ HasBefore(more, n, limit, more[1] = 1)
        /\ Before(more, n, limit) = page
    BY <2>2, <2>5, <2>6
  <2> QED BY <1>1, <1>3, <2>7 DEF PageIsRight
<1> QED BY <1>2, <1>3

--------------------------------------------------------------------------------
(* All collections of the module: each is one of its sets, in order. *)

LEMMA SubsetOfInterval ==
    ASSUME NEW last \in Nat, NEW S \in SUBSET (1..last)
    PROVE  S \in SUBSET Int /\ IsFiniteSet(S)
<1>1. S \in SUBSET Int
  OBVIOUS
<1>2. last \in Int /\ 1 \in Int
  OBVIOUS
<1>3. IsFiniteSet(1..last)
  BY <1>2, FS_Interval
<1>4. IsFiniteSet(S)
  BY <1>3, FS_Subset
<1> QED BY <1>1, <1>4

LEMMA CollectionsAreInOrder ==
    ASSUME NEW list \in Collections
    PROVE  list \in Seq(Int) /\ Increasing(list)
<1>1. PICK S \in SUBSET (1..MaxSeqNum) : list = Sorted(S)
  BY DEF Collections
<1>2. S \in SUBSET Int /\ IsFiniteSet(S)
  BY PostIndexAssumption, SubsetOfInterval
<1> QED BY <1>1, <1>2, SortedProperties

\* However many posts there are, the binary search finds each at its place, says of a missing one
\* where it belongs, and throws only where one is missing from four or more (postsManager.ts).
THEOREM SearchesRight == SearchesAreRight
<1>1. \A n \in 1..MaxSeqNum : n \in Int
  OBVIOUS
<1> QED BY <1>1, CollectionsAreInOrder, SearchIsRightForAll DEF SearchesAreRight

\* However many posts there are, a late one is put where it belongs, and the posts stay in order
\* with none twice (postsManager.ts).
THEOREM InsertsRight == InsertsAreRight
<1>1. \A n \in 1..MaxSeqNum : n \in Int
  OBVIOUS
<1> QED BY <1>1, CollectionsAreInOrder, InsertIsRightForAll DEF InsertsAreRight

\* Pages of any length, read backwards from any post, have nothing missing and nothing twice
\* (postsManager.ts).
THEOREM PagesRight == PagesAreRight
<1> SUFFICES ASSUME NEW first \in 1..MaxSeqNum, NEW last \in 1..MaxSeqNum,
                    NEW limit \in 1..MaxSeqNum, NEW n \in first..last
             PROVE  PageIsRight(first, last, n, limit)
  BY DEF PagesAreRight
<1>1. first \in Nat \ {0} /\ last \in Nat /\ limit \in Nat \ {0}
  OBVIOUS
<1> QED BY <1>1, PageIsRightForAll

--------------------------------------------------------------------------------
(* The collection while messages are processed. *)

\* The collection has its first post from when it is filled: only a stream with posts is.
FirstIsCached ==
    /\ init # "no" => posted >= 1
    /\ init = "yes" => 1 \in posts

LEMMA InitFirst == Init => FirstIsCached
  BY DEF Init, FirstIsCached

LEMMA FirstStays ==
    ASSUME FirstIsCached, posted \in Nat, posted' \in Nat, posted <= posted', posts \subseteq posts',
           init' = init
    PROVE  FirstIsCached'
  BY DEF FirstIsCached

LEMMA MessageFirst ==
    ASSUME Basics, FirstIsCached, NEW m \in Arrived, MessageStep(m)
    PROVE  FirstIsCached'
<1>1. posted \in Nat
  BY Numbers DEF Basics
<1>2. CASE ResolvePost(m)
  <2>1. m.n >= 1 /\ m.n <= posted /\ m.n \in Nat
    <3>1. m \in Messages /\ m.type = "post"
      BY <1>2, Places DEF Basics, ResolvePost
    <3>2. PICK i \in 1..Len(log) : m = log[i]
      BY Places DEF Basics
    <3>3. m.n <= posted
      BY <3>1, <3>2 DEF Basics, Logged
    <3>4. m.n \in 1..MaxPosts
      BY <3>1, Kinds
    <3>5. MaxPosts \in Nat
      BY Bounds
    <3> QED BY <3>3, <3>4, <3>5
  <2>2. /\ posted' = posted /\ posts \subseteq posts'
        /\ init' = init \/ (init # "yes" /\ init' = "pending")
    BY <1>2 DEF ResolvePost, server
  <2> QED BY <2>1, <2>2, <1>1 DEF FirstIsCached
<1>3. CASE ~ResolvePost(m)
  <2>1. posted' = posted
    BY <1>3 DEF MessageStep, Release, Resume, ResolveStream, StreamAnswer, StorePost, Count, UpdateFails,
                GetLastReads, GetLastReadItems, ReadMe, ApplyMe, ServerAnswersMe, MeAnswer, MeFetchFails,
                server
  <2>2. posts \subseteq posts' /\ init' = init
    BY <1>3 DEF MessageStep, Release, Resume, ResolveStream, StreamAnswer, StorePost, Count, UpdateFails,
                GetLastReads, GetLastReadItems, ReadMe, ApplyMe, ServerAnswersMe, MeAnswer, MeFetchFails,
                cached
  <2> QED BY <2>1, <2>2, <1>1, FirstStays
<1> QED BY <1>2, <1>3

LEMMA ComputeFirst ==
    ASSUME Basics, MarksAreBehind, FirstIsCached, NEW c \in Computes, ComputeStep(c)
    PROVE  FirstIsCached'
<1>1. posted \in Nat
  BY Numbers DEF Basics
<1>2. posted' = posted
  BY ComputeSteps DEF server
<1>3. CASE UnreadAnswer(c)
  <2> DEFINE from == IF comp[c].pc = "nothing" THEN Unset ELSE heap[comp[c].object]
  <2>1. posts' = posts /\ init' = IF from # Unset /\ init = "no" THEN "pending" ELSE init
    BY <1>3 DEF UnreadAnswer
  <2>2. comp[c].object \in Objects
    BY Typed DEF Basics, Types, Others, Computing
  <2>3. from # Unset => posted >= 1
    BY <2>2, <1>1 DEF MarksAreBehind, IsMark
  <2> HIDE DEF from
  <2> QED BY <2>1, <2>3, <1>1, <1>2 DEF FirstIsCached
<1>4. CASE ~UnreadAnswer(c)
  <2>1. posts \subseteq posts' /\ init' = init
    BY <1>4 DEF ComputeStep, ComputeResumes, ServerAnswersUnread, PostsRead, PageAnswer, CachePosts,
                ComputeFinish, ComputeFails, cached
  <2> QED BY <2>1, <1>1, <1>2, FirstStays
<1> QED BY <1>3, <1>4

LEMMA NextFirst ==
    Basics /\ MarksAreBehind /\ FirstIsCached /\ [Next]_vars => FirstIsCached'
<1> SUFFICES ASSUME Basics, MarksAreBehind, FirstIsCached, [Next]_vars PROVE FirstIsCached'
  OBVIOUS
<1>1. posted \in Nat
  BY Numbers DEF Basics
<1>2. CASE UNCHANGED vars \/ Deliver
  <2>1. posted' = posted /\ posts' = posts /\ init' = init
    BY <1>2 DEF vars, Deliver, server, cached
  <2> QED BY <2>1, <1>1, FirstStays
<1>3. CASE ServerPosts \/ ServerMarksRead \/ ServerAddsStream
  <2>1. posts' = posts /\ init' = init
    BY <1>3, ServerSteps DEF cached
  <2>2. posted' = posted \/ posted' = posted + 1
    BY <1>3 DEF ServerPosts, ServerMarksRead, ServerAddsStream
  <2>3. posted' \in Nat /\ posted <= posted'
    BY <2>2, <1>1
  <2> QED BY <2>1, <2>3, <1>1, FirstStays
<1>4. CASE InitAnswer
  <2>1. posted' = posted /\ init = "pending"
    BY <1>4 DEF InitAnswer, server
  <2>2. init' = "yes" => posts' = posts \cup (1..posted)
    BY <1>4 DEF InitAnswer, CachePosts
  <2>3. posted >= 1
    BY <2>1 DEF FirstIsCached
  <2>4. 1 \in 1..posted
    BY <2>3, <1>1
  <2> QED BY <2>1, <2>2, <2>3, <2>4 DEF FirstIsCached
<1>5. ASSUME NEW m \in Arrived, MessageStep(m) PROVE FirstIsCached'
  BY <1>5, MessageFirst
<1>6. ASSUME NEW c \in Computes, ComputeStep(c) PROVE FirstIsCached'
  BY <1>6, ComputeFirst
<1> QED BY <1>2, <1>3, <1>4, <1>5, <1>6 DEF Next

LEMMA CollectionInOrder ==
    ASSUME TypeOK
    PROVE  /\ posts \in SUBSET (1..MaxPosts) /\ posts \in SUBSET Int /\ IsFiniteSet(posts)
           /\ Collection \in Seq(Int) /\ Increasing(Collection) /\ Range(Collection) = posts
<1>1. posts \in SUBSET (1..MaxPosts)
  BY DEF TypeOK
<1>2. posts \in SUBSET Int /\ IsFiniteSet(posts)
  BY <1>1, Bounds, SubsetOfInterval
<1> QED BY <1>1, <1>2, SortedProperties DEF Collection

\* A post that is cached is found, and one that is not is not, whatever has been received, in
\* whatever order, or failed (postsManager.ts).
THEOREM SearchesFind == Spec => []SearchFinds
<1>1. TypeOK => SearchFinds
  <2> SUFFICES ASSUME TypeOK, NEW n \in 1..MaxPosts PROVE Caches(Collection, n) = (n \in posts)
    BY SearchesRight DEF SearchFinds
  <2> DEFINE result == Search(Collection, n)
  <2>1. SearchIsRight(Collection, n)
    BY CollectionInOrder, SearchIsRightForAll
  <2>2. /\ n \in posts => result.reason = "found"
        /\ n \notin posts => result.reason = "after" \/ result = OutOfRange \/ result = Throws
    BY <2>1, CollectionInOrder DEF SearchIsRight
  <2> HIDE DEF result
  <2>3. n \notin posts => result.reason # "found"
    BY <2>2 DEF OutOfRange, Throws, Result
  <2> QED BY <2>2, <2>3 DEF Caches, result
<1> QED BY <1>1, TypeCorrect, PTL

\* A post is put where it belongs in the cache, whatever order its message and the initialisation
\* of the stream come in: or the search throws, in a gap (postsManager.ts).
THEOREM InsertsKeepOrder == Spec => []InsertsInOrder
<1>1. Basics /\ FirstIsCached => InsertsInOrder
  <2> SUFFICES ASSUME Basics, FirstIsCached, NEW m \in Arrived, m.type = "post", init = "yes",
                      st[m].pc \in {"ready", "init"}, Search(Collection, m.n) # Throws
               PROVE  UpdateOrInsert(Collection, m.n) = Sorted(posts \cup {m.n})
    BY InsertsRight DEF InsertsInOrder
  <2> DEFINE list == Collection
             result == UpdateOrInsert(list, m.n)
  <2>1. m.n \in Int /\ m.n >= 1
    <3>1. m \in Messages
      BY Places DEF Basics
    <3>2. m.n \in 1..MaxPosts
      BY <3>1, Kinds
    <3> QED BY <3>2, Bounds
  <2>2. list \in Seq(Int) /\ Increasing(list) /\ Range(list) = posts
    BY CollectionInOrder DEF Basics
  <2>3. /\ result \in Seq(Int) /\ Increasing(result)
        /\ \/ Range(result) = posts \cup {m.n}
           \/ list # <<>> /\ m.n < list[1]
    BY <2>1, <2>2, UpdateOrInsertAdds
  <2>4. list # <<>> => ~(m.n < list[1])
    <3>1. 1 \in Range(list)
      BY <2>2 DEF FirstIsCached
    <3> HIDE DEF list
    <3>2. PICK i \in 1..Len(list) : list[i] = 1
      BY <2>2, <3>1, ElementsOf DEF Range
    <3>3. Len(list) \in Nat
      BY <2>2, ElementsOf
    <3>4. 1 \in 1..Len(list) /\ (i = 1 \/ 1 < i)
      BY <3>3
    <3>5. list[1] = list[i] \/ list[1] < list[i]
      BY <2>2, <3>4, ElementsOf DEF Increasing
    <3>6. list[1] \in Int
      BY <2>2, <3>4, ElementsOf
    <3> QED BY <2>1, <3>2, <3>5, <3>6
  <2>5. Range(result) = posts \cup {m.n}
    BY <2>3, <2>4
  <2> HIDE DEF result
  <2> QED BY <2>3, <2>5, SortedUnique DEF result
<1> QED BY <1>1, InitBasics, NextBasics, InitMarks, NextMarks, InitFirst, NextFirst, PTL DEF Spec

\* The page a computation cuts out of the cache has the cached posts from the first unread one on,
\* all of them and no others (unreads.ts, postsManager.ts).
THEOREM PagesWhole == Spec => []PagesAreWhole
<1>1. TypeOK => PagesAreWhole
  <2> SUFFICES ASSUME TypeOK, NEW c \in Computes, FirstUnread(comp[c].from) \in posts
               PROVE  LET first == FirstUnread(comp[c].from)
                      IN  Between(Collection, first, Last(Collection))
                            = Sorted({n \in posts : n >= first})
    BY PagesRight DEF PagesAreWhole
  <2> DEFINE first == FirstUnread(comp[c].from)
             list == Collection
  <2>1. list \in Seq(Int) /\ Increasing(list) /\ Range(list) = posts
    BY CollectionInOrder
  <2>2. first \in posts
    OBVIOUS
  <2> HIDE DEF first, list
  <2>3. PICK i \in 1..Len(list) : list[i] = first
    BY <2>1, <2>2, ElementsOf DEF Range
  <2>4. Between(list, list[i], Last(list)) = Sorted({n \in Range(list) : n >= list[i]})
    BY <2>1, RestIsSorted
  <2>5. Between(list, first, Last(list)) = Sorted({n \in posts : n >= first})
    BY <2>1, <2>3, <2>4
  <2> QED BY <2>5 DEF first, list
<1> QED BY <1>1, TypeCorrect, PTL

================================================================================
