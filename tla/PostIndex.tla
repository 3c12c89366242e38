-------------------------------- MODULE PostIndex --------------------------------
(***************************************************************************)
(* The posts of a stream that are cached in the order of their numbers     *)
(* (PostCollection in postsManager.ts): the binary search, the insertion   *)
(* of a post that a message brings, and the pages read and fetched.        *)
(*                                                                         *)
(* A post is its number.  A collection is an increasing sequence of them;  *)
(* indices are those of TLA+, so one more than those of the code.          *)
(***************************************************************************)
EXTENDS Integers, Sequences, FiniteSets, Functions

CONSTANT MaxSeqNum     \* bound: the numbers of posts that collections are tried with

ASSUME PostIndexAssumption == MaxSeqNum \in Nat

Result(reason, n) == [reason |-> reason, index |-> n]
Found(n) == Result("found", n)
After(n) == Result("after", n)                   \* the post belongs after the n-th
OutOfRange == Result("outOfRange", 0)
Throws == Result("throws", 0)                    \* "Unexpected error on PostIndex.search()"

Last(list) == list[Len(list)]

\* MUTANT: the upper half is searched from the one after next on.
UpperHalf(guess) == guess + 2

NextHigher(guess) == guess + 1

Ranges(list) == [min : 1..(Len(list) + 2), max : 0..Len(list)]
FromTo(first, last) == [min |-> first, max |-> last]

\* A turn of the loop of search(): halving until one post is left.  Where a number is missing the
\* last guess may leave no post at all: the loop then ends without a result, and the code throws.
Halve(Probe, list, n, range) ==
    LET min == range.min
        max == range.max
        guess == (min + max) \div 2
    IN  IF min > max THEN Throws
        ELSE IF list[guess] = n THEN Found(guess)
        ELSE IF min = max THEN After(IF list[guess] < n THEN min ELSE min - 1)
        ELSE IF list[guess] < n THEN Probe[FromTo(NextHigher(guess), max)]
        ELSE Probe[FromTo(min, guess - 1)]

Probes(list, n) == LET Probe[range \in Ranges(list)] == Halve(Probe, list, n, range) IN Probe

Search(list, n) ==
    IF list = <<>> \/ n < list[1] \/ n > Last(list) THEN OutOfRange
    ELSE Probes(list, n)[FromTo(1, Len(list))]

\* MUTANT: the post is put before the one it belongs after.
InsertBefore(list, i, n) == SubSeq(list, 1, i - 1) \o <<n>> \o SubSeq(list, i, Len(list))

Insert(list, i, n) == SubSeq(list, 1, i) \o <<n>> \o SubSeq(list, i + 1, Len(list))

\* updateOrInsert(): a post older than the first is left for the page it is in.
UpdateOrInsert(list, n) ==
    LET result == Search(list, n)
    IN  IF list = <<>> \/ n > Last(list) THEN Append(list, n)
        ELSE IF result.reason = "after" THEN Insert(list, result.index, n)
        ELSE list

Caches(list, n) == Search(list, n).reason = "found"

\* getBetween(), inclusive, of two posts that are cached.
Between(list, first, last) ==
    SubSeq(list, Search(list, first).index, Search(list, last).index)

\* getBefore(), not inclusive: whether the page is cached, and the page.
HasBefore(list, n, limit, complete) ==
    Caches(list, n) /\ (Search(list, n).index > limit \/ complete)
Before(list, n, limit) ==
    LET end == Search(list, n).index
    IN  SubSeq(list, IF end > limit THEN end - limit ELSE 1, end - 1)

\* MUTANT: the first post of both is kept twice.
RestFrom(list, i) == SubSeq(list, i, Len(list))

RestAfter(list, i) == SubSeq(list, i + 1, Len(list))

\* add() of a page fetched before n: put in front if it ends where the collection begins, or
\* overlaps with it.
AddPage(list, n, page) ==
    IF n = list[1] /\ Last(page) < list[1] THEN page \o list
    ELSE IF page[1] < list[1] /\ Caches(list, Last(page))
         THEN page \o RestAfter(list, Search(list, Last(page)).index)
    ELSE list

--------------------------------------------------------------------------------
(* What they are to do, for all collections of numbers up to MaxSeqNum. *)

Increasing(list) == \A i, j \in DOMAIN list : i < j => list[i] < list[j]
Sorted(S) ==
    [i \in 1..Cardinality(S) |-> CHOOSE n \in S : Cardinality({k \in S : k <= n}) = i]
Collections == {Sorted(S) : S \in SUBSET (1..MaxSeqNum)}
Upto(first, last) == [i \in 1..(last - first + 1) |-> first + i - 1]

SearchIsRight(list, n) ==
    LET result == Search(list, n)
    IN  /\ n \in Range(list) => result.reason = "found" /\ list[result.index] = n
        /\ n \notin Range(list) =>
            \/ result.reason = "after" /\ list[result.index] < n /\ n < list[result.index + 1]
            \/ result = OutOfRange /\ (list = <<>> \/ n < list[1] \/ n > Last(list))
            \/ result = Throws /\ Len(list) >= 4

InsertIsRight(list, n) ==
    LET result == UpdateOrInsert(list, n)
    IN  /\ Increasing(result)
        /\ Range(list) \subseteq Range(result) /\ Range(result) \subseteq Range(list) \cup {n}
        /\ n \in Range(result) \/ n < list[1] \/ Search(list, n) = Throws

\* The page before n, of the cached posts first..last, or of those there are once it is fetched.
PageIsRight(first, last, n, limit) ==
    LET list == Upto(first, last)
        page == Upto(IF n > limit THEN n - limit ELSE 1, n - 1)
    IN  IF HasBefore(list, n, limit, first = 1)
        THEN Before(list, n, limit) = page
        ELSE LET more == AddPage(list, n, page)
             IN  /\ \E start \in 1..first : more = Upto(start, last)
                 /\ HasBefore(more, n, limit, more[1] = 1)
                 /\ Before(more, n, limit) = page

\* The binary search finds every post that is cached, at its place; where it says that a
\* missing one belongs, its neighbours are the smaller and the larger; and it finds no
\* result, and throws, only in a gap of a collection of four or more.
SearchesAreRight == \A list \in Collections, n \in 1..MaxSeqNum : SearchIsRight(list, n)

\* A post that comes late is inserted where it belongs, and the posts stay in order with
\* none twice: unless it is older than all that are cached, or the search throws.
InsertsAreRight == \A list \in Collections, n \in 1..MaxSeqNum : InsertIsRight(list, n)

\* Pages read backwards from any post of a collection without gaps are the posts just before
\* it; a page that is not cached is fetched, and is then, with nothing missing or twice.
PagesAreRight ==
    \A first, last, limit \in 1..MaxSeqNum : \A n \in first..last : PageIsRight(first, last, n, limit)
================================================================================
