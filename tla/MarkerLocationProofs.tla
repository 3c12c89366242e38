-------------------------- MODULE MarkerLocationProofs --------------------------
(***************************************************************************)
(* Proofs about MarkerLocation, for any lines, however similar, and diffs  *)
(* of any length.                                                          *)
(*                                                                         *)
(* The invariant says that the changes account for the diff read so far:   *)
(* every removed and every added line is in a change, at its place, and a  *)
(* kept line is as far from its old place as the changes before it say     *)
(* (Accounts); that changes are in order, with equally many lines between  *)
(* them in both files (Chain); and that the line numbers of the builder    *)
(* are those of the last line of context (Reading).  Of the walk over the  *)
(* lines of interest it says that each line passed has come to its place,  *)
(* which does not depend on the others, and which locations have been      *)
(* marked (Walking).  The properties of the calculated locations follow.   *)
(***************************************************************************)
EXTENDS MarkerLocation, FiniteSetTheorems, SequenceTheorems, WellFoundedInduction, TLAPS

\* What a diff consists of, and the changes gathered from it.
Entry == [op : {"keep", "skip"}] \cup [op : {"del", "add"}, line : Lines]
Change == [delStart : Nat \ {0}, addStart : Nat \ {0}, dels : Seq(Lines), adds : Seq(Lines)]

\* The lines of both files up to the p-th entry of the diff d.
OldTo(d, p) == Cardinality({q \in 1..p : InOld(d[q])})
NewTo(d, p) == Cardinality({q \in 1..p : InNew(d[q])})

\* The last of the changes.
LastOf(chs) == chs[Len(chs)]

\* The changes follow one another in both files, with as many lines between them in one as in
\* the other, up to the lines old and new.
Chain(chs, old, new) ==
    /\ chs = <<>> => old = new
    /\ chs # <<>> => /\ chs[1].delStart = chs[1].addStart
                     /\ old - DelEnd(LastOf(chs)) = new - AddEnd(LastOf(chs))
                     /\ DelEnd(LastOf(chs)) <= old + 1
    /\ \A i \in DOMAIN chs : i > 1 =>
           chs[i].delStart - DelEnd(chs[i - 1]) = chs[i].addStart - AddEnd(chs[i - 1])
    /\ \A i, j \in DOMAIN chs : i < j => /\ DelEnd(chs[i]) < chs[j].delStart
                                         /\ AddEnd(chs[i]) < chs[j].addStart

\* Line l of the old file is in the change ch.
Removes(ch, l) == ch.delStart <= l /\ l < DelEnd(ch)

\* Each line removed is in a change, at its place; so is each line added, and a change adds no others.
RemovedIn(d, chs) == \A p \in DOMAIN d : d[p].op = "del" =>
    \E i \in DOMAIN chs : /\ Removes(chs[i], OldTo(d, p))
                          /\ chs[i].dels[OldTo(d, p) - chs[i].delStart + 1] = d[p].line
AddedIn(d, chs) == \A p \in DOMAIN d : d[p].op = "add" =>
    \E i \in DOMAIN chs : chs[i].adds # <<>> /\ OldTo(d, p) = DelEnd(chs[i]) - 1
AddsOf(d, chs) == \A i \in DOMAIN chs : \A j \in DOMAIN chs[i].adds :
    \E p \in DOMAIN d : /\ d[p].op = "add" /\ d[p].line = chs[i].adds[j]
                        /\ NewTo(d, p) = chs[i].addStart + j - 1

\* Lines kept are in no change, and are as far apart in the files as the changes before them say.
KeptAt(chs, l, n) ==
    /\ \A i \in DOMAIN chs : ~Removes(chs[i], l)
    /\ chs = <<>> => n = l
    /\ chs # <<>> /\ l >= DelEnd(LastOf(chs)) => n - l = AddEnd(LastOf(chs)) - DelEnd(LastOf(chs))
    /\ \A i \in DOMAIN chs : l < chs[i].delStart /\ (i > 1 => l >= DelEnd(chs[i - 1])) =>
           n - l = chs[i].addStart - chs[i].delStart
Kept(d, chs) == \A p \in DOMAIN d : d[p].op \in {"keep", "skip"} => KeptAt(chs, OldTo(d, p), NewTo(d, p))

\* The changes account for the diff: nothing is missed, nothing invented, nothing misplaced.
Accounts(d, chs) == RemovedIn(d, chs) /\ AddedIn(d, chs) /\ AddsOf(d, chs) /\ Kept(d, chs)

\* The changes chs are those of the diff d.
Sound(d, chs) ==
    /\ d \in Seq(Entry) /\ chs \in Seq(Change)
    /\ Chain(chs, OldTo(d, Len(d)), NewTo(d, Len(d)))
    /\ Accounts(d, chs)

\* The values of the variables while the diff is read.
Types ==
    /\ state \in {"sync", "edit"}
    /\ oldLine \in 0..OldLength /\ newLine \in 0..NewLength
    /\ dels \in Seq(Lines) /\ adds \in Seq(Lines) /\ changes \in Seq(Change)
    /\ state = "edit" => delStart \in Nat \ {0} /\ addStart \in Nat \ {0}

\* Where the builder is while the diff is read.
Reading ==
    /\ state = "edit" => /\ OldLength + 1 = delStart + Len(dels)
                         /\ NewLength + 1 = addStart + Len(adds)
    /\ state = "sync" => /\ changes # <<>> => DelEnd(LastOf(changes)) <= OldLength
                         /\ ~BetweenHunks => oldLine = OldLength /\ newLine = NewLength

\* What the walk has to come to.  A line is moved, or looked up, by the first change that ends after it,
\* whichever other lines are asked for.
FinalBalance(chs) == IF chs = <<>> THEN 0 ELSE AddEnd(chs[Len(chs)]) - DelEnd(chs[Len(chs)])

Place(chs, l) ==
    LET after == {k \in DOMAIN chs : l < DelEnd(chs[k])}
        k == Min(after)
        To(n) == [line |-> n, change |-> 0]
    IN  IF after = {} THEN To(l + FinalBalance(chs))
        ELSE IF l < chs[k].delStart THEN To(l + Balance(chs[k]))
        ELSE LineIn(chs, k, l)

\* A location is active from when its first line is next until its last line has been passed.
\* A change, too, may find it next that is far before it.
Active(loc, next) ==
    \/ loc.start > loc.end /\ (next = {} \/ loc.start <= Min(next))
    \/ loc.start <= loc.end /\ next # {} /\ Min(next) \in loc.start..loc.end

\* The lines ahead when a change begins.
Remaining(L, ch) == {l \in LinesOfInterest(L) : l >= ch.delStart}

ContentChanged(chs, L, loc) == \E k \in DOMAIN chs : Active(loc, Remaining(L, chs[k]))

Located(chs, L, loc) ==
    NewLocation(chs, Place(chs, loc.start), Place(chs, loc.end), loc, ContentChanged(chs, L, loc))

\* The walk so far: the lines passed have been calculated, each as if it were alone, and come
\* before those ahead and before the changes to come; the locations marked are those that
\* were active when a change began.  At line 0, if it is asked for, the walk never passes it.
Passed(l) ==
    /\ l # 0
    /\ \A m \in ahead : l < m
    /\ calculated[l] = Place(changes, l)
    /\ begun < Len(changes) => l < changes[begun + 1].delStart

Walking ==
    /\ state = "sync"
    /\ asked \subseteq [start : 1..(OldLength + 1), end : 0..(OldLength + 1)]
    /\ ahead \subseteq Asked /\ DOMAIN calculated = Asked /\ begun \in 0..Len(changes)
    /\ \A l \in ahead : calculated[l] = [line |-> 0, change |-> 0]
    /\ \A l \in Asked \ ahead : Passed(l)
    /\ 0 \notin Asked /\ begun > 0 => \A l \in ahead : l >= changes[begun].delStart
    /\ finalBalance = IF begun = 0 THEN 0 ELSE BalanceAfter(changes[begun])
    /\ active = {loc \in asked : Active(loc, ahead)}
    /\ contentChanged = {loc \in asked : /\ 0 \notin Asked
                                         /\ \E k \in 1..begun : Active(loc, Remaining(asked, changes[k]))}

\* Once the walk is over, what has become of each location is what Located says.
Done ==
    /\ DOMAIN result = asked
    /\ 0 \notin Asked => \A loc \in asked : result[loc] = Located(changes, asked, loc)

\* Markers of a file are calculated together, and it makes no difference to where they are:
\* each goes where a walk for it alone comes to, and less is taken for a change of its content.
\* (But a single location at line 0 keeps all the others from being moved; calculator.ts.)
AloneAsTogether ==
    0 \notin Asked => \A loc \in DOMAIN result :
        LET alone == Located(changes, {loc}, loc)
        IN  /\ asked = {loc} => result[loc] = alone
            /\ [alone EXCEPT !.contentChanged = FALSE] = [result[loc] EXCEPT !.contentChanged = FALSE]
            /\ result[loc].contentChanged => alone.contentChanged

\* The inductive invariant.
IInv ==
    /\ Types
    /\ Sound(diff, Pushed)
    /\ asked = {} => Reading /\ DOMAIN result = {}
    /\ asked # {} => Walking
    /\ DOMAIN result # {} => Done

--------------------------------------------------------------------------------
(* Counting. *)

\* A set of natural numbers that is not empty has a first one, and Min is it.
LEMMA MinIsFirst ==
    ASSUME NEW S \in SUBSET Nat, S # {}
    PROVE  Min(S) \in S /\ \A t \in S : Min(S) <= t
<1>1. \E x \in S : \A y \in S : ~(<<y, x>> \in OpToRel(<, Nat))
  BY WFMin, NatLessThanWellFounded
<1>2. PICK x \in S : \A y \in S : ~(y < x)
  BY <1>1 DEF OpToRel
<1>3. \A y \in S : x <= y
  BY <1>2
<1> QED
  BY <1>3 DEF Min

\* How many of the first p positions are in S.
UpTo(S, p) == Cardinality({q \in 1..p : q \in S})

\* One more position counts for one if it is in S, and for nothing otherwise.
LEMMA UpToNext ==
    ASSUME NEW S, NEW p \in Nat
    PROVE  /\ UpTo(S, p) \in Nat /\ UpTo(S, 0) = 0
           /\ UpTo(S, p + 1) = UpTo(S, p) + (IF p + 1 \in S THEN 1 ELSE 0)
<1> DEFINE T == {q \in 1..p : q \in S}
<1>1. IsFiniteSet(1..p) /\ T \subseteq 1..p
  BY FS_Interval
<1>2. IsFiniteSet(T) /\ Cardinality(T) \in Nat
  BY <1>1, FS_Subset, FS_CardinalityType
<1>3. UpTo(S, 0) = 0
  <2>1. {q \in 1..0 : q \in S} = {}
    OBVIOUS
  <2> QED
    BY <2>1, FS_EmptySet DEF UpTo
<1>4. CASE p + 1 \in S
  <2>1. {q \in 1..(p + 1) : q \in S} = T \cup {p + 1}
    BY <1>4
  <2>2. p + 1 \notin T
    OBVIOUS
  <2>3. Cardinality(T \cup {p + 1}) = Cardinality(T) + 1
    BY <1>2, <2>2, FS_AddElement
  <2> QED
    BY <1>2, <1>3, <1>4, <2>1, <2>3 DEF UpTo
<1>5. CASE p + 1 \notin S
  <2>1. {q \in 1..(p + 1) : q \in S} = T
    BY <1>5
  <2> QED
    BY <1>2, <1>3, <1>5, <2>1 DEF UpTo
<1> QED
  BY <1>4, <1>5

\* More positions do not count for less.
LEMMA UpToGrows ==
    ASSUME NEW S, NEW p \in Nat, NEW q \in Nat, p <= q
    PROVE  UpTo(S, p) <= UpTo(S, q)
<1>1. {r \in 1..p : r \in S} \subseteq {r \in 1..q : r \in S} /\ {r \in 1..q : r \in S} \subseteq 1..q
  OBVIOUS
<1>2. IsFiniteSet(1..q)
  BY FS_Interval
<1>3. IsFiniteSet({r \in 1..q : r \in S})
  BY <1>1, <1>2, FS_Subset
<1> QED
  BY <1>1, <1>3, FS_Subset DEF UpTo

\* The l-th position in S: there is one, if there are so many, and no other.
LEMMA UpToReaches ==
    ASSUME NEW S, NEW n \in Nat, NEW l \in 1..UpTo(S, n)
    PROVE  \E p \in 1..n : p \in S /\ UpTo(S, p) = l
<1> DEFINE R == {p \in Nat : UpTo(S, p) >= l}
<1>1. UpTo(S, n) \in Nat /\ n \in R /\ R \in SUBSET Nat
  BY UpToNext
<1>2. Min(R) \in R /\ \A t \in R : Min(R) <= t
  BY <1>1, MinIsFirst
<1>3. PICK p \in R : \A t \in R : p <= t
  BY <1>2
<1>4. p \in Nat /\ p # 0 /\ p <= n
  BY <1>1, <1>3, UpToNext
<1>5. p - 1 \in Nat /\ UpTo(S, p - 1) \in Nat /\ UpTo(S, (p - 1) + 1) = UpTo(S, p - 1) + (IF (p - 1) + 1 \in S THEN 1 ELSE 0)
  BY <1>4, UpToNext
<1>6. p - 1 \notin R
  BY <1>3, <1>4
<1>7. (p - 1) + 1 = p
  BY <1>4
<1>8. UpTo(S, p) >= l /\ UpTo(S, p - 1) < l
  BY <1>3, <1>5, <1>6, UpToNext
<1>9. p \in S /\ UpTo(S, p) = l
  BY <1>5, <1>7, <1>8
<1> QED
  BY <1>4, <1>9

\* Members up to which as many are counted are the same.
LEMMA UpToUnique ==
    ASSUME NEW S, NEW p \in Nat \ {0}, NEW q \in Nat \ {0}, p \in S, q \in S, UpTo(S, p) = UpTo(S, q)
    PROVE  p = q
<1>1. ASSUME NEW a \in Nat, NEW b \in Nat \ {0}, a < b, b \in S
      PROVE  UpTo(S, a) < UpTo(S, b)
  <2>1. b - 1 \in Nat /\ (b - 1) + 1 = b /\ a <= b - 1
    BY <1>1
  <2>2. UpTo(S, a) <= UpTo(S, b - 1)
    BY <2>1, UpToGrows
  <2>3. UpTo(S, a) \in Nat /\ UpTo(S, b - 1) \in Nat /\ UpTo(S, b) = UpTo(S, b - 1) + 1
    <3>1. UpTo(S, b - 1) \in Nat /\ UpTo(S, (b - 1) + 1) = UpTo(S, b - 1) + (IF (b - 1) + 1 \in S THEN 1 ELSE 0)
      BY <2>1, UpToNext
    <3> QED
      BY <1>1, <2>1, <3>1, UpToNext
  <2> QED
    BY <2>2, <2>3
<1>2. UpTo(S, p) \in Nat /\ UpTo(S, q) \in Nat
  BY UpToNext
<1>3. ~(p < q) /\ ~(q < p)
  BY <1>1, <1>2
<1> QED
  BY <1>3

--------------------------------------------------------------------------------
(* The lines of the two files. *)

\* The entries of the lines of the old file, and of the new one.
OldAt(d) == {q \in DOMAIN d : InOld(d[q])}
NewAt(d) == {q \in DOMAIN d : InNew(d[q])}

\* The lines of a file are counted like any positions.
LEMMA ToIsUpTo ==
    ASSUME NEW d \in Seq(Entry), NEW p \in 0..Len(d)
    PROVE  OldTo(d, p) = UpTo(OldAt(d), p) /\ NewTo(d, p) = UpTo(NewAt(d), p)
<1>1. {q \in 1..p : InOld(d[q])} = {q \in 1..p : q \in OldAt(d)}
  BY DEF OldAt
<1>2. {q \in 1..p : InNew(d[q])} = {q \in 1..p : q \in NewAt(d)}
  BY DEF NewAt
<1> QED
  BY <1>1, <1>2 DEF OldTo, NewTo, UpTo

\* Line numbers are natural numbers that end with the file.
LEMMA ToIsNat ==
    ASSUME NEW d \in Seq(Entry), NEW p \in 0..Len(d)
    PROVE  /\ OldTo(d, p) \in Nat /\ NewTo(d, p) \in Nat
           /\ OldTo(d, 0) = 0 /\ NewTo(d, 0) = 0
           /\ OldTo(d, p) <= OldTo(d, Len(d)) /\ NewTo(d, p) <= NewTo(d, Len(d))
<1>1. 0 \in 0..Len(d) /\ Len(d) \in 0..Len(d) /\ Len(d) \in Nat /\ p \in Nat /\ p <= Len(d)
  OBVIOUS
<1>2. /\ UpTo(OldAt(d), p) \in Nat /\ UpTo(OldAt(d), 0) = 0
      /\ UpTo(NewAt(d), p) \in Nat /\ UpTo(NewAt(d), 0) = 0
  BY <1>1, UpToNext
<1>3. /\ UpTo(OldAt(d), p) <= UpTo(OldAt(d), Len(d))
      /\ UpTo(NewAt(d), p) <= UpTo(NewAt(d), Len(d))
  BY <1>1, UpToGrows
<1> QED
  BY <1>1, <1>2, <1>3, ToIsUpTo

\* Every line is an entry of the diff, and of one only.
LEMMA LineIsEntry ==
    ASSUME NEW d \in Seq(Entry)
    PROVE  /\ \A l \in 1..OldTo(d, Len(d)) : \E p \in DOMAIN d : InOld(d[p]) /\ OldTo(d, p) = l
           /\ \A p, q \in DOMAIN d : InNew(d[p]) /\ InNew(d[q]) /\ NewTo(d, p) = NewTo(d, q) => p = q
<1>1. Len(d) \in Nat /\ Len(d) \in 0..Len(d) /\ DOMAIN d = 1..Len(d)
  OBVIOUS
<1>2. ASSUME NEW l \in 1..OldTo(d, Len(d))
      PROVE  \E p \in DOMAIN d : InOld(d[p]) /\ OldTo(d, p) = l
  <2>1. l \in 1..UpTo(OldAt(d), Len(d))
    BY <1>1, ToIsUpTo
  <2>2. PICK p \in 1..Len(d) : p \in OldAt(d) /\ UpTo(OldAt(d), p) = l
    BY <1>1, <2>1, UpToReaches
  <2>3. p \in 0..Len(d)
    BY <1>1
  <2> QED
    BY <1>1, <2>2, <2>3, ToIsUpTo DEF OldAt
<1>3. ASSUME NEW p \in DOMAIN d, NEW q \in DOMAIN d, InNew(d[p]), InNew(d[q]), NewTo(d, p) = NewTo(d, q)
      PROVE  p = q
  <2>1. /\ p \in Nat \ {0} /\ q \in Nat \ {0} /\ p \in 0..Len(d) /\ q \in 0..Len(d)
        /\ p \in NewAt(d) /\ q \in NewAt(d)
    BY <1>1, <1>3 DEF NewAt
  <2>2. UpTo(NewAt(d), p) = UpTo(NewAt(d), q)
    BY <1>3, <2>1, ToIsUpTo
  <2> QED
    BY <2>1, <2>2, UpToUnique
<1> QED
  BY <1>2, <1>3

\* What one more entry adds to the files; the lines before it stay where they are.
LEMMA OneMore ==
    ASSUME NEW d \in Seq(Entry), NEW e \in Entry
    PROVE  /\ Append(d, e) \in Seq(Entry) /\ Len(Append(d, e)) = Len(d) + 1
           /\ DOMAIN Append(d, e) = DOMAIN d \cup {Len(d) + 1}
           /\ Append(d, e)[Len(d) + 1] = e
           /\ \A p \in 1..Len(d) : Append(d, e)[p] = d[p]
           /\ \A p \in 0..Len(d) : OldTo(Append(d, e), p) = OldTo(d, p) /\ NewTo(Append(d, e), p) = NewTo(d, p)
           /\ OldTo(Append(d, e), Len(d) + 1) = OldTo(d, Len(d)) + (IF InOld(e) THEN 1 ELSE 0)
           /\ NewTo(Append(d, e), Len(d) + 1) = NewTo(d, Len(d)) + (IF InNew(e) THEN 1 ELSE 0)
<1> DEFINE f == Append(d, e)
<1>1. /\ f \in Seq(Entry) /\ Len(f) = Len(d) + 1 /\ f[Len(d) + 1] = e /\ Len(d) \in Nat
      /\ DOMAIN f = 1..(Len(d) + 1) /\ \A p \in 1..Len(d) : f[p] = d[p]
  OBVIOUS
<1> HIDE DEF f
<1>2. DOMAIN f = DOMAIN d \cup {Len(d) + 1}
  <2>1. DOMAIN d = 1..Len(d)
    OBVIOUS
  <2> QED
    BY <1>1, <2>1
<1>3. ASSUME NEW p \in 0..Len(d)
      PROVE  OldTo(f, p) = OldTo(d, p) /\ NewTo(f, p) = NewTo(d, p)
  <2>1. \A q \in 1..p : f[q] = d[q]
    BY <1>1
  <2>2. {q \in 1..p : InOld(f[q])} = {q \in 1..p : InOld(d[q])}
    BY <2>1
  <2>3. {q \in 1..p : InNew(f[q])} = {q \in 1..p : InNew(d[q])}
    BY <2>1
  <2> QED
    BY <2>2, <2>3 DEF OldTo, NewTo
<1>4. Len(d) \in 0..Len(d) /\ Len(d) \in 0..Len(f) /\ Len(d) + 1 \in 0..Len(f)
  BY <1>1
<1>5. OldTo(f, Len(d) + 1) = OldTo(d, Len(d)) + (IF InOld(e) THEN 1 ELSE 0)
  <2>1. UpTo(OldAt(f), Len(d) + 1) = UpTo(OldAt(f), Len(d)) + (IF Len(d) + 1 \in OldAt(f) THEN 1 ELSE 0)
    BY <1>1, UpToNext
  <2>2. Len(d) + 1 \in OldAt(f) <=> InOld(e)
    BY <1>1 DEF OldAt
  <2>3. OldTo(f, Len(d) + 1) = OldTo(f, Len(d)) + (IF InOld(e) THEN 1 ELSE 0)
    BY <1>1, <1>4, <2>1, <2>2, ToIsUpTo
  <2> QED
    BY <1>3, <1>4, <2>3
<1>6. NewTo(f, Len(d) + 1) = NewTo(d, Len(d)) + (IF InNew(e) THEN 1 ELSE 0)
  <2>1. UpTo(NewAt(f), Len(d) + 1) = UpTo(NewAt(f), Len(d)) + (IF Len(d) + 1 \in NewAt(f) THEN 1 ELSE 0)
    BY <1>1, UpToNext
  <2>2. Len(d) + 1 \in NewAt(f) <=> InNew(e)
    BY <1>1 DEF NewAt
  <2>3. NewTo(f, Len(d) + 1) = NewTo(f, Len(d)) + (IF InNew(e) THEN 1 ELSE 0)
    BY <1>1, <1>4, <2>1, <2>2, ToIsUpTo
  <2> QED
    BY <1>3, <1>4, <2>3
<1> QED
  BY <1>1, <1>2, <1>3, <1>5, <1>6 DEF f

--------------------------------------------------------------------------------
(* Reading the diff, one entry at a time. *)

\* The fields of a change, and where it ends.
LEMMA ChangeIs ==
    ASSUME NEW ch \in Change
    PROVE  /\ ch.delStart \in Nat \ {0} /\ ch.addStart \in Nat \ {0}
           /\ ch.dels \in Seq(Lines) /\ ch.adds \in Seq(Lines)
           /\ DelEnd(ch) \in Nat /\ AddEnd(ch) \in Nat
           /\ DelEnd(ch) = ch.delStart + Len(ch.dels) /\ AddEnd(ch) = ch.addStart + Len(ch.adds)
           /\ ch.delStart <= DelEnd(ch) /\ ch.addStart <= AddEnd(ch)
BY DEF Change, DelEnd, AddEnd

\* No change ends after the last one.
LEMMA LastEndsLast ==
    ASSUME NEW chs \in Seq(Change), chs # <<>>, NEW old, NEW new, Chain(chs, old, new)
    PROVE  /\ Len(chs) \in DOMAIN chs /\ Len(chs) \in Nat /\ LastOf(chs) \in Change
           /\ \A i \in DOMAIN chs : /\ chs[i] \in Change
                                    /\ DelEnd(chs[i]) <= DelEnd(LastOf(chs))
                                    /\ AddEnd(chs[i]) <= AddEnd(LastOf(chs))
<1>1. Len(chs) \in DOMAIN chs /\ Len(chs) \in Nat /\ \A i \in DOMAIN chs : chs[i] \in Change
  OBVIOUS
<1>2. LastOf(chs) \in Change
  BY <1>1 DEF LastOf
<1>3. ASSUME NEW i \in DOMAIN chs, i # Len(chs)
      PROVE  DelEnd(chs[i]) <= DelEnd(LastOf(chs)) /\ AddEnd(chs[i]) <= AddEnd(LastOf(chs))
  <2>1. i < Len(chs)
    BY <1>1, <1>3
  <2>2. DelEnd(chs[i]) < LastOf(chs).delStart /\ AddEnd(chs[i]) < LastOf(chs).addStart
    BY <1>1, <2>1 DEF Chain, LastOf
  <2>3. chs[i] \in Change
    BY <1>1
  <2> QED
    BY <1>2, <2>2, <2>3, ChangeIs
<1>4. DelEnd(LastOf(chs)) \in Nat /\ AddEnd(LastOf(chs)) \in Nat
  BY <1>2, ChangeIs
<1> QED
  BY <1>1, <1>2, <1>3, <1>4 DEF LastOf

\* A line kept is one more in both files, behind all changes.
LEMMA ReadKept ==
    ASSUME NEW d \in Seq(Entry), NEW chs \in Seq(Change), NEW e \in Entry, e.op \in {"keep", "skip"},
           Chain(chs, OldTo(d, Len(d)), NewTo(d, Len(d))), Accounts(d, chs)
    PROVE  /\ Accounts(Append(d, e), chs)
           /\ Chain(chs, OldTo(d, Len(d)) + 1, NewTo(d, Len(d)) + 1)
<1> DEFINE old == OldTo(d, Len(d))
           new == NewTo(d, Len(d))
           n == Len(d) + 1
           f == Append(d, e)
<1>1. /\ f \in Seq(Entry) /\ DOMAIN f = DOMAIN d \cup {n} /\ f[n] = e
      /\ \A p \in DOMAIN d : f[p] = d[p] /\ OldTo(f, p) = OldTo(d, p) /\ NewTo(f, p) = NewTo(d, p)
      /\ OldTo(f, n) = old + 1 /\ NewTo(f, n) = new + 1
  <2>1. InOld(e) /\ InNew(e)
    BY DEF InOld, InNew
  <2>2. DOMAIN d = 1..Len(d) /\ DOMAIN d \subseteq 0..Len(d)
    OBVIOUS
  <2> QED
    BY <2>1, <2>2, OneMore
<1>2. old \in Nat /\ new \in Nat
  <2>1. Len(d) \in 0..Len(d)
    OBVIOUS
  <2> QED
    BY <2>1, ToIsNat
<1> HIDE DEF old, new, n, f
<1>3. Chain(chs, old, new) /\ Accounts(d, chs)
  BY DEF old, new
<1>4. Chain(chs, old + 1, new + 1)
  <2>1. CASE chs = <<>>
    BY <1>2, <1>3, <2>1 DEF Chain
  <2>2. CASE chs # <<>>
    <3>1. DelEnd(LastOf(chs)) \in Nat /\ AddEnd(LastOf(chs)) \in Nat
      BY <1>3, <2>2, LastEndsLast, ChangeIs
    <3> QED
      BY <1>2, <1>3, <2>2, <3>1 DEF Chain
  <2> QED
    BY <2>1, <2>2
<1>5. RemovedIn(f, chs)
  BY <1>1, <1>3 DEF Accounts, RemovedIn
<1>6. AddedIn(f, chs)
  BY <1>1, <1>3 DEF Accounts, AddedIn
<1>7. AddsOf(f, chs)
  BY <1>1, <1>3 DEF Accounts, AddsOf
<1>8. KeptAt(chs, old + 1, new + 1)
  <2>1. CASE chs = <<>>
    BY <1>2, <1>3, <2>1 DEF KeptAt, Chain
  <2>2. CASE chs # <<>>
    <3>1. /\ DelEnd(LastOf(chs)) \in Nat /\ AddEnd(LastOf(chs)) \in Nat
          /\ DelEnd(LastOf(chs)) <= old + 1
          /\ old - DelEnd(LastOf(chs)) = new - AddEnd(LastOf(chs))
      BY <1>3, <2>2, LastEndsLast, ChangeIs DEF Chain
    <3>2. ASSUME NEW i \in DOMAIN chs
          PROVE  ~Removes(chs[i], old + 1) /\ ~(old + 1 < chs[i].delStart)
      <4>1. chs[i] \in Change /\ DelEnd(chs[i]) <= DelEnd(LastOf(chs))
        BY <1>3, <2>2, LastEndsLast
      <4>2. DelEnd(chs[i]) \in Nat /\ chs[i].delStart \in Nat /\ chs[i].delStart <= DelEnd(chs[i])
        BY <4>1, ChangeIs
      <4> QED
        BY <1>2, <3>1, <4>1, <4>2 DEF Removes
    <3>3. (new + 1) - (old + 1) = AddEnd(LastOf(chs)) - DelEnd(LastOf(chs))
      BY <1>2, <3>1
    <3> QED
      BY <2>2, <3>2, <3>3 DEF KeptAt
  <2> QED
    BY <2>1, <2>2
<1>9. Kept(f, chs)
  BY <1>1, <1>3, <1>8 DEF Accounts, Kept
<1> QED
  BY <1>4, <1>5, <1>6, <1>7, <1>9 DEF Accounts, old, new, f

\* What a sequence with one more element is.
LEMMA AppendIs ==
    ASSUME NEW S, NEW s \in Seq(S), NEW e \in S
    PROVE  LET t == Append(s, e)
               n == Len(s) + 1
           IN  /\ t \in Seq(S) /\ Len(t) = n /\ n \in Nat \ {0} /\ DOMAIN t = DOMAIN s \cup {n} /\ t[n] = e
               /\ \A i \in DOMAIN s : t[i] = s[i] /\ i \in Nat /\ i < n /\ i >= 1
               /\ t # <<>> /\ DOMAIN s = 1..(n - 1)
               /\ s = <<>> => n = 1
               /\ s # <<>> => n > 1 /\ t[n - 1] = s[Len(s)] /\ t[1] = s[1]
<1> DEFINE t == Append(s, e)
           n == Len(s) + 1
<1>1. t \in Seq(S) /\ Len(t) = n /\ t[n] = e /\ \A i \in 1..Len(s) : t[i] = s[i]
  OBVIOUS
<1>2. Len(s) \in Nat /\ DOMAIN s = 1..Len(s) /\ (s # <<>> => Len(s) >= 1) /\ (s = <<>> => Len(s) = 0)
  OBVIOUS
<1>3. DOMAIN t = 1..n
  BY <1>1
<1> HIDE DEF t
<1>4. DOMAIN t = DOMAIN s \cup {n} /\ t # <<>>
  BY <1>1, <1>2, <1>3
<1>5. \A i \in DOMAIN s : t[i] = s[i] /\ i \in Nat /\ i < n /\ i >= 1
  BY <1>1, <1>2
<1>6. s # <<>> => n > 1 /\ t[n - 1] = s[Len(s)] /\ t[1] = s[1]
  <2>1. s # <<>> => Len(s) \in 1..Len(s) /\ 1 \in 1..Len(s) /\ n - 1 = Len(s)
    BY <1>2
  <2> QED
    BY <1>1, <1>2, <2>1
<1>7. n \in Nat \ {0} /\ DOMAIN s = 1..(n - 1) /\ (s = <<>> => n = 1)
  BY <1>2
<1> QED
  BY <1>1, <1>4, <1>5, <1>6, <1>7 DEF t

\* The change begun after the last line of context: it has no lines yet.
Begun(old, new) == [delStart |-> old + 1, addStart |-> new + 1, dels |-> <<>>, adds |-> <<>>]

\* A change that has no lines yet changes nothing.
LEMMA ReadBegun ==
    ASSUME NEW d \in Seq(Entry), NEW chs \in Seq(Change),
           Chain(chs, OldTo(d, Len(d)), NewTo(d, Len(d))), Accounts(d, chs),
           chs # <<>> => DelEnd(LastOf(chs)) <= OldTo(d, Len(d)),
           NEW ch, ch = Begun(OldTo(d, Len(d)), NewTo(d, Len(d)))
    PROVE  /\ ch \in Change
           /\ Accounts(d, Append(chs, ch))
           /\ Chain(Append(chs, ch), OldTo(d, Len(d)), NewTo(d, Len(d)))
<1> DEFINE old == OldTo(d, Len(d))
           new == NewTo(d, Len(d))
           n == Len(chs) + 1
           more == Append(chs, ch)
<1>1. old \in Nat /\ new \in Nat /\ \A p \in DOMAIN d : OldTo(d, p) \in Nat /\ NewTo(d, p) \in Nat /\ OldTo(d, p) <= old
  <2>1. Len(d) \in 0..Len(d) /\ DOMAIN d \subseteq 0..Len(d)
    OBVIOUS
  <2> QED
    BY <2>1, ToIsNat
<1> HIDE DEF old, new
<1>2. /\ ch = Begun(old, new) /\ Chain(chs, old, new) /\ Accounts(d, chs)
      /\ chs # <<>> => DelEnd(LastOf(chs)) <= old
  BY DEF old, new
<1>3. /\ ch.delStart = old + 1 /\ ch.addStart = new + 1 /\ ch.dels = <<>> /\ ch.adds = <<>>
      /\ ch \in Change /\ DelEnd(ch) = old + 1 /\ AddEnd(ch) = new + 1
  BY <1>1, <1>2 DEF Begun, Change, DelEnd, AddEnd
<1>4. /\ more \in Seq(Change) /\ Len(more) = n /\ n \in Nat \ {0} /\ DOMAIN more = DOMAIN chs \cup {n} /\ more[n] = ch
      /\ \A i \in DOMAIN chs : more[i] = chs[i] /\ i \in Nat /\ i < n /\ i >= 1
      /\ more # <<>> /\ LastOf(more) = ch /\ DOMAIN chs = 1..(n - 1)
      /\ chs = <<>> => n = 1
      /\ chs # <<>> => n > 1 /\ more[n - 1] = LastOf(chs) /\ more[1] = chs[1]
  BY <1>3, AppendIs DEF LastOf
<1> HIDE DEF n, more
<1>5. ASSUME chs # <<>>
      PROVE  /\ DelEnd(LastOf(chs)) \in Nat /\ AddEnd(LastOf(chs)) \in Nat
             /\ DelEnd(LastOf(chs)) <= old
             /\ old - DelEnd(LastOf(chs)) = new - AddEnd(LastOf(chs))
             /\ \A i \in DOMAIN chs : /\ DelEnd(chs[i]) \in Nat /\ AddEnd(chs[i]) \in Nat
                                      /\ DelEnd(chs[i]) <= DelEnd(LastOf(chs))
                                      /\ AddEnd(chs[i]) <= AddEnd(LastOf(chs))
  BY <1>2, <1>5, LastEndsLast, ChangeIs DEF Chain
<1>6. Chain(more, old, new)
  <2>1. more[1].delStart = more[1].addStart
    <3>1. CASE chs = <<>>
      BY <1>2, <1>3, <1>4, <3>1 DEF Chain
    <3>2. CASE chs # <<>>
      BY <1>2, <1>4, <3>2 DEF Chain
    <3> QED
      BY <3>1, <3>2
  <2>2. ASSUME NEW i \in DOMAIN more, i > 1
        PROVE  more[i].delStart - DelEnd(more[i - 1]) = more[i].addStart - AddEnd(more[i - 1])
    <3>1. CASE i = n
      <4>1. chs # <<>>
        BY <1>4, <2>2, <3>1
      <4>2. (old + 1) - DelEnd(LastOf(chs)) = (new + 1) - AddEnd(LastOf(chs))
        BY <1>1, <1>5, <4>1
      <4> QED
        BY <1>3, <1>4, <3>1, <4>1, <4>2
    <3>2. CASE i \in DOMAIN chs
      <4>1. i - 1 \in DOMAIN chs
        BY <1>4, <2>2, <3>2
      <4> QED
        BY <1>2, <1>4, <2>2, <3>2, <4>1 DEF Chain
    <3> QED
      BY <1>4, <3>1, <3>2
  <2>3. ASSUME NEW i \in DOMAIN more, NEW j \in DOMAIN more, i < j
        PROVE  DelEnd(more[i]) < more[j].delStart /\ AddEnd(more[i]) < more[j].addStart
    <3>1. i \in DOMAIN chs
      BY <1>4, <2>3
    <3>2. CASE j = n
      <4>1. chs # <<>>
        BY <3>1
      <4>2. DelEnd(chs[i]) < old + 1 /\ AddEnd(chs[i]) < new + 1
        BY <1>1, <1>5, <3>1, <4>1
      <4> QED
        BY <1>3, <1>4, <3>1, <3>2, <4>2
    <3>3. CASE j \in DOMAIN chs
      BY <1>2, <1>4, <2>3, <3>1, <3>3 DEF Chain
    <3> QED
      BY <1>4, <3>2, <3>3
  <2>4. old - DelEnd(ch) = new - AddEnd(ch) /\ DelEnd(ch) <= old + 1
    BY <1>1, <1>3
  <2> QED
    BY <1>4, <2>1, <2>2, <2>3, <2>4 DEF Chain
<1>7. RemovedIn(d, more)
  BY <1>2, <1>4 DEF Accounts, RemovedIn
<1>8. AddedIn(d, more)
  BY <1>2, <1>4 DEF Accounts, AddedIn
<1>9. AddsOf(d, more)
  BY <1>2, <1>3, <1>4 DEF Accounts, AddsOf
<1>10. Kept(d, more)
  <2>1. SUFFICES ASSUME NEW p \in DOMAIN d, d[p].op \in {"keep", "skip"}
                 PROVE  KeptAt(more, OldTo(d, p), NewTo(d, p))
    BY DEF Kept
  <2> DEFINE l == OldTo(d, p)
             m == NewTo(d, p)
  <2>2. l \in Nat /\ m \in Nat /\ l <= old /\ KeptAt(chs, l, m)
    BY <1>1, <1>2, <2>1 DEF Accounts, Kept
  <2> HIDE DEF l, m
  <2>3. ~(l >= DelEnd(ch)) /\ ~Removes(ch, l)
    BY <1>1, <1>3, <2>2 DEF Removes
  <2>4. \A i \in DOMAIN more : ~Removes(more[i], l)
    BY <1>4, <2>2, <2>3 DEF KeptAt
  <2>5. ASSUME NEW i \in DOMAIN more, l < more[i].delStart, i > 1 => l >= DelEnd(more[i - 1])
        PROVE  m - l = more[i].addStart - more[i].delStart
    <3>1. CASE i \in DOMAIN chs
      <4>1. i > 1 => i - 1 \in DOMAIN chs
        BY <1>4, <3>1
      <4> QED
        BY <1>4, <2>2, <2>5, <3>1, <4>1 DEF KeptAt
    <3>2. CASE i = n /\ chs = <<>>
      <4>1. m = l /\ old = new
        BY <1>2, <2>2, <3>2 DEF KeptAt, Chain
      <4> QED
        BY <1>1, <1>3, <1>4, <2>2, <3>2, <4>1
    <3>3. CASE i = n /\ chs # <<>>
      <4>1. l >= DelEnd(LastOf(chs))
        BY <1>4, <2>5, <3>3
      <4>2. m - l = AddEnd(LastOf(chs)) - DelEnd(LastOf(chs))
        BY <2>2, <3>3, <4>1 DEF KeptAt
      <4>3. m - l = (new + 1) - (old + 1)
        BY <1>1, <1>5, <2>2, <3>3, <4>2
      <4> QED
        BY <1>3, <1>4, <3>3, <4>3
    <3> QED
      BY <1>4, <3>1, <3>2, <3>3
  <2>6. KeptAt(more, l, m)
    BY <1>4, <2>3, <2>4, <2>5 DEF KeptAt
  <2> QED
    BY <2>6 DEF l, m
<1> QED
  BY <1>3, <1>6, <1>7, <1>8, <1>9, <1>10 DEF Accounts, old, new, more

\* The change that is being read may grow at its end.
LEMMA ChainGrows ==
    ASSUME NEW c0 \in Seq(Change), NEW ch \in Change, NEW c2 \in Change,
           NEW old, NEW new, NEW old2 \in Nat, NEW new2 \in Nat,
           Chain(Append(c0, ch), old, new),
           c2.delStart = ch.delStart, c2.addStart = ch.addStart,
           DelEnd(c2) = old2 + 1, AddEnd(c2) = new2 + 1
    PROVE  Chain(Append(c0, c2), old2, new2)
<1> DEFINE n == Len(c0) + 1
           s == Append(c0, ch)
           t == Append(c0, c2)
<1>1. /\ n \in Nat \ {0} /\ DOMAIN s = DOMAIN c0 \cup {n} /\ DOMAIN t = DOMAIN c0 \cup {n}
      /\ s[n] = ch /\ t[n] = c2 /\ s # <<>> /\ t # <<>> /\ Len(t) = n
      /\ \A i \in DOMAIN c0 : t[i] = s[i] /\ i \in Nat /\ i < n /\ i >= 1
      /\ DOMAIN c0 = 1..(n - 1) /\ 1 \in DOMAIN s
  BY AppendIs
<1> HIDE DEF n, s, t
<1>2. Chain(s, old, new)
  BY DEF s
<1>3. \A i \in DOMAIN s : t[i].delStart = s[i].delStart /\ t[i].addStart = s[i].addStart
  BY <1>1
<1>4. \A i \in DOMAIN c0 : DelEnd(t[i]) = DelEnd(s[i]) /\ AddEnd(t[i]) = AddEnd(s[i])
  BY <1>1
<1>5. LastOf(t) = c2
  BY <1>1 DEF LastOf
<1>6. t[1].delStart = t[1].addStart
  BY <1>1, <1>2, <1>3 DEF Chain
<1>7. old2 - DelEnd(c2) = new2 - AddEnd(c2) /\ DelEnd(c2) <= old2 + 1
  OBVIOUS
<1>8. ASSUME NEW i \in DOMAIN t, i > 1
      PROVE  t[i].delStart - DelEnd(t[i - 1]) = t[i].addStart - AddEnd(t[i - 1])
  <2>1. i - 1 \in DOMAIN c0 /\ i \in DOMAIN s
    BY <1>1, <1>8
  <2> QED
    BY <1>2, <1>3, <1>4, <1>8, <2>1 DEF Chain
<1>9. ASSUME NEW i \in DOMAIN t, NEW j \in DOMAIN t, i < j
      PROVE  DelEnd(t[i]) < t[j].delStart /\ AddEnd(t[i]) < t[j].addStart
  <2>1. i \in DOMAIN c0 /\ i \in DOMAIN s /\ j \in DOMAIN s
    BY <1>1, <1>9
  <2> QED
    BY <1>2, <1>3, <1>4, <1>9, <2>1 DEF Chain
<1> QED
  BY <1>1, <1>5, <1>6, <1>7, <1>8, <1>9 DEF Chain, t

\* What is known of the lines kept does not depend on lines of the last change beyond them.
LEMMA KeptStays ==
    ASSUME NEW c0 \in Seq(Change), NEW ch \in Change, NEW c2 \in Change, NEW l \in Nat, NEW m,
           KeptAt(Append(c0, ch), l, m), l < DelEnd(ch),
           c2.delStart = ch.delStart, c2.addStart = ch.addStart, DelEnd(ch) <= DelEnd(c2)
    PROVE  KeptAt(Append(c0, c2), l, m)
<1> DEFINE n == Len(c0) + 1
           s == Append(c0, ch)
           t == Append(c0, c2)
<1>1. /\ n \in Nat \ {0} /\ DOMAIN s = DOMAIN c0 \cup {n} /\ DOMAIN t = DOMAIN c0 \cup {n}
      /\ s[n] = ch /\ t[n] = c2 /\ s # <<>> /\ t # <<>> /\ Len(t) = n
      /\ \A i \in DOMAIN c0 : t[i] = s[i] /\ i \in Nat /\ i < n /\ i >= 1
      /\ DOMAIN c0 = 1..(n - 1)
  BY AppendIs
<1> HIDE DEF n, s, t
<1>2. KeptAt(s, l, m)
  BY DEF s
<1>3. l < ch.delStart /\ ~(l >= DelEnd(c2)) /\ ~Removes(c2, l) /\ DelEnd(ch) \in Nat /\ DelEnd(c2) \in Nat
  <2>1. ~Removes(ch, l)
    BY <1>1, <1>2 DEF KeptAt
  <2>2. DelEnd(ch) \in Nat /\ DelEnd(c2) \in Nat /\ ch.delStart \in Nat
    BY ChangeIs
  <2> QED
    BY <2>1, <2>2 DEF Removes
<1>4. \A i \in DOMAIN t : ~Removes(t[i], l)
  BY <1>1, <1>2, <1>3 DEF KeptAt
<1>5. ASSUME NEW i \in DOMAIN t, l < t[i].delStart, i > 1 => l >= DelEnd(t[i - 1])
      PROVE  m - l = t[i].addStart - t[i].delStart
  <2>1. i \in DOMAIN s /\ t[i].delStart = s[i].delStart /\ t[i].addStart = s[i].addStart
    BY <1>1
  <2>2. i > 1 => i - 1 \in DOMAIN c0
    BY <1>1, <2>1
  <2>3. i > 1 => DelEnd(t[i - 1]) = DelEnd(s[i - 1])
    BY <1>1, <2>2
  <2> QED
    BY <1>2, <1>5, <2>1, <2>3 DEF KeptAt
<1>6. LastOf(t) = c2
  BY <1>1 DEF LastOf
<1>7. KeptAt(t, l, m)
  BY <1>1, <1>3, <1>4, <1>5, <1>6 DEF KeptAt
<1> QED
  BY <1>7 DEF t

\* A line removed comes last in the change, which has not added any.
LEMMA ReadRemoved ==
    ASSUME NEW d \in Seq(Entry), NEW c0 \in Seq(Change), NEW ch \in Change, NEW c2, NEW x \in Lines,
           Chain(Append(c0, ch), OldTo(d, Len(d)), NewTo(d, Len(d))), Accounts(d, Append(c0, ch)),
           DelEnd(ch) = OldTo(d, Len(d)) + 1, AddEnd(ch) = NewTo(d, Len(d)) + 1, ch.adds = <<>>,
           c2 = [delStart |-> ch.delStart, addStart |-> ch.addStart, dels |-> ch.dels \o <<x>>, adds |-> ch.adds]
    PROVE  LET e == [op |-> "del", line |-> x]
           IN  /\ c2 \in Change /\ e \in Entry
               /\ Accounts(Append(d, e), Append(c0, c2))
               /\ Chain(Append(c0, c2), OldTo(d, Len(d)) + 1, NewTo(d, Len(d)))
<1> DEFINE old == OldTo(d, Len(d))
           new == NewTo(d, Len(d))
           e == [op |-> "del", line |-> x]
           k == Len(d) + 1
           f == Append(d, e)
           n == Len(c0) + 1
           s == Append(c0, ch)
           t == Append(c0, c2)
<1>1. e \in Entry /\ e.op = "del" /\ e.line = x /\ InOld(e) /\ ~InNew(e)
  BY DEF Entry, InOld, InNew
<1>2. old \in Nat /\ new \in Nat /\ \A p \in DOMAIN d : OldTo(d, p) \in Nat /\ OldTo(d, p) <= old
  <2>1. Len(d) \in 0..Len(d) /\ DOMAIN d \subseteq 0..Len(d)
    OBVIOUS
  <2> QED
    BY <2>1, ToIsNat
<1>3. /\ f \in Seq(Entry) /\ DOMAIN f = DOMAIN d \cup {k} /\ f[k] = e
      /\ \A p \in DOMAIN d : f[p] = d[p] /\ OldTo(f, p) = OldTo(d, p) /\ NewTo(f, p) = NewTo(d, p)
      /\ OldTo(f, k) = old + 1 /\ NewTo(f, k) = new
  <2>1. DOMAIN d = 1..Len(d) /\ DOMAIN d \subseteq 0..Len(d)
    OBVIOUS
  <2> QED
    BY <1>1, <1>2, <2>1, OneMore
<1> HIDE DEF old, new, e, k, f
<1>4. /\ ch.delStart \in Nat \ {0} /\ ch.dels \in Seq(Lines) /\ Len(ch.dels) \in Nat
      /\ DelEnd(ch) = old + 1 /\ AddEnd(ch) = new + 1 /\ DelEnd(ch) = ch.delStart + Len(ch.dels)
  BY ChangeIs DEF old, new
<1>5. /\ c2.delStart = ch.delStart /\ c2.addStart = ch.addStart /\ c2.dels = ch.dels \o <<x>> /\ c2.adds = <<>>
      /\ c2 \in Change
  BY ChangeIs DEF Change
<1>6. /\ c2.dels \in Seq(Lines) /\ Len(c2.dels) = Len(ch.dels) + 1
      /\ \A j \in 1..Len(ch.dels) : c2.dels[j] = ch.dels[j]
      /\ c2.dels[Len(ch.dels) + 1] = x
  BY <1>4, <1>5
<1>7. DelEnd(c2) = old + 2 /\ AddEnd(c2) = new + 1
  <2>1. DelEnd(c2) = c2.delStart + (Len(ch.dels) + 1)
    BY <1>5, <1>6, ChangeIs
  <2>2. AddEnd(c2) = AddEnd(ch)
    BY <1>5 DEF AddEnd
  <2> QED
    BY <1>2, <1>4, <1>5, <2>1, <2>2
<1>8. /\ n \in Nat \ {0} /\ DOMAIN s = DOMAIN c0 \cup {n} /\ DOMAIN t = DOMAIN c0 \cup {n}
      /\ s[n] = ch /\ t[n] = c2 /\ \A i \in DOMAIN c0 : t[i] = s[i]
  BY <1>5, AppendIs
<1>9. Accounts(d, s) /\ Chain(s, old, new)
  BY DEF old, new
<1>10. Chain(t, old + 1, new)
  <2>1. old + 1 \in Nat /\ DelEnd(c2) = (old + 1) + 1
    BY <1>2, <1>7
  <2> QED
    BY <1>2, <1>5, <1>7, <1>9, <2>1, ChainGrows
<1> HIDE DEF n, s, t
<1>11. RemovedIn(f, t)
  <2>1. ASSUME NEW p \in DOMAIN d, d[p].op = "del"
        PROVE  \E i \in DOMAIN t : /\ Removes(t[i], OldTo(d, p))
                                   /\ t[i].dels[OldTo(d, p) - t[i].delStart + 1] = d[p].line
    <3>1. PICK i \in DOMAIN s : /\ Removes(s[i], OldTo(d, p))
                                /\ s[i].dels[OldTo(d, p) - s[i].delStart + 1] = d[p].line
      BY <1>9, <2>1 DEF Accounts, RemovedIn
    <3>2. CASE i = n
      <4> DEFINE l == OldTo(d, p)
      <4>1. l \in Nat /\ ch.delStart <= l /\ l < DelEnd(ch) /\ ch.dels[l - ch.delStart + 1] = d[p].line
        BY <1>2, <1>8, <3>1, <3>2 DEF Removes
      <4> HIDE DEF l
      <4>2. ch.delStart \in Nat /\ l < ch.delStart + Len(ch.dels) /\ l < old + 1 /\ c2.delStart = ch.delStart
        BY <1>4, <1>5, <4>1
      <4>3. l - ch.delStart + 1 \in 1..Len(ch.dels)
        BY <1>4, <4>1, <4>2
      <4>4. l < DelEnd(c2) /\ c2.delStart <= l
        BY <1>2, <1>7, <4>1, <4>2
      <4>5. c2.dels[l - c2.delStart + 1] = d[p].line
        BY <1>6, <4>1, <4>2, <4>3
      <4> QED
        BY <1>8, <4>4, <4>5 DEF Removes, l
    <3>3. CASE i \in DOMAIN c0
      BY <1>8, <3>1, <3>3
    <3> QED
      BY <1>8, <3>2, <3>3
  <2>2. /\ Removes(t[n], old + 1)
        /\ t[n].dels[(old + 1) - t[n].delStart + 1] = x
    <3>1. (old + 1) - c2.delStart + 1 = Len(ch.dels) + 1 /\ c2.delStart <= old + 1 /\ old + 1 < DelEnd(c2)
      BY <1>2, <1>4, <1>5, <1>7
    <3> QED
      BY <1>6, <1>8, <3>1 DEF Removes
  <2> QED
    BY <1>1, <1>3, <1>8, <2>1, <2>2 DEF RemovedIn
<1>12. AddedIn(f, t)
  <2>1. SUFFICES ASSUME NEW p \in DOMAIN f, f[p].op = "add"
                 PROVE  \E i \in DOMAIN t : t[i].adds # <<>> /\ OldTo(f, p) = DelEnd(t[i]) - 1
    BY DEF AddedIn
  <2>2. p \in DOMAIN d /\ d[p].op = "add" /\ OldTo(f, p) = OldTo(d, p)
    BY <1>1, <1>3, <2>1
  <2>3. PICK i \in DOMAIN s : s[i].adds # <<>> /\ OldTo(d, p) = DelEnd(s[i]) - 1
    BY <1>9, <2>2 DEF Accounts, AddedIn
  <2>4. i \in DOMAIN c0
    BY <1>8, <2>3
  <2>5. i \in DOMAIN t /\ t[i] = s[i]
    BY <1>8, <2>4
  <2> QED
    BY <2>2, <2>3, <2>5
<1>13. AddsOf(f, t)
  <2>1. SUFFICES ASSUME NEW i \in DOMAIN t, NEW j \in DOMAIN t[i].adds
                 PROVE  \E p \in DOMAIN f : /\ f[p].op = "add" /\ f[p].line = t[i].adds[j]
                                            /\ NewTo(f, p) = t[i].addStart + j - 1
    BY DEF AddsOf
  <2>2. i \in DOMAIN c0
    BY <1>5, <1>8, <2>1
  <2>3. i \in DOMAIN s /\ t[i] = s[i]
    BY <1>8, <2>2
  <2>4. PICK p \in DOMAIN d : /\ d[p].op = "add" /\ d[p].line = s[i].adds[j]
                              /\ NewTo(d, p) = s[i].addStart + j - 1
    BY <1>9, <2>1, <2>3 DEF Accounts, AddsOf
  <2> QED
    BY <1>3, <2>3, <2>4
<1>14. Kept(f, t)
  <2>1. ASSUME NEW p \in DOMAIN d, d[p].op \in {"keep", "skip"}
        PROVE  KeptAt(t, OldTo(d, p), NewTo(d, p))
    <3>1. KeptAt(s, OldTo(d, p), NewTo(d, p))
      BY <1>9, <2>1 DEF Accounts, Kept
    <3>2. OldTo(d, p) < DelEnd(ch) /\ DelEnd(ch) <= DelEnd(c2) /\ OldTo(d, p) \in Nat
      BY <1>2, <1>4, <1>7
    <3> QED
      BY <1>5, <3>1, <3>2, KeptStays DEF s, t
  <2> QED
    BY <1>1, <1>3, <2>1 DEF Kept
<1> QED
  BY <1>1, <1>5, <1>10, <1>11, <1>12, <1>13, <1>14 DEF Accounts, old, new, e, f, t

\* So does a line added.
LEMMA ReadAdded ==
    ASSUME NEW d \in Seq(Entry), NEW c0 \in Seq(Change), NEW ch \in Change, NEW c2, NEW x \in Lines,
           Chain(Append(c0, ch), OldTo(d, Len(d)), NewTo(d, Len(d))), Accounts(d, Append(c0, ch)),
           DelEnd(ch) = OldTo(d, Len(d)) + 1, AddEnd(ch) = NewTo(d, Len(d)) + 1,
           c2 = [delStart |-> ch.delStart, addStart |-> ch.addStart, dels |-> ch.dels, adds |-> ch.adds \o <<x>>]
    PROVE  LET e == [op |-> "add", line |-> x]
           IN  /\ c2 \in Change /\ e \in Entry
               /\ Accounts(Append(d, e), Append(c0, c2))
               /\ Chain(Append(c0, c2), OldTo(d, Len(d)), NewTo(d, Len(d)) + 1)
<1> DEFINE old == OldTo(d, Len(d))
           new == NewTo(d, Len(d))
           e == [op |-> "add", line |-> x]
           k == Len(d) + 1
           f == Append(d, e)
           n == Len(c0) + 1
           s == Append(c0, ch)
           t == Append(c0, c2)
<1>1. e \in Entry /\ e.op = "add" /\ e.line = x /\ ~InOld(e) /\ InNew(e)
  BY DEF Entry, InOld, InNew
<1>2. old \in Nat /\ new \in Nat /\ \A p \in DOMAIN d : OldTo(d, p) \in Nat /\ OldTo(d, p) <= old
  <2>1. Len(d) \in 0..Len(d) /\ DOMAIN d \subseteq 0..Len(d)
    OBVIOUS
  <2> QED
    BY <2>1, ToIsNat
<1>3. /\ f \in Seq(Entry) /\ DOMAIN f = DOMAIN d \cup {k} /\ f[k] = e
      /\ \A p \in DOMAIN d : f[p] = d[p] /\ OldTo(f, p) = OldTo(d, p) /\ NewTo(f, p) = NewTo(d, p)
      /\ OldTo(f, k) = old /\ NewTo(f, k) = new + 1
  <2>1. DOMAIN d = 1..Len(d) /\ DOMAIN d \subseteq 0..Len(d)
    OBVIOUS
  <2> QED
    BY <1>1, <1>2, <2>1, OneMore
<1> HIDE DEF old, new, e, k, f
<1>4. /\ ch.addStart \in Nat \ {0} /\ ch.adds \in Seq(Lines) /\ Len(ch.adds) \in Nat
      /\ DelEnd(ch) = old + 1 /\ AddEnd(ch) = new + 1 /\ AddEnd(ch) = ch.addStart + Len(ch.adds)
  BY ChangeIs DEF old, new
<1>5. /\ c2.delStart = ch.delStart /\ c2.addStart = ch.addStart /\ c2.dels = ch.dels /\ c2.adds = ch.adds \o <<x>>
      /\ c2 \in Change
  BY ChangeIs DEF Change
<1>6. /\ c2.adds \in Seq(Lines) /\ Len(c2.adds) = Len(ch.adds) + 1 /\ c2.adds # <<>>
      /\ \A j \in 1..Len(ch.adds) : c2.adds[j] = ch.adds[j]
      /\ c2.adds[Len(ch.adds) + 1] = x
      /\ DOMAIN c2.adds = DOMAIN ch.adds \cup {Len(ch.adds) + 1} /\ DOMAIN ch.adds = 1..Len(ch.adds)
  BY <1>4, <1>5
<1>7. DelEnd(c2) = old + 1 /\ AddEnd(c2) = new + 2
  <2>1. AddEnd(c2) = c2.addStart + (Len(ch.adds) + 1)
    BY <1>5, <1>6, ChangeIs
  <2>2. DelEnd(c2) = DelEnd(ch)
    BY <1>5 DEF DelEnd
  <2> QED
    BY <1>2, <1>4, <1>5, <2>1, <2>2
<1>8. /\ n \in Nat \ {0} /\ DOMAIN s = DOMAIN c0 \cup {n} /\ DOMAIN t = DOMAIN c0 \cup {n}
      /\ s[n] = ch /\ t[n] = c2 /\ \A i \in DOMAIN c0 : t[i] = s[i]
  BY <1>5, AppendIs
<1>9. Accounts(d, s) /\ Chain(s, old, new)
  BY DEF old, new
<1>10. Chain(t, old, new + 1)
  <2>1. new + 1 \in Nat /\ AddEnd(c2) = (new + 1) + 1
    BY <1>2, <1>7
  <2> QED
    BY <1>2, <1>5, <1>7, <1>9, <2>1, ChainGrows
<1> HIDE DEF n, s, t
<1>11. \A i \in DOMAIN s : t[i].delStart = s[i].delStart /\ t[i].dels = s[i].dels /\ DelEnd(t[i]) = DelEnd(s[i])
  BY <1>4, <1>5, <1>7, <1>8
<1>12. RemovedIn(f, t)
  <2>1. \A i \in DOMAIN s : \A l : Removes(s[i], l) => Removes(t[i], l)
    BY <1>11 DEF Removes
  <2>2. SUFFICES ASSUME NEW p \in DOMAIN f, f[p].op = "del"
                 PROVE  \E i \in DOMAIN t : /\ Removes(t[i], OldTo(f, p))
                                            /\ t[i].dels[OldTo(f, p) - t[i].delStart + 1] = f[p].line
    BY DEF RemovedIn
  <2>3. p \in DOMAIN d /\ d[p].op = "del" /\ f[p] = d[p] /\ OldTo(f, p) = OldTo(d, p)
    BY <1>1, <1>3, <2>2
  <2>4. PICK i \in DOMAIN s : /\ Removes(s[i], OldTo(d, p))
                              /\ s[i].dels[OldTo(d, p) - s[i].delStart + 1] = d[p].line
    BY <1>9, <2>3 DEF Accounts, RemovedIn
  <2>5. i \in DOMAIN t
    BY <1>8
  <2> QED
    BY <1>11, <2>1, <2>3, <2>4, <2>5
<1>13. AddedIn(f, t)
  <2>1. ASSUME NEW p \in DOMAIN d, d[p].op = "add"
        PROVE  \E i \in DOMAIN t : t[i].adds # <<>> /\ OldTo(d, p) = DelEnd(t[i]) - 1
    <3>1. PICK i \in DOMAIN s : s[i].adds # <<>> /\ OldTo(d, p) = DelEnd(s[i]) - 1
      BY <1>9, <2>1 DEF Accounts, AddedIn
    <3>2. t[i].adds # <<>>
      BY <1>6, <1>8, <3>1
    <3> QED
      BY <1>8, <1>11, <3>1, <3>2
  <2>2. t[n].adds # <<>> /\ old = DelEnd(t[n]) - 1
    BY <1>2, <1>6, <1>7, <1>8
  <2> QED
    BY <1>1, <1>3, <1>8, <2>1, <2>2 DEF AddedIn
<1>14. AddsOf(f, t)
  <2>1. SUFFICES ASSUME NEW i \in DOMAIN t, NEW j \in DOMAIN t[i].adds
                 PROVE  \E p \in DOMAIN f : /\ f[p].op = "add" /\ f[p].line = t[i].adds[j]
                                            /\ NewTo(f, p) = t[i].addStart + j - 1
    BY DEF AddsOf
  <2>2. CASE i \in DOMAIN c0
    <3>1. i \in DOMAIN s /\ t[i] = s[i]
      BY <1>8, <2>2
    <3>2. PICK p \in DOMAIN d : /\ d[p].op = "add" /\ d[p].line = s[i].adds[j]
                                /\ NewTo(d, p) = s[i].addStart + j - 1
      BY <1>9, <2>1, <3>1 DEF Accounts, AddsOf
    <3> QED
      BY <1>3, <3>1, <3>2
  <2>3. CASE i = n /\ j \in DOMAIN ch.adds
    <3>1. PICK p \in DOMAIN d : /\ d[p].op = "add" /\ d[p].line = ch.adds[j]
                                /\ NewTo(d, p) = ch.addStart + j - 1
      BY <1>8, <1>9, <2>3 DEF Accounts, AddsOf
    <3>2. c2.adds[j] = ch.adds[j]
      BY <1>6, <2>3
    <3> QED
      BY <1>3, <1>5, <1>8, <2>3, <3>1, <3>2
  <2>4. CASE i = n /\ j = Len(ch.adds) + 1
    <3>1. c2.addStart + j - 1 = new + 1
      BY <1>2, <1>4, <1>5, <2>4
    <3> QED
      BY <1>1, <1>3, <1>6, <1>8, <2>4, <3>1
  <2> QED
    BY <1>6, <1>8, <2>2, <2>3, <2>4
<1>15. Kept(f, t)
  <2>1. ASSUME NEW p \in DOMAIN d, d[p].op \in {"keep", "skip"}
        PROVE  KeptAt(t, OldTo(d, p), NewTo(d, p))
    <3>1. KeptAt(s, OldTo(d, p), NewTo(d, p))
      BY <1>9, <2>1 DEF Accounts, Kept
    <3>2. OldTo(d, p) < DelEnd(ch) /\ DelEnd(ch) <= DelEnd(c2) /\ OldTo(d, p) \in Nat
      BY <1>2, <1>4, <1>7
    <3> QED
      BY <1>5, <3>1, <3>2, KeptStays DEF s, t
  <2> QED
    BY <1>1, <1>3, <2>1 DEF Kept
<1> QED
  BY <1>1, <1>5, <1>10, <1>12, <1>13, <1>14, <1>15 DEF Accounts, old, new, e, f, t

--------------------------------------------------------------------------------
(* The invariant of the builder. *)

\* The lengths of the files, in the terms of the lemmas.
LEMMA Lengths ==
    /\ OldLength = OldTo(diff, Len(diff)) /\ NewLength = NewTo(diff, Len(diff))
    /\ OldLength' = OldTo(diff', Len(diff')) /\ NewLength' = NewTo(diff', Len(diff'))
BY DEF OldLength, NewLength, OldCount, NewCount, OldTo, NewTo

\* They are natural numbers.
LEMMA LengthsAreNat ==
    ASSUME NEW d \in Seq(Entry)
    PROVE  OldTo(d, Len(d)) \in Nat /\ NewTo(d, Len(d)) \in Nat
<1>1. Len(d) \in 0..Len(d)
  OBVIOUS
<1> QED
  BY <1>1, ToIsNat

\* The empty diff has no changes.
LEMMA InitSound == Init => IInv
<1> SUFFICES ASSUME Init PROVE IInv
  OBVIOUS
<1>1. /\ diff = <<>> /\ diff \in Seq(Entry) /\ Len(diff) = 0 /\ DOMAIN diff = {} /\ state = "sync"
      /\ oldLine = 0 /\ newLine = 0 /\ dels = <<>> /\ adds = <<>>
      /\ changes = <<>> /\ changes \in Seq(Change) /\ DOMAIN changes = {} /\ DOMAIN result = {} /\ asked = {}
  BY DEF Init
<1>2. Pushed = changes
  BY <1>1 DEF Pushed
<1>3. OldTo(diff, Len(diff)) = 0 /\ NewTo(diff, Len(diff)) = 0
  <2>1. 0 \in 0..Len(diff)
    BY <1>1
  <2> QED
    BY <1>1, <2>1, ToIsNat
<1>4. Types
  BY <1>1, <1>3, Lengths DEF Types
<1>5. Chain(changes, OldTo(diff, Len(diff)), NewTo(diff, Len(diff)))
  BY <1>1, <1>3 DEF Chain
<1>6. Accounts(diff, changes)
  BY <1>1 DEF Accounts, RemovedIn, AddedIn, AddsOf, Kept
<1>7. Reading
  BY <1>1, <1>3, Lengths DEF Reading
<1> QED
  BY <1>1, <1>2, <1>4, <1>5, <1>6, <1>7 DEF IInv, Sound

\* The change being read is among those pushed, and ends at the last line read.
LEMMA Current ==
    ASSUME IInv, state = "edit", asked = {}
    PROVE  LET ch == [delStart |-> delStart, addStart |-> addStart, dels |-> dels, adds |-> adds]
           IN  /\ ch \in Change /\ Pushed = Append(changes, ch)
               /\ DelEnd(ch) = OldLength + 1 /\ AddEnd(ch) = NewLength + 1
<1> DEFINE ch == [delStart |-> delStart, addStart |-> addStart, dels |-> dels, adds |-> adds]
<1>1. ch \in Change /\ Pushed = Append(changes, ch)
  BY DEF IInv, Types, Change, Pushed
<1>2. DelEnd(ch) = OldLength + 1 /\ AddEnd(ch) = NewLength + 1
  BY DEF IInv, Reading, DelEnd, AddEnd
<1> QED
  BY <1>1, <1>2

\* What is pushed once the change is complete.
LEMMA SoundOne ==
    ASSUME NEW d \in Seq(Entry), NEW chs \in Seq(Change), Sound(d, chs), NEW e \in Entry, e.op \in {"keep", "skip"}
    PROVE  /\ Sound(Append(d, e), chs)
           /\ OldTo(Append(d, e), Len(Append(d, e))) = OldTo(d, Len(d)) + 1
           /\ NewTo(Append(d, e), Len(Append(d, e))) = NewTo(d, Len(d)) + 1
<1>1. InOld(e) /\ InNew(e)
  BY DEF InOld, InNew
<1>2. /\ OldTo(Append(d, e), Len(Append(d, e))) = OldTo(d, Len(d)) + 1
      /\ NewTo(Append(d, e), Len(Append(d, e))) = NewTo(d, Len(d)) + 1
      /\ Append(d, e) \in Seq(Entry)
  BY <1>1, OneMore
<1>3. /\ Accounts(Append(d, e), chs)
      /\ Chain(chs, OldTo(d, Len(d)) + 1, NewTo(d, Len(d)) + 1)
  BY ReadKept DEF Sound
<1> QED
  BY <1>2, <1>3 DEF Sound

\* A line of context ends the change under way, if any (_ctx(), _sync()).
LEMMA SoundStepCtx ==
    ASSUME IInv, asked = {}, Ctx
    PROVE  IInv'
<1> DEFINE e == [op |-> "keep"]
<1>1. e \in Entry /\ e.op = "keep"
  BY DEF Entry
<1>2. /\ state' = "sync" /\ changes' = Pushed /\ diff' = Append(diff, e) /\ result' = result /\ asked' = asked
      /\ oldLine' = OldLength + 1 /\ newLine' = NewLength + 1 /\ dels' = dels /\ adds' = adds
  BY DEF Ctx, NewLength, walk
<1>3. Pushed' = Pushed
  BY <1>2 DEF Pushed
<1>4. diff \in Seq(Entry) /\ Pushed \in Seq(Change) /\ Sound(diff, Pushed)
  BY DEF IInv, Sound
<1> HIDE DEF e
<1>5. Sound(diff', Pushed) /\ OldLength' = OldLength + 1 /\ NewLength' = NewLength + 1
  BY <1>1, <1>2, <1>4, SoundOne, Lengths
<1>6. OldLength \in Nat /\ NewLength \in Nat
  BY <1>4, Lengths, LengthsAreNat
<1>7. Pushed # <<>> => DelEnd(LastOf(Pushed)) <= OldLength + 1
  BY <1>4, Lengths DEF Sound, Chain
<1>8. Types'
  BY <1>2, <1>4, <1>5, <1>6 DEF IInv, Types
<1>9. Reading'
  BY <1>2, <1>5, <1>7 DEF Reading
<1> QED
  BY <1>2, <1>3, <1>5, <1>8, <1>9 DEF IInv

\* Lines that no hunk shows are kept as lines of context are.
LEMMA SoundStepNextHunk ==
    ASSUME IInv, asked = {}, NextHunk
    PROVE  IInv'
<1> DEFINE e == [op |-> "skip"]
<1>1. e \in Entry /\ e.op = "skip"
  BY DEF Entry
<1>2. /\ state = "sync" /\ state' = "sync" /\ changes' = changes /\ diff' = Append(diff, e) /\ result' = result /\ asked' = asked
      /\ oldLine' = oldLine /\ newLine' = newLine /\ dels' = dels /\ adds' = adds
  BY DEF NextHunk, builder, walk
<1>3. Pushed = changes /\ Pushed' = changes
  BY <1>2 DEF Pushed
<1>4. diff \in Seq(Entry) /\ changes \in Seq(Change) /\ Sound(diff, changes)
  BY <1>3 DEF IInv, Sound
<1> HIDE DEF e
<1>5. Sound(diff', changes) /\ OldLength' = OldLength + 1 /\ NewLength' = NewLength + 1
  BY <1>1, <1>2, <1>4, SoundOne, Lengths
<1>6. OldLength \in Nat /\ NewLength \in Nat
  BY <1>4, Lengths, LengthsAreNat
<1>7. changes # <<>> => DelEnd(LastOf(changes)) <= OldLength + 1
  BY <1>4, Lengths DEF Sound, Chain
<1>8. Types'
  BY <1>2, <1>4, <1>5, <1>6 DEF IInv, Types
<1>9. BetweenHunks'
  <2>1. diff' # <<>> /\ Len(diff') = Len(diff) + 1 /\ diff'[Len(diff) + 1] = e
    BY <1>1, <1>2, <1>4
  <2> QED
    BY <1>1, <2>1 DEF BetweenHunks
<1>10. Reading'
  BY <1>2, <1>5, <1>7, <1>9 DEF Reading
<1> QED
  BY <1>2, <1>3, <1>5, <1>8, <1>10 DEF IInv

\* A change is begun where the files are.
LEMMA Beginning ==
    ASSUME IInv, asked = {}, state = "sync", ~BetweenHunks
    PROVE  LET ch == Begun(OldLength, NewLength)
           IN  /\ ch \in Change /\ Sound(diff, Append(changes, ch))
               /\ DelEnd(ch) = OldLength + 1 /\ AddEnd(ch) = NewLength + 1
               /\ oldLine = OldLength /\ newLine = NewLength
<1> DEFINE ch == Begun(OldLength, NewLength)
<1>1. Pushed = changes
  BY DEF Pushed
<1>2. diff \in Seq(Entry) /\ changes \in Seq(Change) /\ Sound(diff, changes)
  BY <1>1 DEF IInv, Sound
<1>3. /\ changes # <<>> => DelEnd(LastOf(changes)) <= OldLength
      /\ oldLine = OldLength /\ newLine = NewLength
  BY DEF IInv, Reading
<1>4. OldLength \in Nat /\ NewLength \in Nat
  BY <1>2, Lengths, LengthsAreNat
<1>5. DelEnd(ch) = OldLength + 1 /\ AddEnd(ch) = NewLength + 1
  BY <1>4 DEF Begun, DelEnd, AddEnd
<1> HIDE DEF ch
<1>6. /\ ch \in Change
      /\ Accounts(diff, Append(changes, ch))
      /\ Chain(Append(changes, ch), OldTo(diff, Len(diff)), NewTo(diff, Len(diff)))
  <2>1. ch = Begun(OldTo(diff, Len(diff)), NewTo(diff, Len(diff)))
    BY Lengths DEF ch
  <2> QED
    BY <1>2, <1>3, <2>1, Lengths, ReadBegun DEF Sound
<1>7. Append(changes, ch) \in Seq(Change)
  BY <1>2, <1>6
<1> QED
  BY <1>2, <1>3, <1>5, <1>6, <1>7 DEF Sound, ch

\* A change that grows is sound, and so is what the builder has then.
LEMMA SoundGrown ==
    ASSUME IInv, asked = {}, NEW c2 \in Change,
           diff' \in Seq(Entry), Accounts(diff', Append(changes, c2)),
           Chain(Append(changes, c2), OldLength', NewLength'),
           OldLength' >= OldLength, NewLength' >= NewLength,
           DelEnd(c2) = OldLength' + 1, AddEnd(c2) = NewLength' + 1,
           state' = "edit", changes' = changes, oldLine' = oldLine, newLine' = newLine, result' = result, asked' = asked,
           dels' = c2.dels, adds' = c2.adds, delStart' = c2.delStart, addStart' = c2.addStart
    PROVE  IInv'
<1>1. c2.dels \in Seq(Lines) /\ c2.adds \in Seq(Lines) /\ c2.delStart \in Nat \ {0} /\ c2.addStart \in Nat \ {0}
  BY DEF Change
<1>2. c2 = [delStart |-> c2.delStart, addStart |-> c2.addStart, dels |-> c2.dels, adds |-> c2.adds]
  BY DEF Change
<1>3. Pushed' = Append(changes, c2)
  BY <1>2 DEF Pushed
<1>4. changes \in Seq(Change) /\ Append(changes, c2) \in Seq(Change)
  BY DEF IInv, Types
<1>5. Sound(diff', Pushed')
  BY <1>3, <1>4, Lengths DEF Sound
<1>6. OldLength \in Nat /\ NewLength \in Nat /\ OldLength' \in Nat /\ NewLength' \in Nat
  BY Lengths, LengthsAreNat DEF IInv, Sound
<1>7. Types'
  BY <1>1, <1>4, <1>6 DEF IInv, Types
<1>8. Reading'
  BY DEF Reading, DelEnd, AddEnd
<1> QED
  BY <1>5, <1>7, <1>8 DEF IInv

\* A removed line begins a change or is the next removed by it (_edit()).
LEMMA SoundStepDel ==
    ASSUME IInv, asked = {}, NEW x \in Lines, Del(x)
    PROVE  IInv'
<1> DEFINE e == [op |-> "del", line |-> x]
           Grown(ch) == [delStart |-> ch.delStart, addStart |-> ch.addStart, dels |-> ch.dels \o <<x>>, adds |-> ch.adds]
<1>1. /\ state' = "edit" /\ diff' = Append(diff, e) /\ ~BetweenHunks /\ (state = "edit" => adds = <<>>)
      /\ oldLine' = oldLine /\ newLine' = newLine /\ changes' = changes /\ result' = result /\ asked' = asked
  BY DEF Del, Edit, walk
<1>2. diff \in Seq(Entry) /\ changes \in Seq(Change) /\ state \in {"sync", "edit"}
  BY DEF IInv, Types, Sound
<1>3. ASSUME NEW ch \in Change, Sound(diff, Append(changes, ch)), ch.adds = <<>>,
             DelEnd(ch) = OldLength + 1, AddEnd(ch) = NewLength + 1,
             dels' = ch.dels \o <<x>>, adds' = ch.adds, delStart' = ch.delStart, addStart' = ch.addStart
      PROVE  IInv'
  <2> DEFINE c2 == Grown(ch)
  <2>1. /\ c2.dels = ch.dels \o <<x>> /\ c2.adds = ch.adds /\ c2.delStart = ch.delStart /\ c2.addStart = ch.addStart
    OBVIOUS
  <2>2. /\ c2 \in Change /\ e \in Entry
        /\ Accounts(diff', Append(changes, c2))
        /\ Chain(Append(changes, c2), OldTo(diff, Len(diff)) + 1, NewTo(diff, Len(diff)))
    <3>1. /\ Chain(Append(changes, ch), OldTo(diff, Len(diff)), NewTo(diff, Len(diff)))
          /\ Accounts(diff, Append(changes, ch))
      BY <1>3 DEF Sound
    <3>2. DelEnd(ch) = OldTo(diff, Len(diff)) + 1 /\ AddEnd(ch) = NewTo(diff, Len(diff)) + 1
      BY <1>3, Lengths
    <3>3. /\ c2 \in Change /\ e \in Entry
          /\ Accounts(Append(diff, e), Append(changes, c2))
          /\ Chain(Append(changes, c2), OldTo(diff, Len(diff)) + 1, NewTo(diff, Len(diff)))
      BY <1>2, <1>3, <3>1, <3>2, ReadRemoved
    <3> QED
      BY <1>1, <3>3
  <2>3. Len(ch.dels \o <<x>>) = Len(ch.dels) + 1 /\ Len(ch.dels) \in Nat /\ ch.delStart \in Nat /\ OldLength \in Nat /\ NewLength \in Nat
    <3>1. ch.dels \in Seq(Lines) /\ ch.delStart \in Nat
      BY ChangeIs
    <3> QED
      BY <1>2, <3>1, Lengths, LengthsAreNat
  <2>4. DelEnd(c2) = OldLength + 2 /\ AddEnd(c2) = NewLength + 1
    BY <1>3, <2>1, <2>3 DEF DelEnd, AddEnd
  <2> HIDE DEF c2, e
  <2>5. OldLength' = OldLength + 1 /\ NewLength' = NewLength /\ diff' \in Seq(Entry)
    <3>1. InOld(e) /\ ~InNew(e)
      BY DEF InOld, InNew, e
    <3> QED
      BY <1>1, <1>2, <2>2, <2>3, <3>1, OneMore, Lengths
  <2>6. Chain(Append(changes, c2), OldLength', NewLength')
    BY <2>2, <2>5, Lengths
  <2>7. OldLength' >= OldLength /\ NewLength' >= NewLength /\ DelEnd(c2) = OldLength' + 1 /\ AddEnd(c2) = NewLength' + 1
    BY <2>3, <2>4, <2>5
  <2> QED
    BY <1>1, <1>3, <2>1, <2>2, <2>5, <2>6, <2>7, SoundGrown
<1>4. CASE state = "edit"
  <2> DEFINE ch == [delStart |-> delStart, addStart |-> addStart, dels |-> dels, adds |-> adds]
  <2>1. /\ ch \in Change /\ Pushed = Append(changes, ch)
        /\ DelEnd(ch) = OldLength + 1 /\ AddEnd(ch) = NewLength + 1
    BY <1>4, Current
  <2>2. Sound(diff, Append(changes, ch))
    BY <2>1 DEF IInv
  <2>3. /\ dels' = dels \o <<x>> /\ adds' = adds \o <<>> /\ delStart' = delStart /\ addStart' = addStart
        /\ adds = <<>>
    BY <1>1, <1>4 DEF Del, Edit
  <2>4. adds' = adds
    BY <2>3
  <2>5. ch.adds = <<>> /\ dels' = ch.dels \o <<x>> /\ adds' = ch.adds /\ delStart' = ch.delStart /\ addStart' = ch.addStart
    BY <2>3, <2>4
  <2> HIDE DEF ch
  <2> QED
    BY <1>3, <2>1, <2>2, <2>5
<1>5. CASE state = "sync"
  <2> DEFINE ch == Begun(OldLength, NewLength)
  <2>1. /\ ch \in Change /\ Sound(diff, Append(changes, ch))
        /\ DelEnd(ch) = OldLength + 1 /\ AddEnd(ch) = NewLength + 1
        /\ oldLine = OldLength /\ newLine = NewLength
    BY <1>1, <1>5, Beginning
  <2>2. dels' = <<x>> /\ adds' = <<>> /\ delStart' = OldLength + 1 /\ addStart' = NewLength + 1
    BY <1>5, <2>1 DEF Del, Edit, StartAfter
  <2>3. <<x>> = <<>> \o <<x>>
    OBVIOUS
  <2>4. ch.adds = <<>> /\ dels' = ch.dels \o <<x>> /\ adds' = ch.adds /\ delStart' = ch.delStart /\ addStart' = ch.addStart
    BY <2>2, <2>3 DEF Begun
  <2> HIDE DEF ch
  <2> QED
    BY <1>3, <2>1, <2>4
<1> QED
  BY <1>2, <1>4, <1>5

\* An added line begins a change or is the next added by it (_edit()).
LEMMA SoundStepAdd ==
    ASSUME IInv, asked = {}, NEW x \in Lines, Add(x)
    PROVE  IInv'
<1> DEFINE e == [op |-> "add", line |-> x]
           Grown(ch) == [delStart |-> ch.delStart, addStart |-> ch.addStart, dels |-> ch.dels, adds |-> ch.adds \o <<x>>]
<1>1. /\ state' = "edit" /\ diff' = Append(diff, e) /\ ~BetweenHunks
      /\ oldLine' = oldLine /\ newLine' = newLine /\ changes' = changes /\ result' = result /\ asked' = asked
  BY DEF Add, Edit, walk
<1>2. diff \in Seq(Entry) /\ changes \in Seq(Change) /\ state \in {"sync", "edit"}
  BY DEF IInv, Types, Sound
<1>3. ASSUME NEW ch \in Change, Sound(diff, Append(changes, ch)),
             DelEnd(ch) = OldLength + 1, AddEnd(ch) = NewLength + 1,
             dels' = ch.dels, adds' = ch.adds \o <<x>>, delStart' = ch.delStart, addStart' = ch.addStart
      PROVE  IInv'
  <2> DEFINE c2 == Grown(ch)
  <2>1. /\ c2.adds = ch.adds \o <<x>> /\ c2.dels = ch.dels /\ c2.delStart = ch.delStart /\ c2.addStart = ch.addStart
    OBVIOUS
  <2>2. /\ c2 \in Change /\ e \in Entry
        /\ Accounts(diff', Append(changes, c2))
        /\ Chain(Append(changes, c2), OldTo(diff, Len(diff)), NewTo(diff, Len(diff)) + 1)
    <3>1. /\ Chain(Append(changes, ch), OldTo(diff, Len(diff)), NewTo(diff, Len(diff)))
          /\ Accounts(diff, Append(changes, ch))
      BY <1>3 DEF Sound
    <3>2. DelEnd(ch) = OldTo(diff, Len(diff)) + 1 /\ AddEnd(ch) = NewTo(diff, Len(diff)) + 1
      BY <1>3, Lengths
    <3>3. /\ c2 \in Change /\ e \in Entry
          /\ Accounts(Append(diff, e), Append(changes, c2))
          /\ Chain(Append(changes, c2), OldTo(diff, Len(diff)), NewTo(diff, Len(diff)) + 1)
      BY <1>2, <1>3, <3>1, <3>2, ReadAdded
    <3> QED
      BY <1>1, <3>3
  <2>3. Len(ch.adds \o <<x>>) = Len(ch.adds) + 1 /\ Len(ch.adds) \in Nat /\ ch.addStart \in Nat /\ OldLength \in Nat /\ NewLength \in Nat
    <3>1. ch.adds \in Seq(Lines) /\ ch.addStart \in Nat
      BY ChangeIs
    <3> QED
      BY <1>2, <3>1, Lengths, LengthsAreNat
  <2>4. AddEnd(c2) = NewLength + 2 /\ DelEnd(c2) = OldLength + 1
    BY <1>3, <2>1, <2>3 DEF DelEnd, AddEnd
  <2> HIDE DEF c2, e
  <2>5. OldLength' = OldLength /\ NewLength' = NewLength + 1 /\ diff' \in Seq(Entry)
    <3>1. ~InOld(e) /\ InNew(e)
      BY DEF InOld, InNew, e
    <3> QED
      BY <1>1, <1>2, <2>2, <2>3, <3>1, OneMore, Lengths
  <2>6. Chain(Append(changes, c2), OldLength', NewLength')
    BY <2>2, <2>5, Lengths
  <2>7. OldLength' >= OldLength /\ NewLength' >= NewLength /\ DelEnd(c2) = OldLength' + 1 /\ AddEnd(c2) = NewLength' + 1
    BY <2>3, <2>4, <2>5
  <2> QED
    BY <1>1, <1>3, <2>1, <2>2, <2>5, <2>6, <2>7, SoundGrown
<1>4. CASE state = "edit"
  <2> DEFINE ch == [delStart |-> delStart, addStart |-> addStart, dels |-> dels, adds |-> adds]
  <2>1. /\ ch \in Change /\ Pushed = Append(changes, ch)
        /\ DelEnd(ch) = OldLength + 1 /\ AddEnd(ch) = NewLength + 1
    BY <1>4, Current
  <2>2. Sound(diff, Append(changes, ch))
    BY <2>1 DEF IInv
  <2>3. /\ dels' = dels \o <<>> /\ adds' = adds \o <<x>> /\ delStart' = delStart /\ addStart' = addStart
        /\ dels \in Seq(Lines)
    BY <1>4 DEF Add, Edit, IInv, Types
  <2>4. dels' = dels
    BY <2>3, ConcatEmptySeq
  <2>5. dels' = ch.dels /\ adds' = ch.adds \o <<x>> /\ delStart' = ch.delStart /\ addStart' = ch.addStart
    BY <2>3, <2>4
  <2> HIDE DEF ch
  <2> QED
    BY <1>3, <2>1, <2>2, <2>5
<1>5. CASE state = "sync"
  <2> DEFINE ch == Begun(OldLength, NewLength)
  <2>1. /\ ch \in Change /\ Sound(diff, Append(changes, ch))
        /\ DelEnd(ch) = OldLength + 1 /\ AddEnd(ch) = NewLength + 1
        /\ oldLine = OldLength /\ newLine = NewLength
    BY <1>1, <1>5, Beginning
  <2>2. dels' = <<>> /\ adds' = <<x>> /\ delStart' = OldLength + 1 /\ addStart' = NewLength + 1
    BY <1>5, <2>1 DEF Add, Edit, StartAfter
  <2>3. <<x>> = <<>> \o <<x>>
    OBVIOUS
  <2>4. dels' = ch.dels /\ adds' = ch.adds \o <<x>> /\ delStart' = ch.delStart /\ addStart' = ch.addStart
    BY <2>2, <2>3 DEF Begun
  <2> HIDE DEF ch
  <2> QED
    BY <1>3, <2>1, <2>4
<1> QED
  BY <1>2, <1>4, <1>5

--------------------------------------------------------------------------------
(* The walk. *)

\* A line is behind all changes, before the first that ends after it, or in it.
LEMMA LineCases ==
    ASSUME NEW chs \in Seq(Change), NEW old, NEW new, Chain(chs, old, new),
           NEW l \in Nat
    PROVE  \/ /\ \A j \in DOMAIN chs : l >= DelEnd(chs[j])
              /\ Place(chs, l) = [line |-> l + FinalBalance(chs), change |-> 0]
           \/ \E k \in DOMAIN chs :
                /\ l < DelEnd(chs[k])
                /\ \A j \in DOMAIN chs : j < k => l >= DelEnd(chs[j])
                /\ \/ /\ l < chs[k].delStart
                      /\ Place(chs, l) = [line |-> l + Balance(chs[k]), change |-> 0]
                   \/ /\ chs[k].delStart <= l
                      /\ Place(chs, l) = LineIn(chs, k, l)
<1> DEFINE after == {k \in DOMAIN chs : l < DelEnd(chs[k])}
           k == Min(after)
<1>1. Place(chs, l) =
        IF after = {} THEN [line |-> l + FinalBalance(chs), change |-> 0]
        ELSE IF l < chs[k].delStart THEN [line |-> l + Balance(chs[k]), change |-> 0]
        ELSE LineIn(chs, k, l)
  BY DEF Place
<1>2. DOMAIN chs \subseteq Nat /\ \A j \in DOMAIN chs : DelEnd(chs[j]) \in Nat /\ chs[j].delStart \in Nat
  <2>1. \A j \in DOMAIN chs : chs[j] \in Change
    OBVIOUS
  <2>2. DOMAIN chs \subseteq Nat
    OBVIOUS
  <2> QED
    BY <2>1, <2>2, ChangeIs
<1>3. CASE after = {}
  <2>1. \A j \in DOMAIN chs : l >= DelEnd(chs[j])
    BY <1>2, <1>3
  <2> QED
    BY <1>1, <1>3, <2>1
<1>4. CASE after # {}
  <2>1. after \in SUBSET Nat
    BY <1>2
  <2>2. k \in after /\ \A j \in after : k <= j
    <3> HIDE DEF after
    <3> QED
      BY <1>4, <2>1, MinIsFirst
  <2> HIDE DEF k
  <2>3. k \in DOMAIN chs /\ l < DelEnd(chs[k]) /\ k \in Nat
    BY <1>2, <2>2
  <2>4. \A j \in DOMAIN chs : j < k => l >= DelEnd(chs[j])
    BY <1>2, <2>2, <2>3
  <2> HIDE DEF after
  <2>5. CASE l < chs[k].delStart
    BY <1>1, <1>4, <2>3, <2>4, <2>5
  <2>6. CASE ~(l < chs[k].delStart)
    <3>1. chs[k].delStart <= l
      BY <1>2, <2>3, <2>6
    <3> QED
      BY <1>1, <1>4, <2>3, <2>4, <2>6, <3>1
  <2> QED
    BY <2>5, <2>6
<1> QED
  BY <1>3, <1>4

\* Where a line before a change goes, a line in it, and one after all of them.
LEMMA PlaceIs ==
    ASSUME NEW chs \in Seq(Change), NEW old, NEW new, Chain(chs, old, new), NEW l \in Nat
    PROVE  /\ \A k \in DOMAIN chs :
                (k > 1 => l >= DelEnd(chs[k - 1])) =>
                    /\ l < chs[k].delStart => Place(chs, l) = [line |-> l + Balance(chs[k]), change |-> 0]
                    /\ chs[k].delStart <= l /\ l < DelEnd(chs[k]) => Place(chs, l) = LineIn(chs, k, l)
           /\ (chs # <<>> => l >= DelEnd(LastOf(chs))) => Place(chs, l) = [line |-> l + FinalBalance(chs), change |-> 0]
<1>1. /\ DOMAIN chs = 1..Len(chs) /\ Len(chs) \in Nat
      /\ \A j \in DOMAIN chs : chs[j] \in Change
  OBVIOUS
<1>2. \A j \in DOMAIN chs : DelEnd(chs[j]) \in Nat /\ chs[j].delStart \in Nat /\ chs[j].delStart <= DelEnd(chs[j])
  BY <1>1, ChangeIs
<1>3. \A i, j \in DOMAIN chs : i < j => DelEnd(chs[i]) < chs[j].delStart
  BY DEF Chain
<1>4. ASSUME NEW k \in DOMAIN chs, k > 1 => l >= DelEnd(chs[k - 1]), l < DelEnd(chs[k])
      PROVE  /\ l < chs[k].delStart => Place(chs, l) = [line |-> l + Balance(chs[k]), change |-> 0]
             /\ chs[k].delStart <= l => Place(chs, l) = LineIn(chs, k, l)
  <2>1. \A j \in DOMAIN chs : j < k => l >= DelEnd(chs[j])
    <3>1. SUFFICES ASSUME NEW j \in DOMAIN chs, j < k PROVE l >= DelEnd(chs[j])
      OBVIOUS
    <3>2. k - 1 \in DOMAIN chs /\ k > 1
      BY <1>1, <3>1
    <3>3. CASE j = k - 1
      BY <1>4, <3>2, <3>3
    <3>4. CASE j # k - 1
      <4>1. j < k - 1
        BY <1>1, <3>1, <3>4
      <4>2. DelEnd(chs[j]) < chs[k - 1].delStart
        BY <1>3, <3>2, <4>1
      <4> QED
        BY <1>2, <1>4, <3>2, <4>2
    <3> QED
      BY <3>3, <3>4
  <2>2. PICK i \in DOMAIN chs :
            /\ l < DelEnd(chs[i])
            /\ \A j \in DOMAIN chs : j < i => l >= DelEnd(chs[j])
            /\ \/ /\ l < chs[i].delStart
                  /\ Place(chs, l) = [line |-> l + Balance(chs[i]), change |-> 0]
               \/ /\ chs[i].delStart <= l
                  /\ Place(chs, l) = LineIn(chs, i, l)
    BY <1>2, <1>4, LineCases
  <2>3. ~(i < k) /\ ~(k < i)
    BY <1>2, <1>4, <2>1, <2>2
  <2>4. i = k
    BY <1>1, <2>3
  <2> QED
    BY <1>2, <2>2, <2>4
<1>5. ASSUME NEW k \in DOMAIN chs, k > 1 => l >= DelEnd(chs[k - 1])
      PROVE  /\ l < chs[k].delStart => Place(chs, l) = [line |-> l + Balance(chs[k]), change |-> 0]
             /\ chs[k].delStart <= l /\ l < DelEnd(chs[k]) => Place(chs, l) = LineIn(chs, k, l)
  <2>1. l < chs[k].delStart => l < DelEnd(chs[k])
    BY <1>2
  <2> QED
    BY <1>4, <1>5, <2>1
<1>6. ASSUME chs # <<>> => l >= DelEnd(LastOf(chs))
      PROVE  Place(chs, l) = [line |-> l + FinalBalance(chs), change |-> 0]
  <2>1. SUFFICES ASSUME NEW j \in DOMAIN chs, l < DelEnd(chs[j]) PROVE FALSE
    BY LineCases
  <2>2. Len(chs) \in DOMAIN chs /\ chs # <<>> /\ j <= Len(chs)
    BY <1>1, <2>1
  <2>3. CASE j = Len(chs)
    BY <1>2, <1>6, <2>1, <2>2, <2>3 DEF LastOf
  <2>4. CASE j # Len(chs)
    <3>1. j < Len(chs)
      BY <1>1, <2>2, <2>4
    <3>2. DelEnd(chs[j]) < chs[Len(chs)].delStart
      BY <1>3, <2>2, <3>1
    <3> QED
      BY <1>2, <1>6, <2>1, <2>2, <3>2 DEF LastOf
  <2> QED
    BY <2>3, <2>4
<1> QED
  BY <1>5, <1>6

\* What the walk finds: the changes of the diff, in order.
LEMMA WalkOver ==
    ASSUME IInv, asked # {}
    PROVE  /\ Walking /\ Pushed = changes /\ changes \in Seq(Change)
           /\ Chain(changes, OldLength, NewLength)
           /\ Asked \in SUBSET Nat /\ ahead \in SUBSET Nat /\ Len(changes) \in Nat /\ DOMAIN changes = 1..Len(changes)
           /\ OldLength \in Nat
           /\ \A k \in DOMAIN changes : /\ changes[k].delStart \in Nat /\ DelEnd(changes[k]) \in Nat
                                        /\ changes[k].delStart <= DelEnd(changes[k])
           /\ \A i, j \in DOMAIN changes : i < j => DelEnd(changes[i]) < changes[j].delStart
<1>1. Walking
  BY DEF IInv
<1>2. Pushed = changes
  BY <1>1 DEF Walking, Pushed
<1>3. Sound(diff, changes) /\ changes \in Seq(Change) /\ diff \in Seq(Entry)
  BY <1>2 DEF IInv, Sound
<1>4. Chain(changes, OldLength, NewLength) /\ OldLength \in Nat
  BY <1>3, Lengths, LengthsAreNat DEF Sound
<1>5. Len(changes) \in Nat /\ DOMAIN changes = 1..Len(changes) /\ \A k \in DOMAIN changes : changes[k] \in Change
  BY <1>3
<1>6. \A k \in DOMAIN changes : /\ changes[k].delStart \in Nat /\ DelEnd(changes[k]) \in Nat
                                /\ changes[k].delStart <= DelEnd(changes[k])
  BY <1>5, ChangeIs
<1>7. \A i, j \in DOMAIN changes : i < j => DelEnd(changes[i]) < changes[j].delStart
  BY <1>4 DEF Chain
<1>8. Asked \in SUBSET Nat
  <2>1. \A loc \in asked : loc.start \in Nat /\ loc.end \in Nat
    BY <1>1, <1>4 DEF Walking
  <2> QED
    BY <2>1 DEF Asked, LinesOfInterest
<1> QED
  BY <1>1, <1>2, <1>3, <1>4, <1>5, <1>6, <1>7, <1>8 DEF Walking

\* A step of the walk keeps what was said of the diff.
LEMMA WalkFrame ==
    ASSUME IInv, asked # {}, UNCHANGED <<diff, builder, asked>>, Walking', DOMAIN result' # {} => Done'
    PROVE  IInv'
<1>1. /\ diff' = diff /\ state' = state /\ oldLine' = oldLine /\ newLine' = newLine /\ dels' = dels /\ adds' = adds
      /\ delStart' = delStart /\ addStart' = addStart /\ changes' = changes /\ asked' = asked
  BY DEF builder
<1>2. OldLength' = OldLength /\ NewLength' = NewLength /\ Pushed' = Pushed
  BY <1>1, Lengths DEF Pushed
<1>3. Types'
  BY <1>1, <1>2 DEF IInv, Types
<1> QED
  BY <1>1, <1>2, <1>3 DEF IInv

\* What nextLine() does.
LEMMA NextLineDoes ==
    ASSUME IInv, asked # {}, ahead # {}, Min(ahead) # 0, NextLine, asked' = asked
    PROVE  /\ 0 \notin Asked
           /\ Min(ahead) \in ahead /\ Min(ahead) \in Asked /\ Min(ahead) \in Nat
           /\ ahead' \subseteq ahead /\ Min(ahead) \notin ahead'
           /\ \A m \in ahead' : Min(ahead) < m
           /\ \A l \in Asked : l \in ahead' \/ l = Min(ahead) \/ (l \in Asked \ ahead /\ l < Min(ahead))
           /\ active' = {loc \in asked : Active(loc, ahead')}
<1> DEFINE c == Min(ahead)
           n == Min(ahead')
<1>1. /\ Walking /\ Asked \in SUBSET Nat /\ ahead \in SUBSET Nat /\ OldLength \in Nat
  BY WalkOver
<1>2. c \in ahead /\ \A m \in ahead : c <= m
  BY <1>1, MinIsFirst
<1>3. c \in Asked /\ c \in Nat /\ c # 0
  BY <1>1, <1>2 DEF Walking
<1>4. ahead' = ahead \ {c} /\ active' = (active \ EndingAt(c)) \cup StartingAtFirst(asked, ahead')
  BY DEF NextLine
<1> HIDE DEF c
<1>5. \A m \in ahead' : c < m /\ m \in Nat
  BY <1>1, <1>2, <1>3, <1>4
<1>6. ASSUME NEW l \in Asked \ ahead
      PROVE  l < c /\ l # 0
  <2>1. Passed(l)
    BY <1>1 DEF Walking
  <2> QED
    BY <1>2, <2>1 DEF Passed
<1>7. 0 \notin Asked
  BY <1>1, <1>2, <1>3, <1>6
<1>8. ahead' # {} => n \in ahead' /\ n \in Nat /\ c < n /\ \A m \in ahead' : n <= m
  <2>1. ahead' \in SUBSET Nat
    BY <1>5
  <2> QED
    BY <1>5, <2>1, MinIsFirst
<1>9. active = {loc \in asked : Active(loc, ahead)}
  BY <1>1 DEF Walking
<1>10. \A l \in Asked : l \in ahead' \/ l <= c
  BY <1>1, <1>3, <1>4, <1>6
<1> HIDE DEF n
<1>11. ASSUME NEW loc \in asked
       PROVE  loc \in active' <=> Active(loc, ahead')
  <2>1. loc.start \in Asked /\ loc.end \in Asked /\ loc.start \in Nat /\ loc.end \in Nat
    BY <1>1 DEF Asked, LinesOfInterest
  <2>2. loc \in active <=> \/ loc.start > loc.end /\ loc.start <= c
                           \/ loc.start <= loc.end /\ loc.start <= c /\ c <= loc.end
    BY <1>2, <1>3, <1>9, <2>1 DEF Active, c
  <2>3. loc \in active' <=> \/ loc \in active /\ loc.end # c
                            \/ ahead' # {} /\ loc.start = n
    BY <1>4 DEF EndingAt, StartingAtFirst, n
  <2>4. Active(loc, ahead') <=> \/ loc.start > loc.end /\ (ahead' = {} \/ loc.start <= n)
                                \/ loc.start <= loc.end /\ ahead' # {} /\ loc.start <= n /\ n <= loc.end
    <3>1. CASE ahead' = {}
      BY <3>1 DEF Active
    <3>2. CASE ahead' # {}
      BY <1>8, <2>1, <3>2 DEF Active, n
    <3> QED
      BY <3>1, <3>2
  <2>5. CASE ahead' = {}
    <3>1. loc.start <= c /\ loc.end <= c
      BY <1>10, <2>1, <2>5
    <3> QED
      BY <1>3, <2>1, <2>2, <2>3, <2>4, <2>5, <3>1
  <2>6. CASE ahead' # {}
    <3>1. loc.start <= c \/ n <= loc.start
      BY <1>8, <1>10, <2>1, <2>6
    <3>2. loc.end <= c \/ n <= loc.end
      BY <1>8, <1>10, <2>1, <2>6
    <3> QED
      BY <1>3, <1>8, <2>1, <2>2, <2>3, <2>4, <2>6, <3>1, <3>2
  <2> QED
    BY <2>5, <2>6
<1>12. active' \subseteq asked
  BY <1>4, <1>9 DEF StartingAtFirst
<1>13. active' = {loc \in asked : Active(loc, ahead')}
  BY <1>11, <1>12
<1>14. \A l \in Asked : l \in ahead' \/ l = c \/ (l \in Asked \ ahead /\ l < c)
  BY <1>4, <1>6
<1> QED
  BY <1>2, <1>3, <1>4, <1>5, <1>7, <1>13, <1>14 DEF c

\* A line that goes to its place, the next change being behind it, is passed.
LEMMA PassLine ==
    ASSUME IInv, asked # {}, DOMAIN result = {}, ahead # {}, Min(ahead) # 0, NextLine,
           calculated' = [calculated EXCEPT ![Min(ahead)] = Place(changes, Min(ahead))],
           begun < Len(changes) => Min(ahead) < changes[begun + 1].delStart,
           UNCHANGED <<diff, builder, asked, begun, contentChanged, finalBalance, result>>
    PROVE  IInv'
<1> DEFINE c == Min(ahead)
<1>1. /\ diff' = diff /\ state' = state /\ changes' = changes /\ asked' = asked /\ begun' = begun
      /\ contentChanged' = contentChanged /\ finalBalance' = finalBalance /\ result' = result
  BY DEF builder
<1>2. OldLength' = OldLength /\ Asked' = Asked
  BY <1>1, Lengths DEF Asked
<1>3. /\ 0 \notin Asked /\ c \in ahead /\ c \in Asked /\ c \in Nat
      /\ ahead' \subseteq ahead /\ c \notin ahead' /\ \A m \in ahead' : c < m
      /\ \A l \in Asked : l \in ahead' \/ l = c \/ (l \in Asked \ ahead /\ l < c)
      /\ active' = {loc \in asked : Active(loc, ahead')}
  BY <1>1, NextLineDoes
<1>4. Walking /\ Asked \in SUBSET Nat
  BY WalkOver
<1>5. DOMAIN calculated' = Asked /\ calculated'[c] = Place(changes, c)
      /\ \A l \in Asked : l # c => calculated'[l] = calculated[l]
  BY <1>3, <1>4 DEF Walking
<1> HIDE DEF c
<1>6. ASSUME NEW l \in Asked \ ahead'
      PROVE  Passed(l)'
  <2>1. CASE l = c
    BY <1>1, <1>3, <1>5, <2>1 DEF Passed, c
  <2>2. CASE l # c
    <3>1. l \in Asked \ ahead
      BY <1>3, <2>2
    <3>2. Passed(l) /\ calculated'[l] = calculated[l]
      BY <1>4, <1>5, <2>2, <3>1 DEF Walking
    <3> QED
      BY <1>1, <1>3, <3>2 DEF Passed
  <2> QED
    BY <2>1, <2>2
<1>7. Walking'
  BY <1>1, <1>2, <1>3, <1>4, <1>5, <1>6 DEF Walking
<1> QED
  BY <1>1, <1>7, WalkFrame

\* A line that has not been calculated is in no change when its number is set.
LEMMA LineIsSet ==
    ASSUME NEW r, NEW n, r = [line |-> 0, change |-> 0]
    PROVE  [r EXCEPT !.line = n] = [line |-> n, change |-> 0]
  OBVIOUS

\* After a change the balance is that of its ends.
LEMMA BalanceOfEnds ==
    ASSUME NEW ch \in Change
    PROVE  BalanceAfter(ch) = AddEnd(ch) - DelEnd(ch)
<1> DEFINE a == ch.addStart
           d == ch.delStart
           m == Len(ch.adds)
           n == Len(ch.dels)
<1>1. a \in Nat /\ d \in Nat /\ m \in Nat /\ n \in Nat
  BY DEF Change
<1> HIDE DEF a, d, m, n
<1>2. a - d + m - n = (a + m) - (d + n)
  BY <1>1
<1> QED
  BY <1>2, Zenon DEF BalanceAfter, Balance, AddEnd, DelEnd, a, d, m, n

\* A line before the next change is moved by its balance (calculateLinesUntil()).
LEMMA StepUntil ==
    ASSUME IInv, asked # {}, DOMAIN result = {}, CalculateLineUntil
    PROVE  IInv'
<1> DEFINE c == Min(ahead)
           k == begun + 1
<1>1. /\ ChangesApplied /\ begun < Len(changes) /\ LineBelow(changes[k].delStart)
      /\ MoveCurrentLineBy(Balance(changes[k]))
  BY DEF CalculateLineUntil
<1>2. ahead # {} /\ c # 0 /\ c < changes[k].delStart
  BY <1>1 DEF LineBelow
<1>3. /\ calculated' = [calculated EXCEPT ![c].line = c + Balance(changes[k])] /\ NextLine
      /\ UNCHANGED <<diff, builder, asked, begun, contentChanged, finalBalance, result>>
  BY <1>1 DEF MoveCurrentLineBy
<1>4. Walking /\ begun \in 0..Len(changes) /\ Len(changes) \in Nat /\ DOMAIN changes = 1..Len(changes)
  BY WalkOver DEF Walking
<1>5. c \in ahead /\ c \in Asked /\ c \in Nat
  BY <1>2, <1>3, NextLineDoes
<1>6. k \in DOMAIN changes /\ (k > 1 => begun > 0 /\ begun = k - 1)
  BY <1>1, <1>4
<1>7. k > 1 => c >= DelEnd(changes[k - 1])
  <2>1. SUFFICES ASSUME k > 1 PROVE c >= DelEnd(changes[begun])
    BY <1>6
  <2>2. begun \in DOMAIN changes /\ ~(c < DelEnd(changes[begun]))
    BY <1>1, <1>2, <1>4, <1>6, <2>1 DEF ChangesApplied, LineBelow
  <2> QED
    BY <1>5, <2>2, WalkOver
<1>8. Place(changes, c) = [line |-> c + Balance(changes[k]), change |-> 0]
  BY <1>2, <1>5, <1>6, <1>7, WalkOver, PlaceIs
<1>9. calculated[c] = [line |-> 0, change |-> 0] /\ c \in DOMAIN calculated
  BY <1>4, <1>5 DEF Walking
<1> HIDE DEF c
<1>10. calculated' = [calculated EXCEPT ![c] = Place(changes, c)]
  <2> DEFINE r == [calculated[c] EXCEPT !.line = c + Balance(changes[k])]
  <2>1. r = Place(changes, c)
    BY <1>8, <1>9, LineIsSet
  <2>2. calculated' = [calculated EXCEPT ![c] = r]
    BY <1>3
  <2> HIDE DEF r
  <2> QED
    BY ONLY <2>1, <2>2
<1> QED
  BY <1>2, <1>3, <1>10, PassLine DEF c

\* A line in the change begun goes to what it adds (calculateLinesIn()).
LEMMA StepIn ==
    ASSUME IInv, asked # {}, DOMAIN result = {}, CalculateLineIn
    PROVE  IInv'
<1> DEFINE c == Min(ahead)
<1>1. /\ begun > 0 /\ LineBelow(DelEnd(changes[begun]))
      /\ calculated' = [calculated EXCEPT ![c] = LineIn(changes, begun, c)] /\ NextLine
      /\ UNCHANGED <<diff, builder, asked, begun, contentChanged, finalBalance, result>>
  BY DEF CalculateLineIn, ChangesApplied
<1>2. ahead # {} /\ c # 0 /\ c < DelEnd(changes[begun])
  BY <1>1 DEF LineBelow
<1>3. Walking /\ begun \in 0..Len(changes) /\ Len(changes) \in Nat /\ DOMAIN changes = 1..Len(changes)
  BY WalkOver DEF Walking
<1>4. c \in ahead /\ c \in Asked /\ c \in Nat /\ 0 \notin Asked
  BY <1>1, <1>2, NextLineDoes
<1>5. begun \in DOMAIN changes /\ begun \in Nat
  BY <1>1, <1>3
<1>6. changes[begun].delStart <= c
  BY <1>1, <1>3, <1>4, <1>5, WalkOver DEF Walking
<1>7. begun > 1 => c >= DelEnd(changes[begun - 1])
  <2>1. SUFFICES ASSUME begun > 1 PROVE c >= DelEnd(changes[begun - 1])
    OBVIOUS
  <2>2. begun - 1 \in DOMAIN changes /\ begun - 1 < begun
    BY <1>3, <1>5, <2>1
  <2>3. DelEnd(changes[begun - 1]) < changes[begun].delStart /\ DelEnd(changes[begun - 1]) \in Nat /\ changes[begun].delStart \in Nat
    BY <1>5, <2>2, WalkOver
  <2> QED
    BY <1>4, <1>6, <2>3
<1>8. Place(changes, c) = LineIn(changes, begun, c)
  BY <1>2, <1>4, <1>5, <1>6, <1>7, WalkOver, PlaceIs
<1>9. begun < Len(changes) => c < changes[begun + 1].delStart
  <2>1. SUFFICES ASSUME begun < Len(changes) PROVE c < changes[begun + 1].delStart
    OBVIOUS
  <2>2. begun + 1 \in DOMAIN changes /\ begun < begun + 1
    BY <1>3, <1>5, <2>1
  <2>3. DelEnd(changes[begun]) < changes[begun + 1].delStart /\ DelEnd(changes[begun]) \in Nat /\ changes[begun + 1].delStart \in Nat
    BY <1>5, <2>2, WalkOver
  <2> QED
    BY <1>2, <1>4, <2>3
<1> QED
  BY <1>1, <1>2, <1>8, <1>9, PassLine

\* A line after all changes is moved by what they all make (calculateLinesUntilEnd()).
LEMMA StepUntilEnd ==
    ASSUME IInv, asked # {}, DOMAIN result = {}, CalculateLineUntilEnd
    PROVE  IInv'
<1> DEFINE c == Min(ahead)
<1>1. /\ ChangesApplied /\ begun = Len(changes) /\ ahead # {} /\ c # 0
      /\ calculated' = [calculated EXCEPT ![c].line = c + finalBalance] /\ NextLine
      /\ UNCHANGED <<diff, builder, asked, begun, contentChanged, finalBalance, result>>
  BY DEF CalculateLineUntilEnd, MoveCurrentLineBy
<1>2. /\ Walking /\ begun \in 0..Len(changes) /\ Len(changes) \in Nat /\ DOMAIN changes = 1..Len(changes)
      /\ changes \in Seq(Change) /\ Chain(changes, OldLength, NewLength)
  BY WalkOver DEF Walking
<1>3. c \in ahead /\ c \in Asked /\ c \in Nat
  BY <1>1, NextLineDoes
<1>4. changes # <<>> => c >= DelEnd(LastOf(changes))
  <2>1. SUFFICES ASSUME changes # <<>> PROVE c >= DelEnd(changes[begun])
    BY <1>1 DEF LastOf
  <2>2. begun > 0 /\ begun \in DOMAIN changes
    BY <1>1, <1>2, <2>1
  <2>3. ~(c < DelEnd(changes[begun]))
    BY <1>1, <2>2 DEF ChangesApplied, LineBelow
  <2> QED
    BY <1>3, <2>2, <2>3, WalkOver
<1>5. finalBalance = FinalBalance(changes)
  <2>1. CASE changes = <<>>
    BY <1>1, <1>2, <2>1 DEF Walking, FinalBalance
  <2>2. CASE changes # <<>>
    <3>1. begun > 0 /\ begun \in DOMAIN changes /\ changes[begun] \in Change
      BY <1>1, <1>2, <2>2
    <3>2. finalBalance = BalanceAfter(changes[begun])
      BY <1>2, <3>1 DEF Walking
    <3>3. FinalBalance(changes) = AddEnd(changes[begun]) - DelEnd(changes[begun])
      BY <1>1, <2>2 DEF FinalBalance
    <3> QED
      BY <3>1, <3>2, <3>3, BalanceOfEnds
  <2> QED
    BY <2>1, <2>2
<1>6. Place(changes, c) = [line |-> c + finalBalance, change |-> 0]
  BY <1>2, <1>3, <1>4, <1>5, PlaceIs
<1>7. calculated[c] = [line |-> 0, change |-> 0] /\ c \in DOMAIN calculated
  BY <1>2, <1>3 DEF Walking
<1> HIDE DEF c
<1>8. calculated' = [calculated EXCEPT ![c] = Place(changes, c)]
  <2> DEFINE r == [calculated[c] EXCEPT !.line = c + finalBalance]
  <2>1. r = Place(changes, c)
    BY <1>6, <1>7, LineIsSet
  <2>2. calculated' = [calculated EXCEPT ![c] = r]
    BY <1>1
  <2> HIDE DEF r
  <2> QED
    BY ONLY <2>1, <2>2
<1>9. ~(begun < Len(changes))
  BY <1>1, <1>2
<1> QED
  BY <1>1, <1>8, <1>9, PassLine DEF c

\* The lines ahead when a change begins are those not before it.
LEMMA AheadAtChange ==
    ASSUME IInv, asked # {}, 0 \notin Asked, ChangesApplied, begun < Len(changes),
           ~LineBelow(changes[begun + 1].delStart)
    PROVE  ahead = Remaining(asked, changes[begun + 1])
<1> DEFINE s == changes[begun + 1].delStart
<1>1. /\ Walking /\ Asked \in SUBSET Nat /\ ahead \in SUBSET Nat /\ ahead \subseteq Asked
      /\ begun \in 0..Len(changes) /\ Len(changes) \in Nat
  BY WalkOver DEF Walking
<1>2. begun + 1 \in DOMAIN changes /\ s \in Nat
  <2>1. begun + 1 \in DOMAIN changes
    BY <1>1, WalkOver
  <2> QED
    BY <2>1, WalkOver
<1>3. \A l \in Asked \ ahead : l < s
  BY <1>1 DEF Walking, Passed
<1>4. ASSUME NEW l \in ahead
      PROVE  l >= s
  <2>1. Min(ahead) \in ahead /\ Min(ahead) <= l
    BY <1>1, <1>4, MinIsFirst
  <2>2. Min(ahead) # 0 /\ Min(ahead) \in Nat /\ l \in Nat
    BY <1>1, <1>4, <2>1
  <2>3. ~(Min(ahead) < s)
    BY <1>4, <2>2 DEF LineBelow
  <2> QED
    BY <1>2, <2>1, <2>2, <2>3
<1> HIDE DEF s
<1>5. \A l \in Asked : l \in ahead <=> l >= s
  BY <1>1, <1>2, <1>3, <1>4
<1>6. ahead = {l \in Asked : l >= s}
  BY <1>1, <1>5
<1> QED
  BY <1>6 DEF Remaining, Asked, s

\* A change begins: what is active is marked (calculateLinesIn()).
LEMMA StepBegin ==
    ASSUME IInv, asked # {}, DOMAIN result = {}, BeginChange
    PROVE  IInv'
<1> DEFINE k == begun + 1
<1>1. /\ ChangesApplied /\ begun < Len(changes) /\ ~LineBelow(changes[k].delStart)
      /\ begun' = k /\ contentChanged' = contentChanged \cup active
      /\ finalBalance' = BalanceAfter(changes[begun'])
      /\ UNCHANGED <<diff, builder, asked, ahead, active, calculated, result>>
  BY DEF BeginChange
<1>2. /\ diff' = diff /\ state' = state /\ changes' = changes /\ asked' = asked /\ result' = result
      /\ ahead' = ahead /\ active' = active /\ calculated' = calculated
  BY <1>1 DEF builder
<1>3. OldLength' = OldLength /\ Asked' = Asked
  BY <1>2, Lengths DEF Asked
<1>4. /\ Walking /\ Asked \in SUBSET Nat /\ begun \in 0..Len(changes) /\ Len(changes) \in Nat /\ DOMAIN changes = 1..Len(changes)
      /\ ahead \subseteq Asked
  BY WalkOver DEF Walking
<1>5. k \in DOMAIN changes /\ k \in 0..Len(changes) /\ k # 0 /\ k > 0
  BY <1>1, <1>4
<1>6. ASSUME NEW l \in Asked \ ahead
      PROVE  Passed(l)'
  <2>1. Passed(l) /\ l < changes[k].delStart /\ l \in Nat
    BY <1>1, <1>4 DEF Walking, Passed
  <2>2. k < Len(changes) => l < changes[k + 1].delStart
    <3>1. SUFFICES ASSUME k < Len(changes) PROVE l < changes[k + 1].delStart
      OBVIOUS
    <3>2. k + 1 \in DOMAIN changes /\ k < k + 1
      BY <1>4, <1>5, <3>1
    <3>3. /\ changes[k].delStart <= DelEnd(changes[k]) /\ DelEnd(changes[k]) < changes[k + 1].delStart
          /\ changes[k].delStart \in Nat /\ DelEnd(changes[k]) \in Nat /\ changes[k + 1].delStart \in Nat
      BY <1>5, <3>2, WalkOver
    <3> QED
      BY <2>1, <3>3
  <2> HIDE DEF k
  <2> QED
    BY <1>1, <1>2, <2>1, <2>2 DEF Passed
<1>7. 0 \notin Asked => ahead = Remaining(asked, changes[k])
  BY <1>1, AheadAtChange
<1>8. 0 \notin Asked => \A l \in ahead : l >= changes[k].delStart
  BY <1>7 DEF Remaining
<1>9. 0 \in Asked => active = {}
  <2>1. SUFFICES ASSUME 0 \in Asked, NEW loc \in asked, Active(loc, ahead) PROVE FALSE
    BY <1>4 DEF Walking
  <2>2. 0 \in ahead
    BY <1>4, <2>1 DEF Walking, Passed
  <2>3. Min(ahead) = 0
    <3>1. ahead \in SUBSET Nat
      BY <1>4
    <3>2. Min(ahead) \in Nat /\ Min(ahead) <= 0
      BY <2>2, <3>1, MinIsFirst
    <3> QED
      BY <3>2
  <2>4. loc.start \in Nat /\ loc.start >= 1
    BY <1>4, WalkOver DEF Walking
  <2> QED
    BY <2>1, <2>2, <2>3, <2>4 DEF Active
<1>10. contentChanged' = {loc \in asked : /\ 0 \notin Asked
                                          /\ \E j \in 1..k : Active(loc, Remaining(asked, changes[j]))}
  <2>1. contentChanged = {loc \in asked : /\ 0 \notin Asked
                                          /\ \E j \in 1..begun : Active(loc, Remaining(asked, changes[j]))}
    BY <1>4 DEF Walking
  <2>2. active = {loc \in asked : Active(loc, ahead)}
    BY <1>4 DEF Walking
  <2>3. \A j : j \in 1..k <=> j \in 1..begun \/ j = k
    BY <1>4
  <2> HIDE DEF k
  <2> QED
    BY <1>1, <1>7, <1>9, <2>1, <2>2, <2>3
<1> HIDE DEF k
<1>11. Walking'
  BY <1>1, <1>2, <1>3, <1>4, <1>5, <1>6, <1>8, <1>10 DEF Walking
<1> QED
  BY <1>2, <1>1, <1>11, WalkFrame

\* When the lines have been calculated, the locations are (assignNewLines(), calculateMissingLocations()).
LEMMA StepResults ==
    ASSUME IInv, asked # {}, DOMAIN result = {}, Results
    PROVE  IInv'
<1>1. /\ begun = Len(changes) /\ (ahead # {} => Min(ahead) = 0)
      /\ result' = [loc \in asked |-> NewLocation(changes, calculated[loc.start], calculated[loc.end],
                                                  loc, loc \in contentChanged)]
      /\ UNCHANGED <<diff, builder, walk>>
  BY DEF Results
<1>2. /\ changes' = changes /\ asked' = asked /\ begun' = begun /\ state' = state /\ diff' = diff
      /\ ahead' = ahead /\ active' = active /\ calculated' = calculated
      /\ contentChanged' = contentChanged /\ finalBalance' = finalBalance
  BY <1>1 DEF walk, builder
<1>3. Asked' = Asked /\ OldLength' = OldLength
  BY <1>2, Lengths DEF Asked
<1>4. Walking /\ Asked \in SUBSET Nat /\ ahead \in SUBSET Nat /\ ahead \subseteq Asked /\ DOMAIN changes = 1..Len(changes)
  BY WalkOver DEF Walking
<1>5. \A l : Passed(l)' <=> Passed(l)
  BY <1>2 DEF Passed
<1>6. Walking'
  BY <1>2, <1>3, <1>4, <1>5 DEF Walking
<1>7. ASSUME 0 \notin Asked, NEW loc \in asked
      PROVE  result'[loc] = Located(changes, asked, loc)
  <2>1. ahead = {}
    <3>1. SUFFICES ASSUME ahead # {} PROVE FALSE
      OBVIOUS
    <3>2. Min(ahead) \in ahead
      BY <1>4, <3>1, MinIsFirst
    <3> QED
      BY <1>1, <1>4, <1>7, <3>1, <3>2
  <2>2. loc.start \in Asked /\ loc.end \in Asked
    BY DEF Asked, LinesOfInterest
  <2>3. calculated[loc.start] = Place(changes, loc.start) /\ calculated[loc.end] = Place(changes, loc.end)
    BY <1>4, <2>1, <2>2 DEF Walking, Passed
  <2>4. (loc \in contentChanged) = ContentChanged(changes, asked, loc)
    <3>1. contentChanged = {m \in asked : /\ 0 \notin Asked
                                          /\ \E k \in 1..begun : Active(m, Remaining(asked, changes[k]))}
      BY <1>4 DEF Walking
    <3>2. DOMAIN changes = 1..begun
      BY <1>1, <1>4
    <3>3. loc \in contentChanged <=> \E k \in DOMAIN changes : Active(loc, Remaining(asked, changes[k]))
      BY ONLY <1>7, <3>1, <3>2
    <3>4. CASE loc \in contentChanged
      BY <3>3, <3>4, Zenon DEF ContentChanged
    <3>5. CASE ~(loc \in contentChanged)
      <4>1. (loc \in contentChanged) = FALSE
        BY ONLY <3>5
      <4>2. ContentChanged(changes, asked, loc) = FALSE
        BY <3>3, <3>5, Zenon DEF ContentChanged
      <4> QED
        BY ONLY <4>1, <4>2, Zenon
    <3> QED
      BY <3>4, <3>5
  <2>5. result'[loc] = NewLocation(changes, calculated[loc.start], calculated[loc.end], loc, loc \in contentChanged)
    BY <1>1
  <2> QED
    BY <2>3, <2>4, <2>5 DEF Located
<1>8. Done'
  BY <1>1, <1>2, <1>3, <1>7 DEF Done
<1> QED
  BY <1>2, <1>1, <1>6, <1>8, WalkFrame

\* The walk starts with all lines ahead.
LEMMA StepCalculate ==
    ASSUME IInv, asked = {}, NEW L, L \subseteq Locations, L # {}, Calculate(L)
    PROVE  IInv'
<1> DEFINE Ls == LinesOfInterest(L)
<1>1. /\ state' = "sync" /\ changes' = Pushed /\ result' = result
      /\ diff' = diff /\ oldLine' = oldLine /\ newLine' = newLine /\ dels' = dels /\ adds' = adds
      /\ asked' = L /\ ahead' = Ls /\ active' = StartingAtFirst(L, Ls)
      /\ begun' = 0 /\ finalBalance' = 0 /\ contentChanged' = {}
      /\ calculated' = [l \in Ls |-> [line |-> 0, change |-> 0]]
  BY DEF Calculate, ActiveAtFirst
<1>2. Pushed' = Pushed
  BY <1>1 DEF Pushed
<1>3. OldLength' = OldLength /\ NewLength' = NewLength
  BY <1>1, Lengths
<1>4. Pushed \in Seq(Change) /\ Sound(diff', Pushed') /\ diff \in Seq(Entry)
  BY <1>1, <1>2 DEF IInv, Sound
<1>5. Types'
  BY <1>1, <1>3, <1>4 DEF IInv, Types
<1>6. Asked' = Ls
  BY <1>1 DEF Asked
<1>7. OldLength \in Nat /\ Len(Pushed) \in Nat
  BY <1>4, Lengths, LengthsAreNat
<1>8. \A loc \in L : /\ loc \in [start : 1..(OldLength + 1), end : 0..(OldLength + 1)]
                     /\ loc.start \in Nat /\ loc.end \in Nat /\ loc.start \in Ls /\ loc.end \in Ls /\ loc.start >= 1
  BY <1>7 DEF Locations, LinesOfInterest
<1>9. Ls \in SUBSET Nat
  BY <1>8 DEF LinesOfInterest
<1>10. Ls # {}
  BY <1>8
<1> HIDE DEF Ls
<1>11. Min(Ls) \in Ls /\ Min(Ls) \in Nat /\ \A l \in Ls : Min(Ls) <= l
  BY <1>9, <1>10, MinIsFirst
<1>12. StartingAtFirst(L, Ls) = {loc \in L : Active(loc, Ls)}
  <2>1. ASSUME NEW loc \in L
        PROVE  loc.start = Min(Ls) <=> Active(loc, Ls)
    <3>1. Min(Ls) <= loc.start /\ Min(Ls) <= loc.end
      BY <1>8, <1>11
    <3> QED
      BY <1>8, <1>10, <1>11, <3>1 DEF Active
  <2> QED
    BY <1>10, <2>1 DEF StartingAtFirst
<1>13. L \subseteq [start : 1..(OldLength + 1), end : 0..(OldLength + 1)]
  BY <1>8
<1>14. Walking'
  BY <1>1, <1>3, <1>4, <1>6, <1>7, <1>12, <1>13 DEF Walking
<1> QED
  BY <1>1, <1>4, <1>5, <1>14 DEF IInv

\* Every step keeps the invariant.
LEMMA StepSound ==
    ASSUME IInv, [Next]_vars
    PROVE  IInv'
<1>1. CASE UNCHANGED vars
  <2>1. /\ diff' = diff /\ state' = state /\ oldLine' = oldLine /\ newLine' = newLine /\ dels' = dels /\ adds' = adds
        /\ delStart' = delStart /\ addStart' = addStart /\ changes' = changes /\ result' = result
        /\ asked' = asked /\ ahead' = ahead /\ begun' = begun /\ active' = active /\ calculated' = calculated
        /\ contentChanged' = contentChanged /\ finalBalance' = finalBalance
    BY <1>1 DEF vars, builder, walk
  <2>2. /\ OldLength' = OldLength /\ NewLength' = NewLength /\ Pushed' = Pushed /\ (BetweenHunks' <=> BetweenHunks)
        /\ Asked' = Asked
    BY <2>1, Lengths DEF Pushed, BetweenHunks, Asked
  <2>3. Types' /\ (Reading <=> Reading') /\ (Done <=> Done')
    BY <2>1, <2>2 DEF IInv, Types, Reading, Done
  <2>4. \A l : Passed(l)' <=> Passed(l)
    BY <2>1 DEF Passed
  <2>5. Walking <=> Walking'
    BY <2>1, <2>2, <2>4 DEF Walking
  <2> QED
    BY <2>1, <2>2, <2>3, <2>5 DEF IInv
<1>2. CASE Next
  <2>1. DOMAIN result = {}
    BY <1>2 DEF Next
  <2>2. CASE asked = {} /\ ReadDiff
    BY <2>2, SoundStepCtx, SoundStepNextHunk, SoundStepDel, SoundStepAdd DEF ReadDiff
  <2>3. CASE asked = {} /\ Start
    <3>1. ASSUME NEW loc \in Locations, Calculate({loc})
          PROVE  IInv'
      BY <2>3, <3>1, StepCalculate
    <3>2. ASSUME NEW loc \in Locations, NEW other \in Points, Calculate({loc, other})
          PROVE  IInv'
      <4>1. OldLength \in Nat
        BY Lengths, LengthsAreNat DEF IInv, Sound
      <4>2. other \in Locations
        BY <4>1 DEF Points, Locations
      <4>3. {loc, other} \subseteq Locations /\ {loc, other} # {}
        BY <4>2
      <4> QED
        BY <2>3, <3>2, <4>3, StepCalculate
    <3> QED
      BY <2>3, <3>1, <3>2 DEF Start
  <2>4. CASE asked # {} /\ Walk
    BY <2>1, <2>4, StepUntil, StepIn, StepUntilEnd, StepBegin, StepResults DEF Walk
  <2> QED
    BY <1>2, <2>2, <2>3, <2>4 DEF Next
<1> QED
  BY <1>1, <1>2

\* The changes gathered always account for the diff read so far, and what is calculated is
\* calculated from them (ChangesetBuilder of changeset.ts).
THEOREM Invariance == Spec => []IInv
<1>1. Init => IInv
  BY InitSound
<1>2. IInv /\ [Next]_vars => IInv'
  BY StepSound
<1> QED
  BY <1>1, <1>2, PTL DEF Spec

--------------------------------------------------------------------------------
(* Similarity. *)

\* The best match is one of the candidates, and good enough, or there is none.
LEMMA BestMatchIs ==
    ASSUME NEW x \in Lines, NEW candidates \in Seq(Lines)
    PROVE  \/ BestMatch(x, candidates) = 0
           \/ /\ BestMatch(x, candidates) \in DOMAIN candidates
              /\ Similarity[<<x, candidates[BestMatch(x, candidates)]>>] >= Threshold
<1> DEFINE Rate(i) == Similarity[<<x, candidates[i]>>]
           best == {i \in DOMAIN candidates :
                       GoodEnough(Rate(i)) /\ \A j \in DOMAIN candidates : Rate(j) <= Rate(i)}
<1>1. BestMatch(x, candidates) = IF best = {} THEN 0 ELSE Min(best)
  BY DEF BestMatch
<1>2. best \in SUBSET Nat
  <2>1. DOMAIN candidates \subseteq Nat
    OBVIOUS
  <2> QED
    BY <2>1
<1>3. best # {} => Min(best) \in best
  <2> HIDE DEF best
  <2> QED
    BY <1>2, MinIsFirst
<1> QED
  BY <1>1, <1>3 DEF GoodEnough

\* Finitely many lines have finitely many bigrams.
LEMMA BigramsAreFinite == IsFiniteSet(Bigrams)
<1>1. IsFiniteSet(Lines) /\ \A x \in Lines : IsFiniteSet(Words[x])
  BY MarkerLocationAssumption
<1>2. IsFiniteSet({Words[x] : x \in Lines})
  <2> DEFINE f == [x \in Lines |-> Words[x]]
             T == {Words[x] : x \in Lines}
  <2>1. f \in Surjection(Lines, T)
    BY DEF Surjection
  <2> HIDE DEF f, T
  <2>2. IsFiniteSet(T)
    BY <1>1, <2>1, FS_Surjection
  <2> QED
    BY <2>2 DEF T
<1>3. \A T \in {Words[x] : x \in Lines} : IsFiniteSet(T)
  BY <1>1
<1> QED
  BY <1>2, <1>3, FS_UNION DEF Bigrams

\* A rating is a natural number.
LEMMA RatingIsNat ==
    ASSUME NEW xs \in Seq(Lines), NEW ys \in Seq(Lines)
    PROVE  Rating(xs, ys) \in Nat
<1>1. ASSUME NEW zs \in Seq(Lines)
      PROVE  IsFiniteSet((DOMAIN zs) \X Bigrams)
  <2>1. IsFiniteSet(DOMAIN zs)
    <3>1. DOMAIN zs = 1..Len(zs) /\ Len(zs) \in Nat
      OBVIOUS
    <3> QED
      BY <3>1, FS_Interval
  <2> QED
    BY <2>1, BigramsAreFinite, FS_Product
<1>2. ASSUME NEW zs \in Seq(Lines)
      PROVE  Size(zs) \in Nat
  <2> DEFINE S == {o \in (DOMAIN zs) \X Bigrams : o[2] \in Words[zs[o[1]]]}
  <2>1. S \subseteq (DOMAIN zs) \X Bigrams
    OBVIOUS
  <2> HIDE DEF S
  <2>2. Cardinality(S) \in Nat
    BY <1>1, <2>1, FS_Subset, FS_CardinalityType
  <2> QED
    BY <2>2 DEF Size, S
<1>3. Common(xs, ys) \in Nat
  <2> DEFINE S == {o \in (DOMAIN xs) \X Bigrams : o[1] <= Count(o[2], xs) /\ o[1] <= Count(o[2], ys)}
  <2>1. S \subseteq (DOMAIN xs) \X Bigrams
    OBVIOUS
  <2> HIDE DEF S
  <2>2. Cardinality(S) \in Nat
    BY <1>1, <2>1, FS_Subset, FS_CardinalityType
  <2> QED
    BY <2>2 DEF Common, S
<1>4. ASSUME NEW a \in Nat, NEW b \in Nat, b # 0
      PROVE  (200 * a) \div b \in Nat
  <2>1. 200 * a \in Nat
    OBVIOUS
  <2>2. \A c \in Nat : c \div b \in Nat
    BY <1>4
  <2> QED
    BY <2>1, <2>2
<1>5. Size(xs) \in Nat /\ Size(ys) \in Nat /\ Size(xs) + Size(ys) \in Nat
  BY <1>2
<1> QED
  BY <1>3, <1>4, <1>5 DEF Rating

\* Of some changes, LeastSimilar is one.
LEMMA LeastSimilarIs ==
    ASSUME NEW chs \in Seq(Change), NEW k \in DOMAIN chs, NEW J \in SUBSET DOMAIN chs, J # {}
    PROVE  LeastSimilar(chs, k, J) \in J
<1> DEFINE Rate(j) == Rating(chs[k].dels, chs[j].adds)
           R == {Rate(j) : j \in J}
           M == {j \in J : \A i \in J : Rate(j) <= Rate(i)}
<1>1. \A j \in J : Rate(j) \in Nat
  <2>1. \A j \in DOMAIN chs : chs[j].adds \in Seq(Lines) /\ chs[j].dels \in Seq(Lines)
    <3>1. \A j \in DOMAIN chs : chs[j] \in Change
      OBVIOUS
    <3> QED
      BY <3>1, ChangeIs
  <2> QED
    BY <2>1, RatingIsNat
<1>2. LeastSimilar(chs, k, J) = Min(M)
  BY DEF LeastSimilar
<1>3. J \in SUBSET Nat
  <2>1. DOMAIN chs \subseteq Nat
    OBVIOUS
  <2> QED
    BY <2>1
<1> HIDE DEF Rate
<1>4. R \in SUBSET Nat /\ R # {}
  BY <1>1
<1>5. Min(R) \in R /\ \A r \in R : Min(R) <= r
  <2> HIDE DEF R
  <2> QED
    BY <1>4, MinIsFirst
<1>6. PICK j \in J : \A i \in J : Rate(j) <= Rate(i)
  BY <1>5
<1>7. M # {} /\ M \in SUBSET Nat
  BY <1>3, <1>6
<1>8. Min(M) \in M
  <2> HIDE DEF M
  <2> QED
    BY <1>7, MinIsFirst
<1> QED
  BY <1>2, <1>8

--------------------------------------------------------------------------------
(* Where a line goes. *)

\* A line in a change goes to one that the change adds and that is similar, or is deleted.
LEMMA LineInIs ==
    ASSUME NEW chs \in Seq(Change), NEW k \in DOMAIN chs, NEW l \in Nat, Removes(chs[k], l)
    PROVE  LET r == LineIn(chs, k, l)
           IN  /\ r.change = k
               /\ \/ r.line = Deleted
                  \/ /\ r.line \in Nat /\ chs[k].addStart <= r.line /\ r.line < AddEnd(chs[k])
                     /\ \E i \in DOMAIN chs[k].adds :
                           /\ r.line = chs[k].addStart + i - 1
                           /\ Similarity[<<chs[k].dels[l - chs[k].delStart + 1], chs[k].adds[i]>>] >= Threshold
<1> DEFINE ch == chs[k]
           x == ch.dels[l - ch.delStart + 1]
           i == BestMatch(x, ch.adds)
<1>1. ch \in Change
  OBVIOUS
<1>2. /\ ch.delStart \in Nat /\ ch.addStart \in Nat \ {0} /\ ch.dels \in Seq(Lines) /\ ch.adds \in Seq(Lines)
      /\ DelEnd(ch) = ch.delStart + Len(ch.dels) /\ AddEnd(ch) = ch.addStart + Len(ch.adds)
  BY <1>1, ChangeIs
<1>3. ch.delStart <= l /\ l < DelEnd(ch)
  BY DEF Removes
<1>4. LineIn(chs, k, l) = [line |-> IF i = 0 THEN Deleted ELSE ch.addStart + i - 1, change |-> k]
  BY DEF LineIn
<1> HIDE DEF ch
<1>5. x \in Lines
  <2>1. Len(ch.dels) \in Nat
    BY <1>2
  <2>2. l - ch.delStart + 1 \in 1..Len(ch.dels)
    BY <1>2, <1>3, <2>1
  <2> QED
    BY <1>2, <2>2
<1>6. \/ i = 0
      \/ i \in DOMAIN ch.adds /\ Similarity[<<x, ch.adds[i]>>] >= Threshold
  BY <1>2, <1>5, BestMatchIs
<1>7. ASSUME i \in DOMAIN ch.adds
      PROVE  /\ ch.addStart + i - 1 \in Nat /\ ch.addStart <= ch.addStart + i - 1
             /\ ch.addStart + i - 1 < AddEnd(ch) /\ i # 0
  <2>1. i \in 1..Len(ch.adds) /\ Len(ch.adds) \in Nat
    BY <1>2, <1>7
  <2> HIDE DEF i
  <2> QED
    BY <1>2, <2>1
<1> HIDE DEF i, x
<1>8. CASE i = 0
  BY <1>4, <1>8
<1>9. CASE i # 0
  <2>1. LineIn(chs, k, l) = [line |-> ch.addStart + i - 1, change |-> k]
    BY <1>4, <1>9
  <2>2. i \in DOMAIN ch.adds /\ Similarity[<<x, ch.adds[i]>>] >= Threshold
    BY <1>6, <1>9
  <2> DEFINE r == LineIn(chs, k, l)
  <2>3. r.line = ch.addStart + i - 1 /\ r.change = k
    BY <2>1
  <2> HIDE DEF r
  <2>4. r.line \in Nat /\ ch.addStart <= r.line /\ r.line < AddEnd(ch)
    BY <1>7, <2>2, <2>3
  <2>5. \E j \in DOMAIN ch.adds : r.line = ch.addStart + j - 1 /\ Similarity[<<x, ch.adds[j]>>] >= Threshold
    BY ONLY <2>2, <2>3, Zenon
  <2> QED
    BY ONLY <2>3, <2>4, <2>5, Zenon DEF ch, x, r
<1> QED
  BY <1>8, <1>9

\* Where a start is trimmed to that was deleted, and an end (calculator.ts).
StartOf(chs, r) == IF r.line = Deleted THEN AddEnd(chs[r.change]) ELSE r.line
EndOf(chs, r) == IF r.line = Deleted THEN chs[r.change].addStart - 1 ELSE r.line

\* Lines stay in the file, and do not pass the end of a change.
LEMMA LineBounds ==
    ASSUME NEW chs \in Seq(Change), NEW old \in Nat, NEW new \in Nat, Chain(chs, old, new),
           NEW l \in 1..(old + 1)
    PROVE  LET r == Place(chs, l)
           IN  /\ r.line \in (1..(new + 1)) \cup {Deleted}
               /\ r.line = Deleted => r.change \in DOMAIN chs /\ Removes(chs[r.change], l)
               /\ StartOf(chs, r) \in 1..(new + 1) /\ EndOf(chs, r) \in 0..(new + 1)
               /\ \A j \in DOMAIN chs : /\ l < DelEnd(chs[j]) => StartOf(chs, r) <= AddEnd(chs[j])
                                        /\ l >= DelEnd(chs[j]) => EndOf(chs, r) >= AddEnd(chs[j])
<1> DEFINE r == Place(chs, l)
<1>1. l \in Nat /\ l >= 1 /\ l <= old + 1 /\ Deleted = -1
  BY DEF Deleted
<1>2. \A j \in DOMAIN chs : /\ j \in Nat /\ j >= 1 /\ chs[j] \in Change
                            /\ chs[j].delStart \in Nat \ {0} /\ chs[j].addStart \in Nat \ {0}
                            /\ DelEnd(chs[j]) \in Nat /\ AddEnd(chs[j]) \in Nat
                            /\ chs[j].delStart <= DelEnd(chs[j]) /\ chs[j].addStart <= AddEnd(chs[j])
  <2>1. \A j \in DOMAIN chs : j \in Nat /\ j >= 1 /\ chs[j] \in Change
    OBVIOUS
  <2> QED
    BY <2>1, ChangeIs
<1>3. ASSUME NEW j \in DOMAIN chs
      PROVE  AddEnd(chs[j]) <= new + 1
  <2>1. /\ AddEnd(chs[j]) <= AddEnd(LastOf(chs)) /\ LastOf(chs) \in Change
    BY LastEndsLast
  <2>2. old - DelEnd(LastOf(chs)) = new - AddEnd(LastOf(chs)) /\ DelEnd(LastOf(chs)) <= old + 1
    BY DEF Chain
  <2>3. DelEnd(LastOf(chs)) \in Nat /\ AddEnd(LastOf(chs)) \in Nat
    BY <2>1, ChangeIs
  <2> QED
    BY <1>2, <2>1, <2>2, <2>3
<1>4. CASE /\ \A j \in DOMAIN chs : l >= DelEnd(chs[j])
           /\ r = [line |-> l + FinalBalance(chs), change |-> 0]
  <2>1. CASE chs = <<>>
    <3>1. old = new /\ FinalBalance(chs) = 0
      BY <2>1 DEF Chain, FinalBalance
    <3>2. r.line = l /\ l # Deleted
      BY <1>1, <1>4, <3>1
    <3> QED
      BY <1>1, <2>1, <3>1, <3>2 DEF StartOf, EndOf
  <2>2. CASE chs # <<>>
    <3>1. /\ LastOf(chs) \in Change /\ Len(chs) \in DOMAIN chs /\ LastOf(chs) = chs[Len(chs)]
          /\ \A j \in DOMAIN chs : AddEnd(chs[j]) <= AddEnd(LastOf(chs))
      BY <2>2, LastEndsLast DEF LastOf
    <3>2. /\ old - DelEnd(LastOf(chs)) = new - AddEnd(LastOf(chs))
          /\ FinalBalance(chs) = AddEnd(LastOf(chs)) - DelEnd(LastOf(chs))
      BY <2>2 DEF Chain, FinalBalance, LastOf
    <3>3. /\ DelEnd(LastOf(chs)) \in Nat /\ AddEnd(LastOf(chs)) \in Nat /\ AddEnd(LastOf(chs)) >= 1
          /\ l >= DelEnd(LastOf(chs))
      BY <1>2, <1>4, <3>1
    <3> DEFINE n == l + FinalBalance(chs)
    <3>4. n \in 1..(new + 1) /\ n >= AddEnd(LastOf(chs)) /\ n # Deleted
      BY <1>1, <3>2, <3>3
    <3>5. r.line = n
      BY <1>4
    <3> HIDE DEF n
    <3>6. StartOf(chs, r) = n /\ EndOf(chs, r) = n
      BY <3>4, <3>5 DEF StartOf, EndOf
    <3>7. \A j \in DOMAIN chs : n >= AddEnd(chs[j])
      BY <1>2, <3>1, <3>3, <3>4
    <3>8. \A j \in DOMAIN chs : ~(l < DelEnd(chs[j]))
      BY <1>1, <1>2, <1>4
    <3> QED
      BY <1>1, <3>4, <3>5, <3>6, <3>7, <3>8
  <2> QED
    BY <2>1, <2>2
<1>5. ASSUME NEW k \in DOMAIN chs, \A j \in DOMAIN chs : j < k => l >= DelEnd(chs[j]),
             l < chs[k].delStart, r = [line |-> l + Balance(chs[k]), change |-> 0]
      PROVE  /\ r.line \in (1..(new + 1)) \cup {Deleted}
             /\ r.line = Deleted => r.change \in DOMAIN chs /\ Removes(chs[r.change], l)
             /\ StartOf(chs, r) \in 1..(new + 1) /\ EndOf(chs, r) \in 0..(new + 1)
             /\ \A j \in DOMAIN chs : /\ l < DelEnd(chs[j]) => StartOf(chs, r) <= AddEnd(chs[j])
                                      /\ l >= DelEnd(chs[j]) => EndOf(chs, r) >= AddEnd(chs[j])
  <2> DEFINE n == l + (chs[k].addStart - chs[k].delStart)
  <2>1. r.line = n
    BY <1>5 DEF Balance
  <2>2. n < chs[k].addStart /\ n \in Int
    BY <1>1, <1>2, <1>5
  <2>3. n >= 1 /\ \A j \in DOMAIN chs : j < k => n >= AddEnd(chs[j])
    <3>1. CASE k = 1
      <4>1. chs[k].addStart = chs[k].delStart
        BY <3>1 DEF Chain
      <4>2. n = l
        BY <1>1, <1>2, <4>1
      <4> QED
        BY <1>1, <1>2, <3>1, <4>2
    <3>2. CASE k # 1
      <4>1. k - 1 \in DOMAIN chs /\ k > 1
        BY <1>2, <3>2
      <4>2. chs[k].delStart - DelEnd(chs[k - 1]) = chs[k].addStart - AddEnd(chs[k - 1])
        BY <4>1 DEF Chain
      <4>3. l >= DelEnd(chs[k - 1])
        BY <1>2, <1>5, <4>1
      <4>4. n >= AddEnd(chs[k - 1])
        BY <1>1, <1>2, <4>1, <4>2, <4>3
      <4>5. AddEnd(chs[k - 1]) >= 1 /\ AddEnd(chs[k - 1]) \in Nat
        BY <1>2, <4>1
      <4>6. ASSUME NEW j \in DOMAIN chs, j < k
            PROVE  n >= AddEnd(chs[j])
        <5>1. CASE j = k - 1
          BY <4>4, <5>1
        <5>2. CASE j < k - 1
          <6>1. AddEnd(chs[j]) < chs[k - 1].addStart /\ chs[k - 1].addStart <= AddEnd(chs[k - 1])
            BY <1>2, <4>1, <5>2 DEF Chain
          <6> QED
            BY <1>2, <2>2, <4>1, <4>4, <6>1
        <5> QED
          BY <1>2, <4>6, <5>1, <5>2
      <4> QED
        BY <2>2, <4>4, <4>5, <4>6
    <3> QED
      BY <3>1, <3>2
  <2> HIDE DEF n
  <2>4. n \in 1..(new + 1) /\ n # Deleted
    BY <1>1, <1>2, <1>3, <2>2, <2>3
  <2>5. StartOf(chs, r) = n /\ EndOf(chs, r) = n
    BY <2>1, <2>4 DEF StartOf, EndOf
  <2>6. ASSUME NEW j \in DOMAIN chs, l < DelEnd(chs[j])
        PROVE  n <= AddEnd(chs[j])
    <3>1. CASE j = k
      BY <1>2, <2>2, <3>1
    <3>2. CASE k < j
      <4>1. AddEnd(chs[k]) < chs[j].addStart
        BY <3>2 DEF Chain
      <4> QED
        BY <1>2, <2>2, <4>1
    <3>3. ~(j < k)
      BY <1>1, <1>2, <1>5, <2>6
    <3> QED
      BY <1>2, <3>1, <3>2, <3>3
  <2>7. ASSUME NEW j \in DOMAIN chs, l >= DelEnd(chs[j])
        PROVE  n >= AddEnd(chs[j])
    <3>1. ~(j = k)
      BY <1>1, <1>2, <1>5, <2>7
    <3>2. ~(k < j)
      <4>1. ASSUME k < j PROVE FALSE
        <5>1. DelEnd(chs[k]) < chs[j].delStart
          BY <4>1 DEF Chain
        <5> QED
          BY <1>1, <1>2, <1>5, <2>7, <5>1
      <4> QED
        BY <4>1
    <3> QED
      BY <1>2, <2>3, <3>1, <3>2
  <2> QED
    BY <1>1, <2>1, <2>4, <2>5, <2>6, <2>7
<1>6. ASSUME NEW k \in DOMAIN chs, Removes(chs[k], l), r = LineIn(chs, k, l)
      PROVE  /\ r.line \in (1..(new + 1)) \cup {Deleted}
             /\ r.line = Deleted => r.change \in DOMAIN chs /\ Removes(chs[r.change], l)
             /\ StartOf(chs, r) \in 1..(new + 1) /\ EndOf(chs, r) \in 0..(new + 1)
             /\ \A j \in DOMAIN chs : /\ l < DelEnd(chs[j]) => StartOf(chs, r) <= AddEnd(chs[j])
                                      /\ l >= DelEnd(chs[j]) => EndOf(chs, r) >= AddEnd(chs[j])
  <2>1. /\ r.change = k
        /\ \/ r.line = Deleted
           \/ r.line \in Nat /\ chs[k].addStart <= r.line /\ r.line < AddEnd(chs[k])
    BY <1>1, <1>6, LineInIs
  <2>2. chs[k].addStart \in Nat \ {0} /\ AddEnd(chs[k]) \in Nat /\ AddEnd(chs[k]) <= new + 1 /\ chs[k].addStart <= AddEnd(chs[k])
    BY <1>2, <1>3
  <2> DEFINE a == StartOf(chs, r)
             b == EndOf(chs, r)
  <2>3. r.line \in (1..(new + 1)) \cup {Deleted}
    BY <2>1, <2>2
  <2>4. a \in Nat /\ a >= 1 /\ a <= AddEnd(chs[k]) /\ b \in Nat /\ chs[k].addStart - 1 <= b /\ b <= new
    <3>1. CASE r.line = Deleted
      <4>1. a = AddEnd(chs[k]) /\ b = chs[k].addStart - 1
        BY <2>1, <3>1 DEF StartOf, EndOf
      <4> QED
        BY <2>2, <4>1
    <3>2. CASE r.line # Deleted
      <4>1. a = r.line /\ b = r.line
        BY <3>2 DEF StartOf, EndOf
      <4> QED
        BY <2>1, <2>2, <3>2, <4>1
    <3> QED
      BY <3>1, <3>2
  <2> HIDE DEF a, b
  <2>5. l < DelEnd(chs[k]) /\ chs[k].delStart <= l
    BY <1>6 DEF Removes
  <2>6. ASSUME NEW j \in DOMAIN chs, l < DelEnd(chs[j])
        PROVE  a <= AddEnd(chs[j])
    <3>1. CASE j = k
      BY <2>4, <3>1
    <3>2. CASE k < j
      <4>1. AddEnd(chs[k]) < chs[j].addStart
        BY <3>2 DEF Chain
      <4> QED
        BY <1>2, <2>4, <4>1
    <3>3. CASE j < k
      <4>1. DelEnd(chs[j]) < chs[k].delStart
        BY <3>3 DEF Chain
      <4> QED
        BY <1>1, <1>2, <2>5, <2>6, <4>1
    <3> QED
      BY <1>2, <3>1, <3>2, <3>3
  <2>7. ASSUME NEW j \in DOMAIN chs, l >= DelEnd(chs[j])
        PROVE  b >= AddEnd(chs[j])
    <3>1. ~(j = k)
      BY <1>1, <1>2, <2>5, <2>7
    <3>2. ~(k < j)
      <4>1. ASSUME k < j PROVE FALSE
        <5>1. DelEnd(chs[k]) < chs[j].delStart
          BY <4>1 DEF Chain
        <5> QED
          BY <1>1, <1>2, <2>5, <2>7, <5>1
      <4> QED
        BY <4>1
    <3>3. j < k
      BY <1>2, <3>1, <3>2
    <3>4. AddEnd(chs[j]) < chs[k].addStart
      BY <3>3 DEF Chain
    <3> QED
      BY <1>2, <2>4, <3>4
  <2>8. a \in 1..(new + 1) /\ b \in 0..(new + 1)
    BY <2>2, <2>4
  <2>9. r.line = Deleted => r.change \in DOMAIN chs /\ Removes(chs[r.change], l)
    BY <1>6, <2>1
  <2> QED
    BY <2>3, <2>6, <2>7, <2>8, <2>9 DEF a, b
<1>7. \/ /\ \A j \in DOMAIN chs : l >= DelEnd(chs[j])
         /\ r = [line |-> l + FinalBalance(chs), change |-> 0]
      \/ \E k \in DOMAIN chs :
           /\ l < DelEnd(chs[k])
           /\ \A j \in DOMAIN chs : j < k => l >= DelEnd(chs[j])
           /\ \/ /\ l < chs[k].delStart
                 /\ r = [line |-> l + Balance(chs[k]), change |-> 0]
              \/ /\ chs[k].delStart <= l
                 /\ r = LineIn(chs, k, l)
  BY <1>1, LineCases
<1> HIDE DEF r
<1>8. \/ /\ \A j \in DOMAIN chs : l >= DelEnd(chs[j])
         /\ r = [line |-> l + FinalBalance(chs), change |-> 0]
      \/ \E k \in DOMAIN chs :
           /\ \A j \in DOMAIN chs : j < k => l >= DelEnd(chs[j])
           /\ l < chs[k].delStart
           /\ r = [line |-> l + Balance(chs[k]), change |-> 0]
      \/ \E k \in DOMAIN chs : Removes(chs[k], l) /\ r = LineIn(chs, k, l)
  BY <1>7 DEF Removes
<1> QED
  BY <1>4, <1>5, <1>6, <1>8 DEF r

\* A line found again is one that a change adds, and similar.
FoundAt(chs, k, l, n) ==
    \E j \in DOMAIN chs : \E i \in DOMAIN chs[j].adds :
        /\ n = chs[j].addStart + i - 1
        /\ Similarity[<<chs[k].dels[l - chs[k].delStart + 1], chs[j].adds[i]>>] >= Threshold

\* Both ends of a location found again are such lines.
LEMMA FoundIs ==
    ASSUME NEW chs \in Seq(Change), NEW k \in DOMAIN chs, NEW loc, NEW changed,
           loc.start \in Nat, loc.end \in Nat, Removes(chs[k], loc.start), Removes(chs[k], loc.end),
           Moves(chs, k, loc) # {}
    PROVE  /\ FoundAt(chs, k, loc.start, Found(chs, k, loc, changed).start)
           /\ FoundAt(chs, k, loc.end, Found(chs, k, loc, changed).end)
<1> DEFINE j == LeastSimilar(chs, k, Moves(chs, k, loc))
           to == chs[j]
           x == chs[k].dels[loc.start - chs[k].delStart + 1]
           y == chs[k].dels[loc.end - chs[k].delStart + 1]
<1>1. Moves(chs, k, loc) \in SUBSET DOMAIN chs
  BY DEF Moves
<1>2. j \in Moves(chs, k, loc)
  BY <1>1, LeastSimilarIs
<1>3. /\ Found(chs, k, loc, changed).start = to.addStart + BestMatch(x, to.adds) - 1
      /\ Found(chs, k, loc, changed).end = to.addStart + BestMatch(y, to.adds) - 1
  BY DEF Found
<1> HIDE DEF j
<1>4. j \in DOMAIN chs /\ BestMatch(x, to.adds) # 0 /\ BestMatch(y, to.adds) # 0
  BY <1>2 DEF Moves
<1>5. to.adds \in Seq(Lines)
  <2>1. to \in Change
    BY <1>4
  <2> QED
    BY <2>1, ChangeIs
<1>6. x \in Lines /\ y \in Lines
  <2>1. chs[k] \in Change
    OBVIOUS
  <2>2. /\ chs[k].delStart \in Nat /\ chs[k].dels \in Seq(Lines) /\ Len(chs[k].dels) \in Nat
        /\ DelEnd(chs[k]) = chs[k].delStart + Len(chs[k].dels)
    BY <2>1, ChangeIs
  <2>3. ASSUME NEW l \in Nat, Removes(chs[k], l)
        PROVE  chs[k].dels[l - chs[k].delStart + 1] \in Lines
    <3>1. l - chs[k].delStart + 1 \in 1..Len(chs[k].dels)
      BY <2>2, <2>3 DEF Removes
    <3> QED
      BY <2>2, <3>1
  <2> QED
    BY <2>3
<1> HIDE DEF to, x, y
<1>7. /\ BestMatch(x, to.adds) \in DOMAIN to.adds /\ Similarity[<<x, to.adds[BestMatch(x, to.adds)]>>] >= Threshold
      /\ BestMatch(y, to.adds) \in DOMAIN to.adds /\ Similarity[<<y, to.adds[BestMatch(y, to.adds)]>>] >= Threshold
  BY <1>4, <1>5, <1>6, BestMatchIs
<1> QED
  BY <1>3, <1>4, <1>7 DEF FoundAt, to, x, y

\* What is found again is in the file.
LEMMA FoundInFile ==
    ASSUME NEW chs \in Seq(Change), NEW old \in Nat, NEW new \in Nat, Chain(chs, old, new),
           NEW k, NEW l, NEW n, FoundAt(chs, k, l, n)
    PROVE  n \in 1..new
<1>0. PICK j \in DOMAIN chs : \E i \in DOMAIN chs[j].adds : n = chs[j].addStart + i - 1
  BY DEF FoundAt
<1>1. PICK i \in DOMAIN chs[j].adds : n = chs[j].addStart + i - 1
  BY <1>0
<1>2. /\ chs[j].addStart \in Nat \ {0} /\ Len(chs[j].adds) \in Nat /\ i \in 1..Len(chs[j].adds)
      /\ AddEnd(chs[j]) = chs[j].addStart + Len(chs[j].adds)
  <2>1. chs[j] \in Change
    OBVIOUS
  <2>2. chs[j].adds \in Seq(Lines)
    BY <2>1, ChangeIs
  <2>3. i \in 1..Len(chs[j].adds) /\ Len(chs[j].adds) \in Nat
    BY <2>2
  <2> QED
    BY <2>1, <2>3, ChangeIs
<1>3. AddEnd(chs[j]) <= new + 1
  <2>1. AddEnd(chs[j]) <= AddEnd(LastOf(chs)) /\ LastOf(chs) \in Change
    BY LastEndsLast
  <2>2. old - DelEnd(LastOf(chs)) = new - AddEnd(LastOf(chs)) /\ DelEnd(LastOf(chs)) <= old + 1
    BY DEF Chain
  <2>3. DelEnd(LastOf(chs)) \in Nat /\ AddEnd(LastOf(chs)) \in Nat
    BY <2>1, ChangeIs
  <2> QED
    BY <1>2, <2>1, <2>2, <2>3
<1> QED
  BY <1>1, <1>2, <1>3

\* What the invariant says of a location that has been calculated.
LEMMA Calculated ==
    ASSUME IInv, NEW loc \in DOMAIN result, 0 \notin Asked
    PROVE  /\ diff \in Seq(Entry) /\ changes \in Seq(Change)
           /\ OldLength \in Nat /\ NewLength \in Nat
           /\ OldLength = OldTo(diff, Len(diff)) /\ NewLength = NewTo(diff, Len(diff))
           /\ Chain(changes, OldLength, NewLength) /\ Accounts(diff, changes)
           /\ loc.start \in 1..(OldLength + 1) /\ loc.end \in 1..(OldLength + 1)
           /\ result[loc] = Located(changes, DOMAIN result, loc)
           /\ 0 \notin LinesOfInterest(DOMAIN result)
<1>1. DOMAIN result # {}
  OBVIOUS
<1>2. Done /\ DOMAIN result = asked /\ Sound(diff, Pushed)
  BY <1>1 DEF IInv, Done
<1>3. Walking /\ Pushed = changes
  BY <1>1, <1>2, WalkOver
<1>4. diff \in Seq(Entry) /\ changes \in Seq(Change) /\ Chain(changes, OldLength, NewLength) /\ Accounts(diff, changes)
  BY <1>2, <1>3, Lengths DEF Sound
<1>5. OldLength \in Nat /\ NewLength \in Nat
  BY <1>4, Lengths, LengthsAreNat
<1>6. loc.start \in 1..(OldLength + 1) /\ loc.end \in 0..(OldLength + 1)
  BY <1>2, <1>3 DEF Walking
<1>7. result[loc] = Located(changes, DOMAIN result, loc)
  BY <1>2 DEF Done
<1>8. loc.end # 0 /\ 0 \notin LinesOfInterest(DOMAIN result)
  BY <1>2 DEF Asked, LinesOfInterest
<1>9. loc.end \in 1..(OldLength + 1)
  BY <1>5, <1>6, <1>8
<1> QED
  BY <1>4, <1>5, <1>6, <1>7, <1>8, <1>9, Lengths

\* A location is found again, given up, or moved and trimmed.
LEMMA LocatedCases ==
    ASSUME NEW chs \in Seq(Change), NEW old \in Nat, NEW new \in Nat, Chain(chs, old, new),
           NEW L, NEW loc,
           loc.start \in 1..(old + 1), loc.end \in 1..(old + 1)
    PROVE  LET first == Place(chs, loc.start)
               last == Place(chs, loc.end)
               at == Located(chs, L, loc)
           IN  \/ \E k \in DOMAIN chs :
                    /\ Removes(chs[k], loc.start) /\ Removes(chs[k], loc.end)
                    /\ first.line = Deleted /\ last.line = Deleted
                    /\ \/ /\ FoundAt(chs, k, loc.start, at.start) /\ FoundAt(chs, k, loc.end, at.end)
                          /\ ~at.entirelyDeleted
                       \/ /\ at.start = AddEnd(chs[k]) /\ at.end = AddEnd(chs[k])
                          /\ at.entirelyDeleted /\ at.startWasDeleted /\ at.endWasDeleted
               \/ /\ at.start = StartOf(chs, first) /\ at.end = EndOf(chs, last)
                  /\ ~at.entirelyDeleted
                  /\ at.startWasDeleted <=> first.line = Deleted
                  /\ at.endWasDeleted <=> last.line = Deleted
<1> DEFINE first == Place(chs, loc.start)
           last == Place(chs, loc.end)
           at == Located(chs, L, loc)
           k == first.change
           changed == ContentChanged(chs, L, loc)
<1>1. at = IF first.line = Deleted /\ last.line = Deleted /\ k = last.change
           THEN IF Moves(chs, k, loc) # {} THEN Found(chs, k, loc, changed) ELSE Gone(chs[k], changed)
           ELSE Trimmed(chs, first, last, changed)
  BY DEF Located, NewLocation
<1>2. /\ first.line = Deleted => first.change \in DOMAIN chs /\ Removes(chs[first.change], loc.start)
      /\ last.line = Deleted => last.change \in DOMAIN chs /\ Removes(chs[last.change], loc.end)
  BY LineBounds
<1> HIDE DEF first, last, at, changed
<1>3. CASE first.line = Deleted /\ last.line = Deleted /\ k = last.change
  <2>1. k \in DOMAIN chs /\ Removes(chs[k], loc.start) /\ Removes(chs[k], loc.end)
    BY <1>2, <1>3
  <2> HIDE DEF k
  <2>2. CASE Moves(chs, k, loc) # {}
    <3>1. at = Found(chs, k, loc, changed)
      BY <1>1, <1>3, <2>2 DEF k
    <3>2. FoundAt(chs, k, loc.start, at.start) /\ FoundAt(chs, k, loc.end, at.end)
      <4>1. loc.start \in Nat /\ loc.end \in Nat
        OBVIOUS
      <4> QED
        BY <2>1, <2>2, <3>1, <4>1, FoundIs
    <3>3. ~at.entirelyDeleted
      BY <3>1 DEF Found
    <3> QED
      BY <1>3, <2>1, <3>2, <3>3 DEF first, last, at
  <2>3. CASE Moves(chs, k, loc) = {}
    <3>1. at = Gone(chs[k], changed)
      BY <1>1, <1>3, <2>3 DEF k
    <3>2. /\ at.start = AddEnd(chs[k]) /\ at.end = AddEnd(chs[k])
          /\ at.entirelyDeleted /\ at.startWasDeleted /\ at.endWasDeleted
      BY <3>1 DEF Gone
    <3> QED
      BY <1>3, <2>1, <3>2 DEF first, last, at
  <2> QED
    BY <2>2, <2>3
<1>4. CASE ~(first.line = Deleted /\ last.line = Deleted /\ k = last.change)
  <2>1. at = Trimmed(chs, first, last, changed)
    BY <1>1, <1>4
  <2>2. /\ at.start = StartOf(chs, first) /\ at.end = EndOf(chs, last)
        /\ ~at.entirelyDeleted
        /\ at.startWasDeleted <=> first.line = Deleted
        /\ at.endWasDeleted <=> last.line = Deleted
    BY <2>1 DEF Trimmed, StartOf, EndOf
  <2> QED
    BY <2>2 DEF first, last, at
<1> QED
  BY <1>3, <1>4

--------------------------------------------------------------------------------
(* The properties. *)

\* Before locations are asked for, there is nothing to walk over.
NotBegun == asked = {} => ahead = {} /\ begun = 0 /\ active = {}

\* The type invariant is a consequence of the inductive one.
LEMMA TypeFollows == IInv /\ NotBegun => TypeOK
<1> SUFFICES ASSUME IInv, NotBegun PROVE TypeOK
  OBVIOUS
<1>1. /\ state \in {"sync", "edit"} /\ oldLine \in 0..OldLength /\ newLine \in 0..NewLength
      /\ dels \in Seq(Lines) /\ adds \in Seq(Lines) /\ changes \in Seq(Change)
  BY DEF IInv, Types
<1>2. /\ Pushed \in Seq(Change) /\ Chain(Pushed, OldLength, NewLength)
      /\ OldLength \in Nat /\ NewLength \in Nat
  BY Lengths, LengthsAreNat DEF IInv, Sound
<1>3. ASSUME NEW i \in DOMAIN changes
      PROVE  i \in DOMAIN Pushed /\ Pushed[i] = changes[i]
  <2>1. CASE state = "edit"
    <3> DEFINE ch == [delStart |-> delStart, addStart |-> addStart, dels |-> dels, adds |-> adds]
    <3>1. Pushed = Append(changes, ch) /\ ch \in Change
      BY <2>1 DEF Pushed, IInv, Types, Change
    <3> HIDE DEF ch
    <3> QED
      BY <1>1, <1>3, <3>1, AppendIs
  <2>2. CASE state # "edit"
    BY <1>3, <2>2 DEF Pushed
  <2> QED
    BY <2>1, <2>2
<1>4. ASSUME NEW i \in DOMAIN changes
      PROVE  /\ changes[i].delStart >= 1 /\ DelEnd(changes[i]) <= OldLength + 1
             /\ changes[i].addStart >= 1 /\ AddEnd(changes[i]) <= NewLength + 1
             /\ i > 1 => DelEnd(changes[i - 1]) < changes[i].delStart
  <2>1. Pushed # <<>>
    BY <1>3, <1>4
  <2>2. /\ changes[i] \in Change /\ LastOf(Pushed) \in Change
        /\ DelEnd(changes[i]) <= DelEnd(LastOf(Pushed)) /\ AddEnd(changes[i]) <= AddEnd(LastOf(Pushed))
    BY <1>2, <1>3, <1>4, <2>1, LastEndsLast
  <2>3. /\ OldLength - DelEnd(LastOf(Pushed)) = NewLength - AddEnd(LastOf(Pushed))
        /\ DelEnd(LastOf(Pushed)) <= OldLength + 1
    BY <1>2, <2>1 DEF Chain
  <2>4. /\ DelEnd(changes[i]) \in Nat /\ AddEnd(changes[i]) \in Nat
        /\ changes[i].delStart \in Nat \ {0} /\ changes[i].addStart \in Nat \ {0}
        /\ DelEnd(LastOf(Pushed)) \in Nat /\ AddEnd(LastOf(Pushed)) \in Nat
    BY <2>2, ChangeIs
  <2>5. DelEnd(changes[i]) <= OldLength + 1 /\ AddEnd(changes[i]) <= NewLength + 1
    BY <1>2, <2>2, <2>3, <2>4
  <2>6. ASSUME i > 1
        PROVE  DelEnd(changes[i - 1]) < changes[i].delStart
    <3>1. i - 1 \in DOMAIN changes /\ i - 1 < i
      BY <1>1, <2>6
    <3> QED
      BY <1>2, <1>3, <1>4, <3>1 DEF Chain
  <2> QED
    BY <2>4, <2>5, <2>6
<1>5. ASSUME 0 \notin Asked, NEW loc \in DOMAIN result
      PROVE  result[loc].start \in 1..(NewLength + 1) /\ result[loc].end \in 0..(NewLength + 1)
  <2> DEFINE L == DOMAIN result
             first == Place(changes, loc.start)
             last == Place(changes, loc.end)
             at == Located(changes, L, loc)
  <2>1. /\ changes \in Seq(Change) /\ OldLength \in Nat /\ NewLength \in Nat
        /\ Chain(changes, OldLength, NewLength)
        /\ loc.start \in 1..(OldLength + 1) /\ loc.end \in 1..(OldLength + 1)
        /\ result[loc] = at /\ 0 \notin LinesOfInterest(L)
    BY <1>5, Calculated
  <2>2. StartOf(changes, first) \in 1..(NewLength + 1) /\ EndOf(changes, last) \in 0..(NewLength + 1)
    BY <2>1, LineBounds
  <2>3. \/ at.start = StartOf(changes, first) /\ at.end = EndOf(changes, last)
        \/ \E k \in DOMAIN changes :
              \/ FoundAt(changes, k, loc.start, at.start) /\ FoundAt(changes, k, loc.end, at.end)
              \/ at.start = AddEnd(changes[k]) /\ at.end = AddEnd(changes[k])
    BY <2>1, LocatedCases
  <2> HIDE DEF L, first, last, at
  <2>4. CASE at.start = StartOf(changes, first) /\ at.end = EndOf(changes, last)
    BY <2>1, <2>2, <2>4
  <2>5. ASSUME NEW k \in DOMAIN changes, FoundAt(changes, k, loc.start, at.start), FoundAt(changes, k, loc.end, at.end)
        PROVE  at.start \in 1..(NewLength + 1) /\ at.end \in 0..(NewLength + 1)
    <3>1. at.start \in 1..NewLength /\ at.end \in 1..NewLength
      BY <2>1, <2>5, FoundInFile
    <3> QED
      BY <2>1, <3>1
  <2>6. ASSUME NEW k \in DOMAIN changes, at.start = AddEnd(changes[k]), at.end = AddEnd(changes[k])
        PROVE  at.start \in 1..(NewLength + 1) /\ at.end \in 0..(NewLength + 1)
    <3>1. AddEnd(changes[k]) <= NewLength + 1
      BY <1>4
    <3>2. changes[k] \in Change
      BY <1>1
    <3>3. AddEnd(changes[k]) \in Nat /\ AddEnd(changes[k]) >= 1
      BY <3>2, ChangeIs
    <3> QED
      BY <2>1, <2>6, <3>1, <3>3
  <2> QED
    BY <2>1, <2>3, <2>4, <2>5, <2>6
<1>6. begun \in 0..Len(changes) /\ ahead \subseteq Asked /\ active \subseteq asked
  <2>1. CASE asked = {}
    <3>1. ahead = {} /\ begun = 0 /\ active = {}
      BY <2>1 DEF NotBegun
    <3> QED
      BY <1>1, <3>1
  <2>2. CASE asked # {}
    BY <2>2 DEF IInv, Walking
  <2> QED
    BY <2>1, <2>2
<1> QED
  BY <1>1, <1>4, <1>5, <1>6 DEF TypeOK

\* Changes do not overlap and stay in the files, and so do the locations calculated from them.
THEOREM TypeCorrect == Spec => []TypeOK
<1>1. Init => NotBegun
  BY DEF Init, NotBegun
<1>2. NotBegun /\ [Next]_vars => NotBegun'
  <2> SUFFICES ASSUME NotBegun, [Next]_vars PROVE NotBegun'
    OBVIOUS
  <2>1. CASE UNCHANGED walk
    BY <2>1 DEF walk, NotBegun
  <2>2. CASE asked' # {}
    BY <2>2 DEF NotBegun
  <2>3. UNCHANGED walk \/ asked' # {}
    <3>1. CASE UNCHANGED vars
      BY <3>1 DEF vars
    <3>2. CASE ReadDiff
      BY <3>2 DEF ReadDiff, Ctx, NextHunk, Del, Add, Edit
    <3>3. CASE Start
      BY <3>3 DEF Start, Calculate
    <3>4. CASE asked # {} /\ Walk
      BY <3>4 DEF Walk, CalculateLineUntil, MoveCurrentLineBy, BeginChange, CalculateLineIn, CalculateLineUntilEnd, Results
    <3> QED
      BY <3>1, <3>2, <3>3, <3>4 DEF Next
  <2> QED
    BY <2>1, <2>2, <2>3
<1> QED
  BY <1>1, <1>2, Invariance, TypeFollows, PTL DEF Spec

\* Two lines that are not in one change stay in their order, also if they are trimmed.
LEMMA LinesInOrder ==
    ASSUME NEW chs \in Seq(Change), NEW old \in Nat, NEW new \in Nat, Chain(chs, old, new),
           NEW l \in 1..(old + 1), NEW m \in 1..(old + 1), l <= m,
           \A k \in DOMAIN chs : ~(Removes(chs[k], l) /\ Removes(chs[k], m))
    PROVE  StartOf(chs, Place(chs, l)) <= EndOf(chs, Place(chs, m))
<1> DEFINE r == Place(chs, l)
           s == Place(chs, m)
<1>1. \A j \in DOMAIN chs : /\ j \in Nat /\ j >= 1 /\ chs[j] \in Change
                            /\ chs[j].delStart \in Nat /\ chs[j].addStart \in Nat
                            /\ DelEnd(chs[j]) \in Nat /\ AddEnd(chs[j]) \in Nat
  <2>1. \A j \in DOMAIN chs : j \in Nat /\ j >= 1 /\ chs[j] \in Change
    OBVIOUS
  <2> QED
    BY <2>1, ChangeIs
<1>2. /\ r.line = Deleted => r.change \in DOMAIN chs
      /\ StartOf(chs, r) \in Nat
      /\ \A j \in DOMAIN chs : l < DelEnd(chs[j]) => StartOf(chs, r) <= AddEnd(chs[j])
  BY LineBounds
<1>3. /\ s.line = Deleted => s.change \in DOMAIN chs
      /\ EndOf(chs, s) \in Nat
      /\ \A j \in DOMAIN chs : m >= DelEnd(chs[j]) => EndOf(chs, s) >= AddEnd(chs[j])
  BY LineBounds
<1>4. \/ /\ \A j \in DOMAIN chs : l >= DelEnd(chs[j])
         /\ r = [line |-> l + FinalBalance(chs), change |-> 0]
      \/ \E k \in DOMAIN chs :
           /\ l < DelEnd(chs[k])
           /\ \A j \in DOMAIN chs : j < k => l >= DelEnd(chs[j])
           /\ \/ /\ l < chs[k].delStart
                 /\ r = [line |-> l + Balance(chs[k]), change |-> 0]
              \/ /\ chs[k].delStart <= l
                 /\ r = LineIn(chs, k, l)
  <2>1. l \in Nat
    OBVIOUS
  <2> QED
    BY <2>1, LineCases
<1>5. \/ /\ \A j \in DOMAIN chs : m >= DelEnd(chs[j])
         /\ s = [line |-> m + FinalBalance(chs), change |-> 0]
      \/ \E k \in DOMAIN chs :
           /\ m < DelEnd(chs[k])
           /\ \A j \in DOMAIN chs : j < k => m >= DelEnd(chs[j])
           /\ \/ /\ m < chs[k].delStart
                 /\ s = [line |-> m + Balance(chs[k]), change |-> 0]
              \/ /\ chs[k].delStart <= m
                 /\ s = LineIn(chs, k, m)
  <2>1. m \in Nat
    OBVIOUS
  <2> QED
    BY <2>1, LineCases
<1> HIDE DEF r, s
<1>6. 0 \notin DOMAIN chs
  BY <1>1
<1>7. CASE \E j \in DOMAIN chs : l < DelEnd(chs[j]) /\ m >= DelEnd(chs[j])
  <2>1. PICK j \in DOMAIN chs : l < DelEnd(chs[j]) /\ m >= DelEnd(chs[j])
    BY <1>7
  <2> QED
    BY <1>1, <1>2, <1>3, <2>1 DEF r, s
<1>8. CASE \A j \in DOMAIN chs : l < DelEnd(chs[j]) => m < DelEnd(chs[j])
  <2>1. CASE /\ \A j \in DOMAIN chs : l >= DelEnd(chs[j])
             /\ r = [line |-> l + FinalBalance(chs), change |-> 0]
    <3>1. \A j \in DOMAIN chs : ~(m < DelEnd(chs[j]))
      BY <1>1, <2>1
    <3>2. s = [line |-> m + FinalBalance(chs), change |-> 0]
      BY <1>5, <3>1
    <3>3. r.line # Deleted /\ s.line # Deleted
      BY <1>2, <1>3, <1>6, <2>1, <3>2
    <3>4. StartOf(chs, r) = l + FinalBalance(chs) /\ EndOf(chs, s) = m + FinalBalance(chs)
      BY <2>1, <3>2, <3>3 DEF StartOf, EndOf
    <3>5. FinalBalance(chs) \in Int
      <4>1. CASE chs = <<>>
        BY <4>1 DEF FinalBalance
      <4>2. CASE chs # <<>>
        <5>1. Len(chs) \in DOMAIN chs
          BY <4>2
        <5> QED
          BY <1>1, <4>2, <5>1 DEF FinalBalance
      <4> QED
        BY <4>1, <4>2
    <3> QED
      BY <3>4, <3>5 DEF r, s
  <2>2. ASSUME NEW k \in DOMAIN chs, l < DelEnd(chs[k]), \A j \in DOMAIN chs : j < k => l >= DelEnd(chs[j]),
               l < chs[k].delStart, r = [line |-> l + Balance(chs[k]), change |-> 0]
        PROVE  StartOf(chs, r) <= EndOf(chs, s)
    <3> DEFINE b == chs[k].addStart - chs[k].delStart
    <3>1. b \in Int
      BY <1>1
    <3>2. r.line # Deleted /\ r.line = l + b
      BY <1>2, <1>6, <2>2 DEF Balance
    <3>3. StartOf(chs, r) = l + b
      BY <3>2 DEF StartOf
    <3>4. m < DelEnd(chs[k])
      BY <1>8, <2>2
    <3>5. PICK i \in DOMAIN chs :
             /\ m < DelEnd(chs[i])
             /\ \A j \in DOMAIN chs : j < i => m >= DelEnd(chs[j])
             /\ \/ /\ m < chs[i].delStart
                   /\ s = [line |-> m + Balance(chs[i]), change |-> 0]
                \/ /\ chs[i].delStart <= m
                   /\ s = LineIn(chs, i, m)
      BY <1>1, <1>5, <3>4
    <3>6. ~(k < i)
      BY <1>1, <3>4, <3>5
    <3>7. ~(i < k)
      <4>1. ASSUME i < k PROVE FALSE
        <5>1. l >= DelEnd(chs[i])
          BY <2>2, <4>1
        <5> QED
          BY <1>1, <3>5, <5>1
      <4> QED
        BY <4>1
    <3>8. i = k
      BY <1>1, <3>6, <3>7
    <3>9. CASE s = [line |-> m + Balance(chs[i]), change |-> 0]
      <4>1. s.line # Deleted /\ s.line = m + b
        BY <1>3, <1>6, <3>8, <3>9 DEF Balance
      <4>2. EndOf(chs, s) = m + b
        BY <4>1 DEF EndOf
      <4> HIDE DEF b
      <4> QED
        BY <3>1, <3>3, <4>2
    <3>10. CASE chs[i].delStart <= m /\ s = LineIn(chs, i, m)
      <4>1. Removes(chs[k], m) /\ m \in Nat
        BY <3>4, <3>8, <3>10 DEF Removes
      <4>2. s.change = k /\ (s.line = Deleted \/ (s.line \in Nat /\ chs[k].addStart <= s.line))
        BY <3>8, <3>10, <4>1, LineInIs
      <4>3. EndOf(chs, s) >= chs[k].addStart - 1
        BY <1>1, <4>2 DEF EndOf
      <4>4. l + b <= chs[k].addStart - 1
        BY <1>1, <2>2
      <4> QED
        BY <1>1, <1>3, <3>1, <3>3, <4>3, <4>4
    <3> QED
      BY <3>5, <3>9, <3>10
  <2>3. ASSUME NEW k \in DOMAIN chs, l < DelEnd(chs[k]), chs[k].delStart <= l
        PROVE  FALSE
    <3>1. m < DelEnd(chs[k])
      BY <1>8, <2>3
    <3>2. Removes(chs[k], l) /\ Removes(chs[k], m)
      BY <1>1, <2>3, <3>1 DEF Removes
    <3> QED
      BY <3>2
  <2> QED
    BY <1>4, <2>1, <2>2, <2>3 DEF r, s
<1> QED
  BY <1>1, <1>7, <1>8

\* So is the order of a location's ends,
LEMMA OrderFollows == IInv => StaysInOrder
<1> SUFFICES ASSUME IInv, 0 \notin Asked, NEW loc \in DOMAIN result,
                    loc.start <= loc.end, InOneChange(loc) => result[loc].entirelyDeleted
             PROVE  result[loc].start <= result[loc].end
  BY DEF StaysInOrder
<1> DEFINE L == DOMAIN result
           first == Place(changes, loc.start)
           last == Place(changes, loc.end)
           at == Located(changes, L, loc)
<1>1. /\ changes \in Seq(Change) /\ OldLength \in Nat /\ NewLength \in Nat
      /\ Chain(changes, OldLength, NewLength)
      /\ loc.start \in 1..(OldLength + 1) /\ loc.end \in 1..(OldLength + 1)
      /\ result[loc] = at /\ 0 \notin LinesOfInterest(L)
  BY Calculated
<1>2. \/ \E k \in DOMAIN changes :
            /\ Removes(changes[k], loc.start) /\ Removes(changes[k], loc.end)
            /\ \/ ~at.entirelyDeleted
               \/ at.start = AddEnd(changes[k]) /\ at.end = AddEnd(changes[k])
      \/ at.start = StartOf(changes, first) /\ at.end = EndOf(changes, last) /\ ~at.entirelyDeleted
  BY <1>1, LocatedCases
<1>3. ASSUME NEW k \in DOMAIN changes, Removes(changes[k], loc.start), Removes(changes[k], loc.end)
      PROVE  at.entirelyDeleted
  <2>1. changes[k] \in Change
    BY <1>1
  <2>2. changes[k].delStart \in Nat /\ DelEnd(changes[k]) \in Nat
    BY <2>1, ChangeIs
  <2>3. {loc.start, loc.end} \subseteq changes[k].delStart..(DelEnd(changes[k]) - 1)
    BY <1>1, <1>3, <2>2 DEF Removes
  <2> QED
    BY <1>1, <2>3 DEF InOneChange
<1>4. ASSUME \A k \in DOMAIN changes : ~(Removes(changes[k], loc.start) /\ Removes(changes[k], loc.end))
      PROVE  StartOf(changes, first) <= EndOf(changes, last)
  BY <1>1, <1>4, LinesInOrder
<1> HIDE DEF L, first, last, at
<1>5. CASE at.start = StartOf(changes, first) /\ at.end = EndOf(changes, last) /\ ~at.entirelyDeleted
  BY <1>1, <1>3, <1>4, <1>5
<1>6. ASSUME NEW k \in DOMAIN changes, at.start = AddEnd(changes[k]), at.end = AddEnd(changes[k])
      PROVE  at.start <= at.end
  <2>1. changes[k] \in Change
    BY <1>1
  <2>2. AddEnd(changes[k]) \in Nat
    BY <2>1, ChangeIs
  <2> QED
    BY <1>6, <2>2
<1> QED
  BY <1>1, <1>2, <1>3, <1>5, <1>6

\* A location does not end before it starts, whatever changes come before, between and at its ends.
THEOREM OrderKept == Spec => []StaysInOrder
BY Invariance, OrderFollows, PTL

\* The lines of interest are line numbers.
LEMMA AskedIsNat ==
    ASSUME IInv
    PROVE  LinesOfInterest(DOMAIN result) \in SUBSET Nat
<1>1. CASE DOMAIN result = {}
  BY <1>1 DEF LinesOfInterest
<1>2. CASE DOMAIN result # {}
  <2>1. DOMAIN result = asked
    BY <1>2 DEF IInv, Done
  <2> QED
    BY <1>2, <2>1, WalkOver DEF Asked
<1> QED
  BY <1>1, <1>2

\* A change between the ends of a location finds it active, unless it has been passed by another line.
LEMMA ActiveAt ==
    ASSUME IInv, 0 \notin Asked, NEW loc \in DOMAIN result, ~ComesSecond(loc), NEW k \in DOMAIN changes,
           loc.start <= loc.end, loc.start <= DelEnd(changes[k]), changes[k].delStart <= loc.end,
           loc.start = DelEnd(changes[k]) => changes[k].delStart = DelEnd(changes[k])
    PROVE  result[loc].contentChanged
<1> DEFINE L == DOMAIN result
           ch == changes[k]
           R == Remaining(L, ch)
<1>1. /\ changes \in Seq(Change) /\ loc.start \in Nat /\ loc.end \in Nat
      /\ result[loc] = Located(changes, L, loc) /\ 0 \notin LinesOfInterest(L)
  BY Calculated
<1>2. ch.delStart \in Nat /\ DelEnd(ch) \in Nat
  <2>1. ch \in Change
    BY <1>1
  <2> QED
    BY <2>1, ChangeIs
<1>3. loc.end \in R /\ R \in SUBSET Nat
  BY AskedIsNat DEF Remaining, LinesOfInterest
<1>4. Min(R) \in R /\ \A t \in R : Min(R) <= t
  <2> HIDE DEF R
  <2> QED
    BY <1>3, MinIsFirst
<1>5. ASSUME NEW t \in R
      PROVE  loc.start <= t
  <2>1. t \in LinesOfInterest(L) /\ t >= ch.delStart /\ t \in Nat
    BY <1>3, <1>5 DEF Remaining
  <2>2. CASE loc.start <= ch.delStart
    BY <1>1, <1>2, <2>1, <2>2
  <2>3. CASE ch.delStart < loc.start
    <3>1. loc.start \in ch.delStart..(DelEnd(ch) - 1)
      BY <1>1, <1>2, <2>3
    <3>2. ~(t \in ch.delStart..(loc.start - 1))
      <4>1. L = asked
        BY DEF IInv, Done
      <4> QED
        BY <2>1, <3>1, <4>1 DEF ComesSecond, Asked
    <3> QED
      BY <1>1, <1>2, <2>1, <3>2
  <2> QED
    BY <1>1, <1>2, <2>2, <2>3
<1>6. Active(loc, R)
  <2>1. Min(R) \in loc.start..loc.end
    <3>1. loc.start <= Min(R) /\ Min(R) <= loc.end /\ Min(R) \in Nat
      BY <1>3, <1>4, <1>5
    <3> HIDE DEF R
    <3> QED
      BY <1>1, <3>1
  <2> QED
    BY <1>3, <2>1 DEF Active
<1>7. ContentChanged(changes, L, loc)
  BY <1>1, <1>6 DEF ContentChanged
<1> QED
  <2>1. Located(changes, L, loc).contentChanged <=> ContentChanged(changes, L, loc)
    BY DEF Located, NewLocation, Found, Gone, Trimmed
  <2> QED
    BY <1>1, <1>7, <2>1

\* that no change of content goes unnoticed,
LEMMA FlagFollows == IInv => TouchedIsFlagged
<1> SUFFICES ASSUME IInv, 0 \notin Asked, NEW loc \in DOMAIN result, Touched(loc), ~ComesSecond(loc)
             PROVE  result[loc].contentChanged
  BY DEF TouchedIsFlagged
<1>1. /\ diff \in Seq(Entry) /\ changes \in Seq(Change) /\ Accounts(diff, changes)
      /\ loc.start \in Nat /\ loc.end \in Nat
  BY Calculated
<1>2. \A p \in DOMAIN diff : OldCount(p) = OldTo(diff, p) /\ OldTo(diff, p) \in Nat
  <2>1. DOMAIN diff \subseteq 0..Len(diff)
    BY <1>1
  <2> QED
    BY <1>1, <2>1, ToIsNat DEF OldCount, OldTo
<1>3. \A k \in DOMAIN changes : /\ changes[k].delStart \in Nat /\ DelEnd(changes[k]) \in Nat
                                /\ changes[k].delStart <= DelEnd(changes[k])
  <2>1. \A k \in DOMAIN changes : changes[k] \in Change
    BY <1>1
  <2> QED
    BY <2>1, ChangeIs
<1>4. PICK p \in DOMAIN diff :
         \/ diff[p].op = "del" /\ OldCount(p) \in loc.start..loc.end
         \/ diff[p].op = "add" /\ OldCount(p) \in loc.start..(loc.end - 1)
  BY DEF Touched
<1> DEFINE l == OldTo(diff, p)
<1>5. CASE diff[p].op = "del" /\ OldCount(p) \in loc.start..loc.end
  <2>1. PICK k \in DOMAIN changes : Removes(changes[k], l)
    BY <1>1, <1>5 DEF Accounts, RemovedIn
  <2>2. l \in loc.start..loc.end /\ l \in Nat
    BY <1>2, <1>5
  <2> HIDE DEF l
  <2>3. /\ loc.start <= loc.end /\ loc.start < DelEnd(changes[k]) /\ changes[k].delStart <= loc.end
    BY <1>1, <1>3, <2>1, <2>2 DEF Removes
  <2>4. loc.start <= DelEnd(changes[k]) /\ loc.start # DelEnd(changes[k])
    BY <1>1, <1>3, <2>3
  <2> QED
    BY <2>3, <2>4, ActiveAt
<1>6. CASE diff[p].op = "add" /\ OldCount(p) \in loc.start..(loc.end - 1)
  <2>1. PICK k \in DOMAIN changes : l = DelEnd(changes[k]) - 1
    BY <1>1, <1>6 DEF Accounts, AddedIn
  <2>2. l \in loc.start..(loc.end - 1) /\ l \in Nat
    BY <1>2, <1>6
  <2> HIDE DEF l
  <2>3. /\ loc.start <= loc.end /\ loc.start < DelEnd(changes[k]) /\ changes[k].delStart <= loc.end
    BY <1>1, <1>3, <2>1, <2>2
  <2>4. loc.start <= DelEnd(changes[k]) /\ loc.start # DelEnd(changes[k])
    BY <1>1, <1>3, <2>3
  <2> QED
    BY <2>3, <2>4, ActiveAt
<1> QED
  BY <1>4, <1>5, <1>6

\* No line is removed from a location, or added to it, without its being marked as changed.
THEOREM ChangesFlagged == Spec => []TouchedIsFlagged
BY Invariance, FlagFollows, PTL

\* A result, and what the mark makes of it.
Placed(a, b, s, e, n, c) ==
    [start |-> a, end |-> b, startWasDeleted |-> s, endWasDeleted |-> e, entirelyDeleted |-> n, contentChanged |-> c]

\* A result but for the mark.
LEMMA MarkAside ==
    ASSUME NEW a, NEW b, NEW s, NEW e, NEW n, NEW c
    PROVE  [Placed(a, b, s, e, n, c) EXCEPT !.contentChanged = FALSE] = Placed(a, b, s, e, n, FALSE)
<1> DEFINE r == [Placed(a, b, s, e, n, c) EXCEPT !.contentChanged = FALSE]
           Marked(C) == [start : {a}, end : {b}, startWasDeleted : {s}, endWasDeleted : {e},
                          entirelyDeleted : {n}, contentChanged : C]
<1>1. Placed(a, b, s, e, n, c) \in Marked({c})
  BY DEF Placed
<1>2. r \in Marked({FALSE})
  BY <1>1 DEF Placed
<1> HIDE DEF r
<1>3. r = [start |-> r.start, end |-> r.end, startWasDeleted |-> r.startWasDeleted, endWasDeleted |-> r.endWasDeleted,
           entirelyDeleted |-> r.entirelyDeleted, contentChanged |-> r.contentChanged]
  BY <1>2
<1>4. /\ r.start = a /\ r.end = b /\ r.startWasDeleted = s /\ r.endWasDeleted = e
      /\ r.entirelyDeleted = n /\ r.contentChanged = FALSE
  BY <1>2
<1> QED
  BY <1>3, <1>4 DEF Placed, r

\* that a location goes where it goes alone,
LEMMA AloneFollows == IInv => AloneAsTogether
<1> SUFFICES ASSUME IInv, 0 \notin Asked, NEW loc \in DOMAIN result
             PROVE  LET alone == Located(changes, {loc}, loc)
                    IN  /\ asked = {loc} => result[loc] = alone
                        /\ [alone EXCEPT !.contentChanged = FALSE] = [result[loc] EXCEPT !.contentChanged = FALSE]
                        /\ result[loc].contentChanged => alone.contentChanged
  BY DEF AloneAsTogether
<1> DEFINE L == DOMAIN result
           alone == Located(changes, {loc}, loc)
           together == Located(changes, L, loc)
           first == Place(changes, loc.start)
           last == Place(changes, loc.end)
<1>1. /\ changes \in Seq(Change) /\ loc.start \in Nat /\ loc.end \in Nat
      /\ result[loc] = together /\ 0 \notin LinesOfInterest(L)
  BY Calculated
<1>2. LinesOfInterest({loc}) \subseteq LinesOfInterest(L) /\ LinesOfInterest({loc}) = {loc.start, loc.end}
  BY DEF LinesOfInterest
<1>3. 0 \notin LinesOfInterest({loc})
  BY <1>1, <1>2
<1> DEFINE At(c) == IF first.line = Deleted /\ last.line = Deleted /\ first.change = last.change
                    THEN IF Moves(changes, first.change, loc) # {} THEN Found(changes, first.change, loc, c)
                                                                   ELSE Gone(changes[first.change], c)
                    ELSE Trimmed(changes, first, last, c)
<1>4. alone = At(ContentChanged(changes, {loc}, loc)) /\ together = At(ContentChanged(changes, L, loc))
  BY DEF Located, NewLocation
<1>5. ASSUME NEW c
      PROVE  [At(c) EXCEPT !.contentChanged = FALSE] = At(FALSE) /\ (At(c).contentChanged = c)
  <2> HIDE DEF first, last
  <2> DEFINE o == At(FALSE)
             With(d) == Placed(o.start, o.end, o.startWasDeleted, o.endWasDeleted, o.entirelyDeleted, d)
  <2>1. ASSUME NEW d
        PROVE  At(d) = With(d)
    <3>1. CASE ~(first.line = Deleted /\ last.line = Deleted /\ first.change = last.change)
      <4>1. At(d) = Trimmed(changes, first, last, d) /\ o = Trimmed(changes, first, last, FALSE)
        BY <3>1
      <4> HIDE DEF At, o
      <4> QED
        BY <4>1 DEF Trimmed, Placed
    <3>2. CASE first.line = Deleted /\ last.line = Deleted /\ first.change = last.change /\ Moves(changes, first.change, loc) # {}
      <4>1. At(d) = Found(changes, first.change, loc, d) /\ o = Found(changes, first.change, loc, FALSE)
        BY <3>2
      <4> HIDE DEF At, o
      <4> QED
        BY <4>1 DEF Found, Placed
    <3>3. CASE first.line = Deleted /\ last.line = Deleted /\ first.change = last.change /\ Moves(changes, first.change, loc) = {}
      <4>1. At(d) = Gone(changes[first.change], d) /\ o = Gone(changes[first.change], FALSE)
        BY <3>3
      <4> HIDE DEF At, o
      <4> QED
        BY <4>1 DEF Gone, Placed
    <3> QED
      BY <3>1, <3>2, <3>3
  <2> HIDE DEF At
  <2>2. At(c) = With(c) /\ At(FALSE) = With(FALSE)
    BY <2>1
  <2> HIDE DEF o
  <2>3. [With(c) EXCEPT !.contentChanged = FALSE] = With(FALSE)
    BY MarkAside
  <2>4. With(c).contentChanged = c
    BY DEF Placed
  <2> HIDE DEF With
  <2> QED
    BY <2>2, <2>3, <2>4
<1>6. ASSUME NEW k \in DOMAIN changes, Active(loc, Remaining(L, changes[k]))
      PROVE  Active(loc, Remaining({loc}, changes[k]))
  <2> DEFINE R == Remaining(L, changes[k])
             Q == Remaining({loc}, changes[k])
  <2>1. R \in SUBSET Nat /\ Q \subseteq R
    BY <1>2, AskedIsNat DEF Remaining
  <2>2. changes[k].delStart \in Nat
    <3>1. changes[k] \in Change
      BY <1>1
    <3> QED
      BY <3>1, ChangeIs
  <2>3. loc.end >= changes[k].delStart => loc.end \in Q
    BY <1>2 DEF Remaining
  <2>4. \A t \in R : t >= changes[k].delStart
    BY DEF Remaining
  <2> HIDE DEF R, Q
  <2>5. Q # {} => Min(Q) \in Q /\ \A t \in Q : Min(Q) <= t
    BY <2>1, MinIsFirst
  <2>6. R # {} => Min(R) \in R /\ \A t \in R : Min(R) <= t
    BY <2>1, MinIsFirst
  <2>7. Q # {} => R # {} /\ Min(R) <= Min(Q) /\ Min(R) \in Nat /\ Min(Q) \in Nat
    BY <2>1, <2>5, <2>6
  <2>8. CASE loc.start > loc.end /\ (R = {} \/ loc.start <= Min(R))
    <3>1. Q # {} => loc.start <= Min(Q)
      BY <1>1, <2>7, <2>8
    <3>2. Active(loc, Q)
      BY <2>8, <3>1 DEF Active
    <3> QED
      BY <3>2 DEF Q
  <2>9. CASE loc.start <= loc.end /\ R # {} /\ Min(R) \in loc.start..loc.end
    <3>1. Min(R) \in Nat /\ loc.start <= Min(R) /\ Min(R) <= loc.end /\ Min(R) >= changes[k].delStart
      BY <1>1, <2>1, <2>4, <2>6, <2>9
    <3>2. loc.end \in Q
      BY <1>1, <2>2, <2>3, <3>1
    <3>3. Min(Q) \in Nat /\ Min(R) <= Min(Q) /\ Min(Q) <= loc.end /\ Q # {}
      BY <2>5, <2>7, <3>2
    <3>4. Min(Q) \in loc.start..loc.end
      BY <1>1, <3>1, <3>3
    <3>5. Active(loc, Q)
      BY <2>9, <3>3, <3>4 DEF Active
    <3> QED
      BY <3>5 DEF Q
  <2> QED
    BY <1>6, <2>8, <2>9 DEF Active, R
<1>7. ContentChanged(changes, L, loc) => ContentChanged(changes, {loc}, loc)
  BY <1>3, <1>6 DEF ContentChanged
<1> HIDE DEF At
<1>8. /\ [alone EXCEPT !.contentChanged = FALSE] = At(FALSE)
      /\ [together EXCEPT !.contentChanged = FALSE] = At(FALSE)
      /\ alone.contentChanged = ContentChanged(changes, {loc}, loc)
      /\ together.contentChanged = ContentChanged(changes, L, loc)
  BY <1>4, <1>5
<1>9. asked = {loc} => together = alone
  BY DEF IInv, Done
<1> HIDE DEF alone, together
<1>10. asked = {loc} => result[loc] = alone
  BY <1>1, <1>9
<1>11. [alone EXCEPT !.contentChanged = FALSE] = [result[loc] EXCEPT !.contentChanged = FALSE]
  <2>1. result[loc] = together
    BY <1>1
  <2> QED
    BY ONLY <1>8, <2>1
<1>12. result[loc].contentChanged => alone.contentChanged
  <2>1. result[loc] = together
    BY <1>1
  <2> QED
    BY ONLY <1>7, <1>8, <2>1
<1> QED
  BY ONLY <1>10, <1>11, <1>12 DEF alone

\* The walk brings a location where a walk for it alone would, whatever other lines are passed
\* before it, in between and in the same changes (calculateLinesUntil() to calculateLinesUntilEnd()).
THEOREM SameAlone == Spec => []AloneAsTogether
BY Invariance, AloneFollows, PTL

\* Lines kept go where they are in the new file; lines of a change, where its lines do.
LEMMA LineOfKept ==
    ASSUME NEW chs \in Seq(Change), NEW old, NEW new, Chain(chs, old, new),
           NEW l \in Nat, NEW n \in Nat, KeptAt(chs, l, n)
    PROVE  Place(chs, l).line = n
<1> DEFINE r == Place(chs, l)
<1>1. \A j \in DOMAIN chs : /\ j \in Nat /\ j >= 1 /\ chs[j] \in Change
                            /\ chs[j].delStart \in Nat /\ chs[j].addStart \in Nat
                            /\ DelEnd(chs[j]) \in Nat /\ AddEnd(chs[j]) \in Nat
  <2>1. \A j \in DOMAIN chs : j \in Nat /\ j >= 1 /\ chs[j] \in Change
    OBVIOUS
  <2> QED
    BY <2>1, ChangeIs
<1>2. \/ /\ \A j \in DOMAIN chs : l >= DelEnd(chs[j])
         /\ r = [line |-> l + FinalBalance(chs), change |-> 0]
      \/ \E k \in DOMAIN chs :
           /\ l < DelEnd(chs[k])
           /\ \A j \in DOMAIN chs : j < k => l >= DelEnd(chs[j])
           /\ \/ /\ l < chs[k].delStart
                 /\ r = [line |-> l + Balance(chs[k]), change |-> 0]
              \/ /\ chs[k].delStart <= l
                 /\ r = LineIn(chs, k, l)
  BY LineCases
<1> HIDE DEF r
<1>3. CASE /\ \A j \in DOMAIN chs : l >= DelEnd(chs[j])
           /\ r = [line |-> l + FinalBalance(chs), change |-> 0]
  <2>1. CASE chs = <<>>
    BY <1>3, <2>1 DEF KeptAt, FinalBalance, r
  <2>2. CASE chs # <<>>
    <3>1. Len(chs) \in DOMAIN chs
      BY <2>2
    <3>2. n - l = AddEnd(LastOf(chs)) - DelEnd(LastOf(chs)) /\ FinalBalance(chs) = AddEnd(LastOf(chs)) - DelEnd(LastOf(chs))
      BY <1>3, <2>2, <3>1 DEF KeptAt, FinalBalance, LastOf
    <3>3. AddEnd(LastOf(chs)) \in Nat /\ DelEnd(LastOf(chs)) \in Nat
      BY <1>1, <3>1 DEF LastOf
    <3>4. l + FinalBalance(chs) = n
      BY <3>2, <3>3
    <3> QED
      BY <1>3, <3>4 DEF r
  <2> QED
    BY <2>1, <2>2
<1>4. ASSUME NEW k \in DOMAIN chs, l < DelEnd(chs[k]), \A j \in DOMAIN chs : j < k => l >= DelEnd(chs[j]),
             l < chs[k].delStart, r = [line |-> l + Balance(chs[k]), change |-> 0]
      PROVE  r.line = n
  <2>1. k > 1 => l >= DelEnd(chs[k - 1])
    <3>1. k > 1 => k - 1 \in DOMAIN chs /\ k - 1 < k
      BY <1>1
    <3> QED
      BY <1>4, <3>1
  <2>2. n - l = chs[k].addStart - chs[k].delStart
    BY <1>4, <2>1 DEF KeptAt
  <2>3. l + Balance(chs[k]) = n
    BY <1>1, <2>2 DEF Balance
  <2> QED
    BY <1>4, <2>3
<1>5. ASSUME NEW k \in DOMAIN chs, l < DelEnd(chs[k]), chs[k].delStart <= l
      PROVE  FALSE
  BY <1>5 DEF KeptAt, Removes
<1> QED
  BY <1>2, <1>3, <1>4, <1>5 DEF r

\* The line of a change is looked up in that change and in no other.
LEMMA LineOfChange ==
    ASSUME NEW chs \in Seq(Change), NEW old, NEW new, Chain(chs, old, new),
           NEW l \in Nat, NEW i \in DOMAIN chs, Removes(chs[i], l)
    PROVE  Place(chs, l) = LineIn(chs, i, l) /\ \A k \in DOMAIN chs : Removes(chs[k], l) => k = i
<1> DEFINE r == Place(chs, l)
<1>1. \A j \in DOMAIN chs : /\ j \in Nat /\ chs[j].delStart \in Nat /\ DelEnd(chs[j]) \in Nat
                            /\ chs[j].delStart <= DelEnd(chs[j])
  <2>1. \A j \in DOMAIN chs : j \in Nat /\ chs[j] \in Change
    OBVIOUS
  <2> QED
    BY <2>1, ChangeIs
<1>2. chs[i].delStart <= l /\ l < DelEnd(chs[i])
  BY DEF Removes
<1>3. ASSUME NEW k \in DOMAIN chs, l < DelEnd(chs[k]), \A j \in DOMAIN chs : j < k => l >= DelEnd(chs[j])
      PROVE  k = i
  <2>1. ~(i < k)
    BY <1>1, <1>2, <1>3
  <2>2. ~(k < i)
    <3>1. ASSUME k < i PROVE FALSE
      <4>1. DelEnd(chs[k]) < chs[i].delStart
        BY <3>1 DEF Chain
      <4> QED
        BY <1>1, <1>2, <1>3, <4>1
    <3> QED
      BY <3>1
  <2> QED
    BY <1>1, <2>1, <2>2
<1>4. r = LineIn(chs, i, l)
  <2>1. \/ /\ \A j \in DOMAIN chs : l >= DelEnd(chs[j])
           /\ r = [line |-> l + FinalBalance(chs), change |-> 0]
        \/ \E k \in DOMAIN chs :
             /\ l < DelEnd(chs[k])
             /\ \A j \in DOMAIN chs : j < k => l >= DelEnd(chs[j])
             /\ \/ /\ l < chs[k].delStart
                   /\ r = [line |-> l + Balance(chs[k]), change |-> 0]
                \/ /\ chs[k].delStart <= l
                   /\ r = LineIn(chs, k, l)
    BY LineCases
  <2> HIDE DEF r
  <2>2. ~ \A j \in DOMAIN chs : l >= DelEnd(chs[j])
    BY <1>1, <1>2
  <2>3. PICK k \in DOMAIN chs :
             /\ l < DelEnd(chs[k])
             /\ \A j \in DOMAIN chs : j < k => l >= DelEnd(chs[j])
             /\ \/ l < chs[k].delStart
                \/ r = LineIn(chs, k, l)
    BY <2>1, <2>2
  <2>4. k = i
    BY <1>3, <2>3
  <2> QED
    BY <1>1, <1>2, <2>3, <2>4
<1>5. ASSUME NEW k \in DOMAIN chs, Removes(chs[k], l)
      PROVE  k = i
  <2>1. chs[k].delStart <= l /\ l < DelEnd(chs[k])
    BY <1>5 DEF Removes
  <2>2. ~(k < i)
    <3>1. ASSUME k < i PROVE FALSE
      <4>1. DelEnd(chs[k]) < chs[i].delStart
        BY <3>1 DEF Chain
      <4> QED
        BY <1>1, <1>2, <2>1, <4>1
    <3> QED
      BY <3>1
  <2>3. ~(i < k)
    <3>1. ASSUME i < k PROVE FALSE
      <4>1. DelEnd(chs[i]) < chs[k].delStart
        BY <3>1 DEF Chain
      <4> QED
        BY <1>1, <1>2, <2>1, <4>1
    <3> QED
      BY <3>1
  <2> QED
    BY <1>1, <2>2, <2>3
<1> QED
  BY <1>4, <1>5

\* The entry of a line that a change adds.
LEMMA AddedEntry ==
    ASSUME NEW chs, diff \in Seq(Entry), Accounts(diff, chs), NEW j \in DOMAIN chs, NEW i \in DOMAIN chs[j].adds
    PROVE  LET q == NewEntry(chs[j].addStart + i - 1)
           IN  diff[q].op = "add" /\ diff[q].line = chs[j].adds[i]
<1> DEFINE n == chs[j].addStart + i - 1
           q == NewEntry(n)
<1>1. PICK p \in DOMAIN diff : /\ diff[p].op = "add" /\ diff[p].line = chs[j].adds[i]
                               /\ NewTo(diff, p) = n
  BY DEF Accounts, AddsOf
<1> HIDE DEF n
<1>2. InNew(diff[p])
  BY <1>1 DEF InNew
<1>3. \A o : NewCount(o) = NewTo(diff, o)
  BY DEF NewCount, NewTo
<1>4. q \in DOMAIN diff /\ InNew(diff[q]) /\ NewTo(diff, q) = n
  BY <1>1, <1>2, <1>3 DEF NewEntry
<1> HIDE DEF q
<1>5. q = p
  BY <1>1, <1>2, <1>4, LineIsEntry
<1> QED
  BY <1>1, <1>5 DEF q, n

\* One end of a location: it follows its line, is said to be deleted, or is at a similar line.
LEMMA EndFollows ==
    ASSUME IInv, 0 \notin Asked, NEW loc \in DOMAIN result, NEW l, l \in 1..OldLength,
           NEW n, NEW gone \in BOOLEAN,
           LET r == Place(changes, l)
           IN  \/ r.line = Deleted /\ gone
               \/ r.line # Deleted /\ ~gone /\ n = r.line
               \/ /\ r.line = Deleted
                  /\ \E k \in DOMAIN changes : Removes(changes[k], l) /\ FoundAt(changes, k, l, n)
    PROVE  Follows(l, n, gone)
<1> DEFINE L == DOMAIN result
           r == Place(changes, l)
           p == OldEntry(l)
<1>1. /\ diff \in Seq(Entry) /\ changes \in Seq(Change) /\ OldLength \in Nat
      /\ OldLength = OldTo(diff, Len(diff))
      /\ Chain(changes, OldLength, NewLength) /\ Accounts(diff, changes)
      /\ 0 \notin LinesOfInterest(L)
  BY Calculated
<1>2. l \in Nat
  BY <1>1
<1>3. \A o : OldCount(o) = OldTo(diff, o) /\ NewCount(o) = NewTo(diff, o)
  BY DEF OldCount, OldTo, NewCount, NewTo
<1>4. p \in DOMAIN diff /\ InOld(diff[p]) /\ OldTo(diff, p) = l
  <2>1. \E o \in DOMAIN diff : InOld(diff[o]) /\ OldTo(diff, o) = l
    BY <1>1, LineIsEntry
  <2> QED
    BY <1>3, <2>1 DEF OldEntry
<1>5. NewTo(diff, p) \in Nat
  <2>1. p \in 0..Len(diff)
    BY <1>1, <1>4
  <2> QED
    BY <1>1, <2>1, ToIsNat
<1>6. Follows(l, n, gone) <=> IF InNew(diff[p])
                              THEN ~gone /\ n = NewTo(diff, p)
                              ELSE gone \/ /\ diff[NewEntry(n)].op = "add"
                                           /\ Similarity[<<diff[p].line, diff[NewEntry(n)].line>>] >= Threshold
  BY <1>3 DEF Follows
<1> HIDE DEF p
<1>7. CASE diff[p].op \in {"keep", "skip"}
  <2>1. KeptAt(changes, l, NewTo(diff, p))
    BY <1>1, <1>4, <1>7 DEF Accounts, Kept
  <2>2. r.line = NewTo(diff, p)
    BY <1>1, <1>2, <1>5, <2>1, LineOfKept
  <2>3. r.line # Deleted
    BY <1>5, <2>2 DEF Deleted
  <2>4. InNew(diff[p])
    BY <1>7 DEF InNew
  <2> QED
    BY <1>6, <2>2, <2>3, <2>4
<1>8. CASE diff[p].op = "del"
  <2>1. ~InNew(diff[p])
    BY <1>8 DEF InNew
  <2>2. PICK i \in DOMAIN changes : /\ Removes(changes[i], l)
                                    /\ changes[i].dels[l - changes[i].delStart + 1] = diff[p].line
    BY <1>1, <1>4, <1>8 DEF Accounts, RemovedIn
  <2>3. r = LineIn(changes, i, l) /\ \A k \in DOMAIN changes : Removes(changes[k], l) => k = i
    BY <1>1, <1>2, <2>2, LineOfChange
  <2>4. r.line = Deleted \/ FoundAt(changes, i, l, r.line)
    BY <1>1, <1>2, <2>2, <2>3, LineInIs DEF FoundAt
  <2> HIDE DEF r, L
  <2>5. gone \/ FoundAt(changes, i, l, n)
    BY <2>3, <2>4 DEF r, L
  <2>6. ASSUME FoundAt(changes, i, l, n)
        PROVE  /\ diff[NewEntry(n)].op = "add"
               /\ Similarity[<<diff[p].line, diff[NewEntry(n)].line>>] >= Threshold
    <3>1. PICK j \in DOMAIN changes : \E o \in DOMAIN changes[j].adds :
             /\ n = changes[j].addStart + o - 1
             /\ Similarity[<<changes[i].dels[l - changes[i].delStart + 1], changes[j].adds[o]>>] >= Threshold
      BY <2>6 DEF FoundAt
    <3>2. PICK o \in DOMAIN changes[j].adds :
             /\ n = changes[j].addStart + o - 1
             /\ Similarity[<<changes[i].dels[l - changes[i].delStart + 1], changes[j].adds[o]>>] >= Threshold
      BY <3>1
    <3>3. diff[NewEntry(n)].op = "add" /\ diff[NewEntry(n)].line = changes[j].adds[o]
      BY <1>1, <3>2, AddedEntry
    <3> QED
      BY <2>2, <3>2, <3>3
  <2> QED
    BY <1>6, <2>1, <2>5, <2>6
<1> QED
  BY <1>4, <1>7, <1>8 DEF InOld

\* and that its ends follow their lines.
LEMMA EndsFollow == IInv => EndsFollowTheirLines
<1> SUFFICES ASSUME IInv, 0 \notin Asked, NEW loc \in DOMAIN result
             PROVE  /\ InFile(loc.start) => Follows(loc.start, result[loc].start, result[loc].startWasDeleted)
                    /\ InFile(loc.end) => Follows(loc.end, result[loc].end, result[loc].endWasDeleted)
  BY DEF EndsFollowTheirLines
<1> DEFINE L == DOMAIN result
           first == Place(changes, loc.start)
           last == Place(changes, loc.end)
           at == Located(changes, L, loc)
<1>1. /\ changes \in Seq(Change) /\ OldLength \in Nat /\ NewLength \in Nat
      /\ Chain(changes, OldLength, NewLength)
      /\ loc.start \in 1..(OldLength + 1) /\ loc.end \in 1..(OldLength + 1)
      /\ result[loc] = at /\ 0 \notin LinesOfInterest(L)
  BY Calculated
<1>2. \/ \E k \in DOMAIN changes :
            /\ Removes(changes[k], loc.start) /\ Removes(changes[k], loc.end)
            /\ first.line = Deleted /\ last.line = Deleted
            /\ \/ FoundAt(changes, k, loc.start, at.start) /\ FoundAt(changes, k, loc.end, at.end)
               \/ at.startWasDeleted /\ at.endWasDeleted
      \/ /\ at.start = StartOf(changes, first) /\ at.end = EndOf(changes, last)
         /\ at.startWasDeleted <=> first.line = Deleted
         /\ at.endWasDeleted <=> last.line = Deleted
  BY <1>1, LocatedCases
<1>3. at.startWasDeleted \in BOOLEAN /\ at.endWasDeleted \in BOOLEAN
  BY DEF Located, NewLocation, Found, Gone, Trimmed
<1> HIDE DEF first, last, at, L
<1>4. /\ \/ first.line = Deleted /\ at.startWasDeleted
         \/ first.line # Deleted /\ ~at.startWasDeleted /\ at.start = first.line
         \/ /\ first.line = Deleted
            /\ \E k \in DOMAIN changes : Removes(changes[k], loc.start) /\ FoundAt(changes, k, loc.start, at.start)
      /\ \/ last.line = Deleted /\ at.endWasDeleted
         \/ last.line # Deleted /\ ~at.endWasDeleted /\ at.end = last.line
         \/ /\ last.line = Deleted
            /\ \E k \in DOMAIN changes : Removes(changes[k], loc.end) /\ FoundAt(changes, k, loc.end, at.end)
  BY <1>2 DEF StartOf, EndOf
<1>5. ASSUME InFile(loc.start)
      PROVE  Follows(loc.start, at.start, at.startWasDeleted)
  <2>1. loc.start \in 1..OldLength
    BY <1>5 DEF InFile
  <2> QED
    BY <1>3, <1>4, <2>1, EndFollows DEF first, L
<1>6. ASSUME InFile(loc.end)
      PROVE  Follows(loc.end, at.end, at.endWasDeleted)
  <2>1. loc.end \in 1..OldLength
    BY <1>6 DEF InFile
  <2> QED
    BY <1>3, <1>4, <2>1, EndFollows DEF last, L
<1> QED
  BY <1>1, <1>5, <1>6

\* An end of a location is where its line is now, or said to be deleted, or at a similar line.
THEOREM EndsFollowLines == Spec => []EndsFollowTheirLines
BY Invariance, EndsFollow, PTL

================================================================================
