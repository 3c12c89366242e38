----------------------------- MODULE MarkerLocation -----------------------------
(***************************************************************************)
(* Where the markers of a file are after the file has changed: the changes *)
(* that changeset.ts gathers from a diff, and calculator.ts, which moves   *)
(* the first and the last line of every location along with them.          *)
(*                                                                         *)
(* A line has a set of bigrams, by which the code rates how similar lines  *)
(* are.  Columns are left out: they never move a line.                     *)
(***************************************************************************)
EXTENDS Integers, Sequences, FiniteSets, FiniteSetsExt

CONSTANTS
    Words,     \* by line, its bigrams: it has at least one
    MaxLength  \* bound: the length of a diff

Lines == DOMAIN Words
Bigrams == UNION {Words[x] : x \in Lines}

ASSUME MarkerLocationAssumption ==
    /\ \A x \in Lines : IsFiniteSet(Words[x]) /\ Words[x] # {}
    /\ IsFiniteSet(Lines) /\ MaxLength \in Nat

VARIABLES
    diff,              \* the diff as read so far, with the lines between its hunks
    state,             \* _state: in a change ("edit") or not ("sync")
    oldLine, newLine,  \* _oldLine, _newLine: the last line of context, in both files
    dels, adds,        \* _dels, _adds: the lines of the change
    delStart, addStart,
    changes,           \* _changes
    asked,             \* the locations to calculate; empty as long as the diff is read
    ahead,             \* _lines from _lineIndex on
    begun,             \* how many of the changes are being applied, or have been
    active,            \* _activeLocations
    calculated,        \* _calculatedLines: by line of interest, its new line, and the change it is in
    contentChanged,    \* the locations so marked
    finalBalance,      \* _finalBalance
    result             \* by location, where it is now; empty until it is calculated

builder == <<state, oldLine, newLine, dels, adds, delStart, addStart, changes>>
walk == <<asked, ahead, begun, active, calculated, contentChanged, finalBalance>>
vars == <<diff, builder, walk, result>>

--------------------------------------------------------------------------------
(* The diff: lines of context, lines removed and added, and lines it does not show. *)

InOld(d) == d.op \in {"keep", "skip", "del"}
InNew(d) == d.op \in {"keep", "skip", "add"}

\* How many lines of the files there are up to the p-th entry.
OldCount(p) == Cardinality({q \in 1..p : InOld(diff[q])})
NewCount(p) == Cardinality({q \in 1..p : InNew(diff[q])})
OldLength == OldCount(Len(diff))

BetweenHunks == diff # <<>> /\ diff[Len(diff)].op = "skip"

\* MUTANT: a change starts at the last line of context.
StartAtContext(line) == line

StartAfter(line) == line + 1

\* _sync(): the change is complete.
Pushed ==
    IF state = "edit"
    THEN Append(changes, [delStart |-> delStart, addStart |-> addStart, dels |-> dels, adds |-> adds])
    ELSE changes

\* _ctx(): the numbers of the line come from its hunk.
Ctx ==
    /\ state' = "sync" /\ changes' = Pushed
    /\ diff' = Append(diff, [op |-> "keep"])
    /\ oldLine' = OldLength + 1
    /\ newLine' = NewCount(Len(diff)) + 1
    /\ UNCHANGED <<dels, adds, delStart, addStart, walk, result>>

\* Lines before, between and after the hunks, one of them at a time in the model; a line of
\* context, at least, is next to each change.
NextHunk ==
    /\ state = "sync" /\ ~BetweenHunks
    /\ diff' = Append(diff, [op |-> "skip"])
    /\ UNCHANGED <<builder, walk, result>>

\* _edit(): the change starts after the last line of context.
Edit(ds, as) ==
    /\ ~BetweenHunks
    /\ state' = "edit"
    /\ IF state = "edit"
       THEN dels' = dels \o ds /\ adds' = adds \o as /\ UNCHANGED <<delStart, addStart>>
       ELSE /\ dels' = ds /\ adds' = as
            /\ delStart' = StartAfter(oldLine) /\ addStart' = StartAfter(newLine)
    /\ UNCHANGED <<oldLine, newLine, changes, walk, result>>

\* EXTERNAL: diffs have the lines removed first, and do not remove and add the same line.
Del(x) ==
    /\ state = "edit" => adds = <<>>
    /\ Edit(<<x>>, <<>>)
    /\ diff' = Append(diff, [op |-> "del", line |-> x])

Add(x) ==
    /\ state = "edit" => \A i \in DOMAIN dels : dels[i] # x
    /\ Edit(<<>>, <<x>>)
    /\ diff' = Append(diff, [op |-> "add", line |-> x])

--------------------------------------------------------------------------------
(* Similarity of lines, in per cent: twice what is common by what there is in all. *)

Threshold == 50
Deleted == -1

Count(w, xs) == Cardinality({i \in DOMAIN xs : w \in Words[xs[i]]})
Size(xs) == Cardinality({o \in (DOMAIN xs) \X Bigrams : o[2] \in Words[xs[o[1]]]})
Common(xs, ys) == Cardinality({o \in (DOMAIN xs) \X Bigrams : o[1] <= Count(o[2], xs) /\ o[1] <= Count(o[2], ys)})

Rating(xs, ys) ==
    IF Size(xs) + Size(ys) = 0 THEN 100 ELSE (200 * Common(xs, ys)) \div (Size(xs) + Size(ys))

Similarity == [pair \in Lines \X Lines |-> Rating(<<pair[1]>>, <<pair[2]>>)]

\* MUTANT: the best line will do, however bad.
GoodEnoughAlways(r) == r > 0

GoodEnough(r) == r >= Threshold

\* bestMatch(): the first of the best candidates, or 0.
BestMatch(x, candidates) ==
    LET Rate(i) == Similarity[<<x, candidates[i]>>]
        best == {i \in DOMAIN candidates :
                    GoodEnough(Rate(i)) /\ \A j \in DOMAIN candidates : Rate(j) <= Rate(i)}
    IN  IF best = {} THEN 0 ELSE Min(best)

--------------------------------------------------------------------------------
(* The walk over the lines of interest and the changes, both in their order. *)

DelEnd(ch) == ch.delStart + Len(ch.dels)
AddEnd(ch) == ch.addStart + Len(ch.adds)

\* _lines: those whose new place is asked for.
LinesOfInterest(L) == {loc.start : loc \in L} \cup {loc.end : loc \in L}

\* activateLocationsStartingAtCurrentLine(), deactivateLocationsEndingAtCurrentLine()
StartingAtFirst(L, lines) == {loc \in L : lines # {} /\ loc.start = Min(lines)}
EndingAt(line) == {loc \in asked : loc.end = line}

\* MUTANT: the first line of all is not looked at.
NoneYet(L) == {}

ActiveAtFirst(L) == StartingAtFirst(L, LinesOfInterest(L))

\* The condition of the loops: there is a current line, and it is before n.  They take 0 for
\* none, and end.
LineBelow(n) == ahead # {} /\ Min(ahead) # 0 /\ Min(ahead) < n

\* nextLine()
NextLine ==
    /\ ahead' = ahead \ {Min(ahead)}
    /\ active' = (active \ EndingAt(Min(ahead))) \cup StartingAtFirst(asked, ahead')

\* moveCurrentLineBy()
MoveCurrentLineBy(delta) ==
    /\ calculated' = [calculated EXCEPT ![Min(ahead)].line = Min(ahead) + delta]
    /\ NextLine
    /\ UNCHANGED <<diff, builder, asked, begun, contentChanged, finalBalance, result>>

Balance(ch) == ch.addStart - ch.delStart

\* MUTANT: the changes before the last are forgotten.
BalanceOfChange(ch) == Len(ch.adds) - Len(ch.dels)

BalanceAfter(ch) == Balance(ch) + Len(ch.adds) - Len(ch.dels)

\* The lines up to the end of the changes begun have been calculated.
ChangesApplied == begun > 0 => ~LineBelow(DelEnd(changes[begun]))

\* calculateLinesUntil()
CalculateLineUntil ==
    /\ ChangesApplied /\ begun < Len(changes)
    /\ LineBelow(changes[begun + 1].delStart)
    /\ MoveCurrentLineBy(Balance(changes[begun + 1]))

\* calculateLinesIn() begins: locations that are active now have a change of their content.
BeginChange ==
    /\ ChangesApplied /\ begun < Len(changes)
    /\ ~LineBelow(changes[begun + 1].delStart)
    /\ begun' = begun + 1
    /\ contentChanged' = contentChanged \cup active
    /\ finalBalance' = BalanceAfter(changes[begun'])
    /\ UNCHANGED <<diff, builder, asked, ahead, active, calculated, result>>

\* A line in a change moves to the line added by it that is most like it.
LineIn(chs, k, l) ==
    LET ch == chs[k]
        i == BestMatch(ch.dels[l - ch.delStart + 1], ch.adds)
    IN  [line |-> IF i = 0 THEN Deleted ELSE ch.addStart + i - 1, change |-> k]

CalculateLineIn ==
    /\ ~ChangesApplied
    /\ calculated' = [calculated EXCEPT ![Min(ahead)] = LineIn(changes, begun, Min(ahead))]
    /\ NextLine
    /\ UNCHANGED <<diff, builder, asked, begun, contentChanged, finalBalance, result>>

\* calculateLinesUntilEnd()
CalculateLineUntilEnd ==
    /\ ChangesApplied /\ begun = Len(changes)
    /\ ahead # {} /\ Min(ahead) # 0
    /\ MoveCurrentLineBy(finalBalance)

--------------------------------------------------------------------------------
(* Locations whose lines were deleted. *)

\* findMovedLocation(): the changes that add what the change k deletes, the least similar
\* first, and among them the first that has both lines in their order.
Moves(chs, k, loc) ==
    LET x == chs[k].dels[loc.start - chs[k].delStart + 1]
        y == chs[k].dels[loc.end - chs[k].delStart + 1]
        Fits(j) == /\ Rating(chs[k].dels, chs[j].adds) >= Threshold
                   /\ BestMatch(x, chs[j].adds) # 0 /\ BestMatch(y, chs[j].adds) # 0
                   /\ BestMatch(x, chs[j].adds) <= BestMatch(y, chs[j].adds)
    IN  {j \in DOMAIN chs : Fits(j)}

LeastSimilar(chs, k, J) ==
    LET Rate(j) == Rating(chs[k].dels, chs[j].adds)
    IN  Min({j \in J : \A i \in J : Rate(j) <= Rate(i)})

Found(chs, k, loc, changed) ==
    LET to == chs[LeastSimilar(chs, k, Moves(chs, k, loc))]
        At(l) == to.addStart + BestMatch(chs[k].dels[l - chs[k].delStart + 1], to.adds) - 1
    IN  [start |-> At(loc.start), end |-> At(loc.end), startWasDeleted |-> FALSE,
         endWasDeleted |-> FALSE, entirelyDeleted |-> FALSE, contentChanged |-> changed]

\* trimLineChange()
Gone(ch, changed) ==
    [start |-> AddEnd(ch), end |-> AddEnd(ch), startWasDeleted |-> TRUE,
     endWasDeleted |-> TRUE, entirelyDeleted |-> TRUE, contentChanged |-> changed]

\* trimLineStartChange(), trimLineEndChange()
Trimmed(chs, first, last, changed) ==
    [start |-> IF first.line = Deleted THEN AddEnd(chs[first.change]) ELSE first.line,
     end |-> IF last.line = Deleted THEN chs[last.change].addStart - 1 ELSE last.line,
     startWasDeleted |-> first.line = Deleted, endWasDeleted |-> last.line = Deleted,
     entirelyDeleted |-> FALSE, contentChanged |-> changed]

\* calculateMissingLocations()
NewLocation(chs, first, last, loc, changed) ==
    LET k == first.change
    IN  IF first.line = Deleted /\ last.line = Deleted /\ k = last.change
        THEN IF Moves(chs, k, loc) # {} THEN Found(chs, k, loc, changed) ELSE Gone(chs[k], changed)
        ELSE Trimmed(chs, first, last, changed)

\* The lines have all been calculated, or the loops have ended at line 0.
Results ==
    /\ ChangesApplied /\ begun = Len(changes)
    /\ ahead # {} => Min(ahead) = 0
    /\ result' = [loc \in asked |-> NewLocation(changes, calculated[loc.start], calculated[loc.end],
                                                loc, loc \in contentChanged)]
    /\ UNCHANGED <<diff, builder, walk>>

--------------------------------------------------------------------------------
\* Where a location may start and end: in the file, or where an earlier calculation put it,
\* which may be before its beginning, or just behind its end; both ends, if it was all deleted.
Locations == {loc \in [start : 1..(OldLength + 1), end : 0..(OldLength + 1)] :
                 loc.end > OldLength => loc.start = loc.end}

\* Markers of one line; with one of them as the other, any lines of interest come up.
Points == {[start |-> l, end |-> l] : l \in 1..OldLength}

\* calculateLocations() begins, with the changes of the diff read.
Calculate(L) ==
    /\ state' = "sync" /\ changes' = Pushed
    /\ asked' = L /\ ahead' = LinesOfInterest(L) /\ active' = ActiveAtFirst(L)
    /\ begun' = 0 /\ finalBalance' = 0 /\ contentChanged' = {}
    /\ calculated' = [l \in LinesOfInterest(L) |-> [line |-> 0, change |-> 0]]
    /\ UNCHANGED <<diff, oldLine, newLine, dels, adds, delStart, addStart, result>>

Init ==
    /\ diff = <<>> /\ state = "sync" /\ oldLine = 0 /\ newLine = 0
    /\ dels = <<>> /\ adds = <<>> /\ delStart = 0 /\ addStart = 0
    /\ changes = <<>> /\ result = <<>>
    /\ asked = {} /\ ahead = {} /\ begun = 0 /\ active = {}
    /\ calculated = <<>> /\ contentChanged = {} /\ finalBalance = 0

ReadDiff ==
    /\ Len(diff) < MaxLength
    /\ Ctx \/ NextHunk \/ \E x \in Lines : Del(x) \/ Add(x)

Start == \E loc \in Locations : Calculate({loc}) \/ \E other \in Points : Calculate({loc, other})

Walk ==
    \/ CalculateLineUntil \/ BeginChange \/ CalculateLineIn
    \/ CalculateLineUntilEnd \/ Results

\* The result is the end.
Next ==
    /\ DOMAIN result = {}
    /\ \/ asked = {} /\ (ReadDiff \/ Start)
       \/ asked # {} /\ Walk

Spec == Init /\ [][Next]_vars

--------------------------------------------------------------------------------
(* Properties. *)

NewLength == NewCount(Len(diff))
Asked == LinesOfInterest(asked)

\* The entries of the diff that are line l of the old file and of the new one.
OldEntry(l) == CHOOSE p \in DOMAIN diff : InOld(diff[p]) /\ OldCount(p) = l
NewEntry(l) == CHOOSE p \in DOMAIN diff : InNew(diff[p]) /\ NewCount(p) = l
InFile(l) == l \in 1..OldLength

\* The values the variables can have: once it is calculated, a location is in the new file, or
\* next to it, unless one of its file is at line 0 (calculator.ts).
TypeOK ==
    /\ state \in {"sync", "edit"} /\ oldLine \in 0..OldLength /\ newLine \in 0..NewLength
    /\ dels \in Seq(Lines) /\ adds \in Seq(Lines)
    /\ \A i \in DOMAIN changes :
        /\ changes[i].delStart >= 1 /\ DelEnd(changes[i]) <= OldLength + 1
        /\ changes[i].addStart >= 1 /\ AddEnd(changes[i]) <= NewLength + 1
        /\ i > 1 => DelEnd(changes[i - 1]) < changes[i].delStart
    /\ begun \in 0..Len(changes) /\ ahead \subseteq Asked /\ active \subseteq asked
    /\ 0 \notin Asked => \A loc \in DOMAIN result :
        result[loc].start \in 1..(NewLength + 1) /\ result[loc].end \in 0..(NewLength + 1)

\* Where an end of a location was, and is said to be now.
Follows(l, new, wasDeleted) ==
    LET p == OldEntry(l)
    IN  IF InNew(diff[p])
        THEN ~wasDeleted /\ new = NewCount(p)
        ELSE wasDeleted \/ /\ diff[NewEntry(new)].op = "add"
                           /\ Similarity[<<diff[p].line, diff[NewEntry(new)].line>>] >= Threshold

\* An end of a location that is not in any change moves with its line, whatever was removed
\* and added before it; one that is deleted, and not said to be, is at a line the diff adds
\* that is similar (changeset.ts, calculator.ts).
EndsFollowTheirLines ==
    0 \notin Asked => \A loc \in DOMAIN result :
        /\ InFile(loc.start) => Follows(loc.start, result[loc].start, result[loc].startWasDeleted)
        /\ InFile(loc.end) => Follows(loc.end, result[loc].end, result[loc].endWasDeleted)

\* Lines of the location, or between them, were removed or added.
Touched(loc) ==
    \E p \in DOMAIN diff :
        \/ diff[p].op = "del" /\ OldCount(p) \in loc.start..loc.end
        \/ diff[p].op = "add" /\ OldCount(p) \in loc.start..(loc.end - 1)

\* Another line of interest comes first in the change that removed the location's start.
ComesSecond(loc) ==
    \E i \in DOMAIN changes : /\ loc.start \in changes[i].delStart..(DelEnd(changes[i]) - 1)
                              /\ \E l \in Asked : l \in changes[i].delStart..(loc.start - 1)

\* No change of a location's content goes unnoticed, but for one in which another line of
\* interest comes before the location: it is not active yet when the change begins.  (Changes
\* far before a location are noticed, too: it is active as soon as it is next; calculator.ts.)
TouchedIsFlagged ==
    0 \notin Asked => \A loc \in DOMAIN result :
        Touched(loc) /\ ~ComesSecond(loc) => result[loc].contentChanged

\* The ends of a location were removed by the same change.
InOneChange(loc) ==
    \E i \in DOMAIN changes : {loc.start, loc.end} \subseteq changes[i].delStart..(DelEnd(changes[i]) - 1)

\* A location that starts before it ends still does, however its ends are moved and trimmed;
\* but not where one change has removed both and only one, or each out of order, is found
\* again in what it adds (calculator.ts).
StaysInOrder ==
    0 \notin Asked => \A loc \in DOMAIN result :
        loc.start <= loc.end /\ (InOneChange(loc) => result[loc].entirelyDeleted)
            => result[loc].start <= result[loc].end

================================================================================
