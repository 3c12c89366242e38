------------------------- MODULE MCBroadcasterDelivery -------------------------
EXTENDS BroadcasterDelivery, TLC

CONSTANTS m1, m2, m3

\* What the theorems presuppose holds of the instances, but for Prompt itself.
ASSUME InstanceIsTimely == Prompt => Timely

\* A message in two parts, which have no identity of their own, and one in one piece.
SplitAndWhole == {{m1, m2}, {m3}}
WholeHasIdentity == {m3}

MessageSymmetry == Permutations(Fetches) \cup Permutations({m1, m2})

\* Once it is over nothing happens any more, and nothing but `over' and `fetches' has
\* just changed.  A connection lost too long ago counts as none (LostShortly), and when
\* a message was received does not matter while the list remembers everything.
RelevantTimes ==
    IF over THEN <<over>>
    ELSE <<now, transport, pending, last, IF LostShortly THEN connLost ELSE 0, fetches,
           IF Memory >= MaxTime THEN {m \in Messages : received[m] > 0} ELSE received,
           partial, emitted, seen>>

================================================================================
