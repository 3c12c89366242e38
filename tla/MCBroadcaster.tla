----------------------------- MODULE MCBroadcaster -----------------------------
EXTENDS Broadcaster, TLC

ChannelSymmetry == Permutations(Channels)

\* No action reads `emitted' or the history, and all that depends on `hadTrouble' is
\* which status is emitted; of the history the invariants ask no more than Undisturbed.
RelevantFields ==
    [State EXCEPT !.emitted = {}, !.hadTrouble = FALSE,
                  !.wasReset = ~Undisturbed, !.careless = FALSE]

================================================================================
