SPECIFICATION Spec
CONSTANTS
    Channels = {c1, c2}
    RetryLimit = 1
    HistoryLimit = 0
    MaxCallbacks = 2
SYMMETRY ChannelSymmetry
VIEW RelevantFields
INVARIANTS
    TypeOK
    QueuedOnlyWhilePending
    NoForgottenChannel
    PendingIsDriven
    FailuresAreRetried
    SnapshotsAreKnown
CHECK_DEADLOCK FALSE
