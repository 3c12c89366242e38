SPECIFICATION Spec
CONSTANTS
    Channels = {c1, c2}
    RetryLimit = 1
    HistoryLimit = 0
    MaxCallbacks = 2
SYMMETRY ChannelSymmetry
INVARIANT QueueIsServed
CHECK_DEADLOCK FALSE
