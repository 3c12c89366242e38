SPECIFICATION Spec
CONSTANTS
    ChannelList <- TwoSlices
    Since = 2
    SliceSize = 2
    BatchSize = 1
    PageSize = 3
    MaxPages = 2
    Spacing = 3
    Clocks = {20}
    Contents <- Few
    Late = {}
INVARIANT NothingMissed
CHECK_DEADLOCK FALSE
