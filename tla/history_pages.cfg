SPECIFICATION Spec
CONSTANTS
    ChannelList <- OneSlice
    Since = 2
    SliceSize = 2
    BatchSize = 1
    PageSize = 3
    MaxPages = 2
    Spacing = 3
    Clocks = {6, 40}
    Contents <- Various
    Late = {29}
INVARIANTS
    TypeOK
    NothingMissed
    ResetOnlyIfTooMany
PROPERTY FetchEnds
CHECK_DEADLOCK FALSE
