SPECIFICATION FairSpec
CONSTANTS
    MaxPosts = 2
    MaxMe = 4
    MaxStreams = 2
    MaxLog = 6
    MaxBatch = 2
    MaxFailures = 1
    MaxSeqNum = 6
INVARIANTS
    TypeOK
    UnreadsAreExact
    NoUnreadIsMissed
    UserIsCurrent
    LostOnlyByFailure
    BlockersGoAlone
    FirstIsCachedOrComes
    SearchFinds
    InsertsInOrder
    PagesAreWhole
PROPERTIES
    EverythingSettles
CHECK_DEADLOCK FALSE
