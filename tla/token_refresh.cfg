SPECIFICATION FairSpec
CONSTANTS
    Intercepted = {i}
    Plain = {p}
    Graphql = {g}
    Put = put
    None = none
    MaxRetries = 1
    MaxTroubles = 2
    MaxFaults = 2
INVARIANTS
    TypeOK
    WaitersAreServed
    ExpiryIsHidden
    ClientKnows
    ExpiredOnlyByOverlap
PROPERTIES
    RetriedWithNewerToken
    EveryRequestEnds
CHECK_DEADLOCK FALSE
