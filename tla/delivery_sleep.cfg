SPECIFICATION Spec
CONSTANTS
    m1 = m1
    m2 = m2
    m3 = m3
    Messages = {m1, m2, m3}
    Wholes <- SplitAndWhole
    Identified <- WholeHasIdentity
    Buffer = 1
    Lead = 1
    ShortLoss = 1
    Memory = 5
    CatchupLimit = 3
    Retention = 4
    SdkWindow = 1
    NoticeWithin = 1
    Prompt = FALSE
    FetchTimeout = 1
    Fetches = {f1, f2}
    MaxTime = 4
SYMMETRY MessageSymmetry
VIEW RelevantTimes
PROPERTY CycleEndsCaughtUp
CHECK_DEADLOCK FALSE
