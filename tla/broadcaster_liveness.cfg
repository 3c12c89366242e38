SPECIFICATION FairSpec
CONSTANTS
    Channels = {c1}
    RetryLimit = 2
    HistoryLimit = 0
    MaxCallbacks = 2
PROPERTIES
    EveryCycleSettles
    BadTokenAborts
CHECK_DEADLOCK FALSE
