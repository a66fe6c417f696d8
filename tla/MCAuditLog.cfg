SPECIFICATION FairSpec
CONSTANTS
    Writers = {w1, w2}
    None = None
    MaxRecords = 5
    MaxLimit = 2
    MaxHistory = 14
    MaxFaults = 2
INVARIANTS
    AcknowledgedIsDurable
    HistoryHeals
PROPERTY
    LogIsFreed
CHECK_DEADLOCK FALSE
