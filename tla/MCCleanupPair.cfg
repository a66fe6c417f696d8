SPECIFICATION FairSpec
CONSTANTS
    Paths = {p1}
    Inodes = {i1, i2}
    Procs = {g1, g2}
    None = None
    MaxActions = 1
    MaxSeq = 2
    MaxPlan = 1
    MaxCycles = 2
    MaxWorld = 1
    MaxFaults = 1
    MaxCrashes = 1
CHECK_DEADLOCK FALSE
PROPERTIES
    CycleEnds
    ImplementsSafeRemoval
