SPECIFICATION FairSpec
CONSTANTS
    Procs = {r1, r2}
    Files = {f1, f2, f3}
    None = None
    MaxPolls = 1
    MaxReplace = 2
    MaxDisplace = 2
    MaxCrashes = 1
INVARIANTS
    NoOrphanLock
PROPERTIES
    AttemptEnds
    ImplementsMutex
