SPECIFICATION Spec
CONSTANTS
    Paths = {p1, p2}
    Inodes = {i1, i2}
    Procs = {g1}
    None = None
    MaxActions = 2
    MaxSeq = 2
    MaxPlan = 2
    MaxCycles = 2
    MaxWorld = 2
    MaxFaults = 1
    MaxCrashes = 1
SYMMETRY Interchangeable
CHECK_DEADLOCK FALSE
INVARIANTS
    NamesAreExact
    ReportMatchesAudit
    SuccessIsTrue
PROPERTIES
    PurgeOnlyPlanned
    IntentBeforeRename
