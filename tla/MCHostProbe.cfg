SPECIFICATION FairSpec
CONSTANTS
    Hosts <- MCHosts
    Reports <- MCReports
    None = None
    Word = 16
    Timeout = 2
    Skew = 1
    Offsets <- MCOffsets
    Cap = 1
    PipeSize = 1
    MaxOut = 2
    MaxTime = 9
INVARIANTS
    OutputIsDrained
    SizesAreTrue
    StuckIsDiscarded
PROPERTIES
    OnlyHeirsKeepIt
CHECK_DEADLOCK FALSE
