SPECIFICATION FairSpec
CONSTANTS
    Settings <- TwoSettings
    Disk <- OneDisk
    Total = 40
    Frees = {3, 10, 20}
    Cooldown <- Cooldowns
    Nap = 1
    Clis = {"cli"}
    None = None
    Horizon = 3
    MaxRuns = 2
    MaxLost = 1
    MaxFaults = 1
INVARIANTS
    FailsClosed
    Serialized
PROPERTIES
    Paced
    PressureAnswered
    MaintenanceComes
