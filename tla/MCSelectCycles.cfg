SPECIFICATION FairSpec
CONSTANTS
    Enabled = TRUE
    Paths = {1, 2, 3}
    Rank <- Ranks
    NormalAge <- Ages
    CriticalAge = 1
    MaxActions = 2
    Volumes = {40}
    Configs <- OneConfig
    Frees = {1, 9, 20}
    Sizes = {3}
    MaxAge = 2
    MaxUser = 1
    MaxFails = 1
INVARIANTS
    BudgetCures
PROPERTIES
    SaferFirst
    BoundedByTarget
    ReliefComes
