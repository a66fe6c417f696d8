SPECIFICATION Spec
CONSTANTS
    None = None
    Pids = {1, 2}
    Intervals = {1, 2}
    Patience = 4
    Jumps <- JumpsMC
    Horizon = 9
    MaxDeaths = 2
    MaxEdits = 1
    MaxOthers = 1
    MaxJumps = 2
INVARIANTS
    DeadNoticed
    AlarmMeansSlow
CHECK_DEADLOCK FALSE
