SPECIFICATION PlanSpec
CONSTANTS
    Layouts <- MCLayouts
    Order <- MCOrder
    GlobalCaches <- MCGlobalCaches
    Protected <- MCProtected
    Age <- MCAge
    MaxDepth = 2
    MaxProjects = 2
    Movable <- MCMovable
    Busy <- MCBusy
    Now = 2
    MaxSteps = 2
    None = None
INVARIANTS
    PlannedOnce
    PlanIsSound
    PlanIsComplete
CHECK_DEADLOCK FALSE
