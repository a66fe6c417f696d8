SPECIFICATION Spec
CONSTANTS
    Procs = {r1, r2}
    default = default
    custom = custom
    empty = empty
    legacy = legacy
    tidy0 = tidy0
    tidy1 = tidy1
    bad = bad
    Configs = {default, custom}
    Default = default
    Texts = {empty, legacy, tidy0, tidy1, bad}
    Parse <- Meanings
    ToToml <- Printed
    Names <- MCNames
    MaxRoots = 1
    MaxProtected = 2
    Documents <- MCDocuments
    Meant <- MCMeant
    Legacy <- MCLegacy
    Others <- MCOthers
    None = None
    MaxEdits = 2
    MaxOps = 2
    MaxFaults = 1
SYMMETRY Interchangeable
CHECK_DEADLOCK FALSE
INVARIANTS
    AnswerIsTrue
    GoodWasActive
    NeverTorn
    OnlyActiveIsSaved
    MeaningIsKept
