SPECIFICATION InstallSpec
CONSTANTS
    Nothing = Nothing
    SearchPaths <- MCSearchPaths
    ManagerPaths <- MCManagerPaths
    MaxTries = 2
    MaxFaults = 3
INVARIANTS
    InstallTypeOK
    SignalRestores
    SuccessIsComplete
    ToolsRun
CHECK_DEADLOCK FALSE
