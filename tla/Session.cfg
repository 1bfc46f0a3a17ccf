CONSTANTS
    MaxDdl = 2
    MaxOps = 2
    d1 = d1
    d2 = d2
    MaxHandles = 7
    MaxVersion = 1
    MaxFlags = 2
SPECIFICATION SessionSpec
INVARIANTS
    DdlSound
    SwitchSound
    StartupSound
PROPERTY
    SessionSteps
