CONSTANTS
    Vars = {"CLI_SAVEPOINT_SUPPORT", "TRANSACTION_TAG", "AUTOCOMMIT", "TRANSACTION_TIMEOUT",
            "CLI_IDLE_TRANSACTION_TIMEOUT"}
    MaxUndo = 2
    Fillers = {"x", "7", "'s'", "ALL", "PARAM", "LOCAL", "VARIABLES"}
    MaxPicks = 2
    N = 3
    Keys <- AllKeys
    MaxInterleave = 2
    MaxForeign = 2
    MaxEdges = 3
    ByteLimit = 3
    MaxPaths = 2
    MaxQueue = 1
    MaxOutside = 1
    Kinds <- TableKinds
    MaxCols = 3
    Screens = {4, 13, 18, 27, 34}
SPECIFICATION ToolsSpec
INVARIANTS
    VariablesSound
    LineSound
    DumpSound
    WidthsSound
PROPERTIES
    SettingsSteps
    BundleSound
