\* The default mode orders the dependents of an empty cycle.
SPECIFICATION DumpSpec
CONSTANTS
    N = 4
    Keys <- MCKeys
    MaxInterleave = 0
    MaxForeign = 4
    MaxEdges = 4
    ByteLimit = 3
INVARIANT RestoresInOrder
