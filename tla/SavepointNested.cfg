CONSTANTS
    Names = {"a", "b"}
    Observations = {0}
    Savepoints = TRUE
    MaxRetries = 1
    JournalLimit = 7
    MaxOps = 3
    MaxAttempt = 2
SPECIFICATION Spec
INVARIANTS
    TypeOK
    JournalExact
PROPERTIES
    NestedSpec
