CONSTANTS
    Names = {"a"}
    Observations = {0}
    Savepoints = TRUE
    MaxRetries = 1
    JournalLimit = 7
    MaxOps = 2
    MaxAttempt = 2
SPECIFICATION Spec
INVARIANTS
    ExhaustionKeepsMarkers
