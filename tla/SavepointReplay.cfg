CONSTANTS
    Names = {"a", "b"}
    Observations = {0, 1}
    Savepoints = TRUE
    MaxRetries = 2
    JournalLimit = 7
    MaxOps = 2
    MaxAttempt = 2
SPECIFICATION LiveSpec
INVARIANTS
    PhysicalMatchesJournal
PROPERTIES
    StatementEnds
    MarkersSurvive
