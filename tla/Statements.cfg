CONSTANTS
    MaxAttempts = 3
    c1 = c1
    c2 = c2
    d1 = d1
    d2 = d2
    Calls = {c1, c2}
    Limit = 2
    MaxWrites = 2
    MaxRows = 2
    MaxPipe = 2
    PreviewRows = 2
    MaxRetries = 2
    MaxJournal = 2
    PartitionCount = 3
    PartitionRows = 1
    Parallelism = 2
    Validity = 2
    Skew = 1
    MaxTime = 4
SPECIFICATION StatementsSpec
INVARIANTS
    TypeOK
    AppliedOnce
    ToldTruth
    NoImplicitOwnerLeft
    OutputSound
    QuerySound
    PartitionsSound
    CallsSound
PROPERTIES
    QuerySteps
    StatementsEnd
