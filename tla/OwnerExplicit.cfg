CONSTANTS
    o1 = o1
    o2 = o2
    Owners = {o1, o2}
    Nil = Nil
    Autocommit = TRUE
    ReadOnly = FALSE
    MaxGen = 2
    MaxUndo = 1
SPECIFICATION Spec
SYMMETRY Identities
INVARIANTS
    TypeOK
    ExpirePendingScoped
    SetLocalKeepsOwner
    NoticeBeforeWork
PROPERTIES
    LocalScopeSpec
    CapturesSessionValues
    IdleExpiryNeedsQuiet
    WatcherSparesReplacement
