CONSTANTS
    o1 = o1
    Owners = {o1}
    Nil = Nil
    Autocommit = FALSE
    ReadOnly = TRUE
    MaxGen = 1
    MaxUndo = 2
SPECIFICATION FairSpec
PROPERTIES
    OwnerEnds
