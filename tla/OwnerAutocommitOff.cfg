CONSTANTS
    o1 = o1
    o2 = o2
    Owners = {o1, o2}
    Nil = Nil
    Autocommit = FALSE
    ReadOnly = FALSE
    MaxGen = 1
    MaxUndo = 1
SPECIFICATION Spec
SYMMETRY Identities
INVARIANTS
    AutocommitOffGroups
