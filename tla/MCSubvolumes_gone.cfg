SPECIFICATION Spec
CONSTANTS
    Roots = {1, 2, 3}
    Top = 1
    Names = {"a", "b"}
    DirNames = {"d", "e"}
    Starts <- MCStarts
    Lookups = 2
    MaxOps = 3
INVARIANTS DeletedIsDeleted
