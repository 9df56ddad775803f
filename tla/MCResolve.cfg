SPECIFICATION Spec
CONSTANTS
    Roots = {1, 2, 3}
    MaxRefs = 2
    StartSize = 1
    MaxSize = 3
    First = 1
    MaxOps = 4
INVARIANTS EveryReferenceFound QuietResolves
PROPERTIES ResolutionEnds
