SPECIFICATION Spec
CONSTANTS
    Word = 16
    MaxCompressed = 2
    Files = {1, 2}
    Extents <- MCExtents
    Items <- MCItems
    Layouts <- MCLayouts
    MaxOps = 1
INVARIANTS FilesIsEverything OpaqueForAReason CollectedOnce FailsOnlyIfChanged
