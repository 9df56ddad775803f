SPECIFICATION Spec
CONSTANTS
    MaxObjectid = 1
    MaxType = 1
    MaxOffset = 1
    BufSize = 6
    HeaderSize = 1
    MaxItemSize = 2
    ItemSizes = {0, 2}
    Trees <- MCTrees
    Ranges <- MCRanges
    MaxSearches = 2
    MaxOps = 1
INVARIANTS TypeOK NothingMissed
PROPERTIES HandedInOrder SearchEnds
