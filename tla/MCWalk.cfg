SPECIFICATION Spec
CONSTANTS
    MaxAddress = 3
    BlockGroups = {1}
    BufItems = 2
    MaxItems = 3
    Starts <- MCStarts
    UserOps = {"begin", "commit", "alloc", "free", "refs"}
    MaxOps = 2
    MaxRewrites = 1
INVARIANTS NothingPassedOver OwnCopiesPassedOver NoLookupDuringRewrite
PROPERTIES MetInOrder WalkEnds
