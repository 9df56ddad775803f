SPECIFICATION Spec
CONSTANTS
    MinReclaimBytes = 2
    MaxCopyRatio = 4
    Inputs <- MCInputs
INVARIANTS MergedRight Returned
