SPECIFICATION Spec
CONSTANTS
    MinReclaimBytes = 2
    MaxCopyRatio = 4
    MaxExtents = 4
    WalkExtents <- MCWalkExtents
    Drift <- MCDrift
INVARIANTS TypeOK EachExtentOnce FailuresAgree SuccessIsCommitted ReportAddsUp
PROPERTIES StopsAtError
