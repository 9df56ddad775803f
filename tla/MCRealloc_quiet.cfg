SPECIFICATION Spec
CONSTANTS
    MinReclaimBytes = 2
    MaxCopyRatio = 4
    Files = {1, 2}
    MaxSectors = 3
    SectorSize = 2
    ExtentSectors = 4
    DiskBytes = 8
    Bytes <- MCBytes
    InitDisk <- MCInitDisk
    InitFiles <- QuietFiles
    Modes = {TRUE}
    UserOps = {"clone"}
    WriteBytes = {}
    MaxOps = 1
    Faults = {}
INVARIANTS TypeOK RewriteSucceeds SharingPreserved CopiesFullyReferenced
