SPECIFICATION Spec
CONSTANTS
    MinReclaimBytes = 2
    MaxCopyRatio = 4
    Files = {1, 2}
    MaxSectors = 3
    SectorSize = 2
    ExtentSectors = 4
    DiskBytes = 8
    Bytes <- MCBytes
    InitDisk <- MCInitDisk
    InitFiles <- TailFiles
    Modes = {TRUE}
    UserOps = {}
    WriteBytes = {9}
    MaxOps = 0
    Faults = {}
INVARIANTS DeduplicationPreserved
