SPECIFICATION Spec
CONSTANTS
    MinReclaimBytes = 2
    MaxCopyRatio = 2
    Files = {1, 2}
    MaxSectors = 3
    SectorSize = 2
    ExtentSectors = 5
    DiskBytes = 10
    Bytes <- MCBytes
    InitDisk <- MCInitDisk
    InitFiles <- BusyFiles
    Modes = {TRUE, FALSE}
    UserOps = {"write", "truncate", "rename", "unlink"}
    WriteBytes = {9}
    MaxOps = 1
    Faults = {"other", "fatal", "short", "idle"}
PROPERTIES NothingVisible DryRunWritesNothing Terminates FoundIsReleased
