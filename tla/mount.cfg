\* Two calls of mount_partitions on a UEFI machine.
SPECIFICATION Spec
CONSTANTS
    Parts <- MCParts
    Within <- MCWithin
    Crypt <- MCCrypt
    Lvm <- MCLvm
    UEFI = TRUE
    SwapoffFails = FALSE
    MaxPasses = 2
    MaxMounts = 3
    MaxEntries = 3
INVARIANTS
    CountCoversList
    SwapTracked
    SwapEntryActive
    UmountHonest
CHECK_DEADLOCK FALSE
