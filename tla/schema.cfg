\* Every vector of up to three devices, with all answers about its subvolumes.
SPECIFICATION SchemaSpec
CONSTANTS
    Devices = {1, 2, 3}
    Kinds <- MCKinds
    ExistingLists <- MCExistingLists
INVARIANTS
    RootAgrees
    ContainersOpened
    KeyFileReachable
    SfdiskLines
    MountedAsEntered
CHECK_DEADLOCK FALSE
