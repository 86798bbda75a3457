\* Four visits to the disk menus; the live system assembled md1, and md127 with a name.
SPECIFICATION DiskSpec
CONSTANTS
    Disks = {"sda", "sdb", "sdc"}
    Partitions = {"sda1", "sdb1"}
    DiskOf <- MCDiskOf
    Names = {"cryptroot", "crypthome"}
    Passwords = {"pw1", "pw2"}
    Foreign = {1, 127}
    Named = {127}
    VolumeGroups <- MCVolumeGroups
    ForeignPools = {"tank"}
    DatasetPaths <- MCDatasetPaths
    Uncalled = TRUE
    None = None
    MaxVisits = 4
INVARIANTS
    EncryptedAsAsked
    ConfNamesRunning
CHECK_DEADLOCK FALSE
