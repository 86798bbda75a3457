\* Two passes over the partitions, each with two installations of a boot loader.
SPECIFICATION Spec
CONSTANTS
    Devices = {"sda1", "crypt1", "crypt2", "vg-root"}
    Stack <- MCStack
    InitialKeys <- MCInitialKeys
    None = None
    MaxPasses = 2
    MaxMounts = 3
    MaxInstalls = 2
INVARIANTS
    CryptRootUnlocked
    LvmBootPreloaded
    KeyFileUsable
PROPERTIES
    DefaultKept
CHECK_DEADLOCK FALSE
