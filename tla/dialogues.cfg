\* Ten keys and dialogues.
SPECIFICATION DialoguesSpec
CONSTANTS
    Kernels <- MCKernels
    FsMenu <- MCFsMenu
    Entries = 2
    Names <- MCNames
    None = None
    MaxEvents = 10
PROPERTIES
    KernelsAsChecked
    MountOptsAsChecked
    AnsweredEnds
CHECK_DEADLOCK FALSE
