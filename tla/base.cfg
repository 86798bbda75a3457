\* Up to three installations of the base with changing disks.
SPECIFICATION Spec
CONSTANT MaxCalls = 3
INVARIANTS
    HookOrder
    HooksForDisks
    ImageReachesRoot
CHECK_DEADLOCK FALSE
