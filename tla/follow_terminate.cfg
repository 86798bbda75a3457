\* subprocess_terminate is meant for a process that has not finished.
SPECIFICATION Spec
CONSTANTS
    BufSize = 2
    PipeCap = 1
    MaxOut = 2
INVARIANT
    TerminatesItsOwn
CHECK_DEADLOCK FALSE
