\* Commands that print nothing, that fit the log buffer, and that print more
\* than buffer and pipe hold.
SPECIFICATION FairSpec
CONSTANTS
    BufSize = 2
    PipeCap = 1
    MaxOut = 4
INVARIANTS
    NothingLeft
    LogComplete
PROPERTIES
    ImplementsCommandOnce
    BackReturns
    CommandEnds
CHECK_DEADLOCK FALSE
