SPECIFICATION FairSpec
CONSTANTS
    CONNECTION_TIMEOUT = 3
    CommandsFail = TRUE
CHECK_DEADLOCK FALSE
INVARIANTS
    BaseFlagMeansFiles
PROPERTIES
    WaitEnds
    LiveUntouched
    BootloaderOnBase
    ChecklistHonest
