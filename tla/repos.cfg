\* Failing renames and copies, stops and restarts; writes succeed.
SPECIFICATION ReposSpec
CONSTANTS
    Cpus <- MCCpus
    WritesFail = FALSE
    MaxStarts = 4
INVARIANTS
    NothingLost
    Priority
    TrueMeansListed
PROPERTY
    OnlyAdds
CHECK_DEADLOCK FALSE
