SPECIFICATION FairSpec
CONSTANTS
    NumClusters = 2
    Names = {"a", "b"}
    Licensed = {1}
    TrialLimit = 1
    Watcher = Watcher
    Requests = {r1}
    Initial <- MCInitial
    Edits <- MCEdits
    NoRecord = NoRecord
    MaxRestarts = 1
    MaxFaults = 1
INVARIANTS
    TypeOK
    ActiveExists
    LicenseBeforeDatabases
PROPERTIES
    NothingUndone
    RetryHeals
    ReadyDespiteFailures
CHECK_DEADLOCK FALSE
