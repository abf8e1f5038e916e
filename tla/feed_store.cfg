SPECIFICATION Spec
CONSTANTS
    MaxTx = 4
    MaxCells = 2
    Threshold = 5
    MaxFaults = 2
    MaxCrashes = 2
    Missing = Missing
INVARIANTS
    AnswersAreTrue
    LiveIsDurable
    BackupIsWhole
CHECK_DEADLOCK FALSE
