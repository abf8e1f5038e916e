SPECIFICATION FairSpec
CONSTANTS
    Task = {t1, t2, t3}
    Key = {1, 2, 3}
    Ancestors <- MCAncestors
    Command <- MCCommand
    LockId = {1, 2}
    NoLock = NoLock
INVARIANT Exclusion
PROPERTY NoStarvation
