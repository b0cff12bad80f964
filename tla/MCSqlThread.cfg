SPECIFICATION FairSpec
CONSTANTS
    N = 2
    Key = {0, 1, 2}
    MaxCmd = 4
CHECK_DEADLOCK FALSE
INVARIANTS
    DeletedAfterAll
    SqlInv
PROPERTIES
    KeepsPromise
    CalledBack
