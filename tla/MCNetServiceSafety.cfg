SPECIFICATION Spec
CONSTANTS
    Conn = {c1, c2}
    MaxPack = 2
SYMMETRY Symmetry
CHECK_DEADLOCK FALSE
INVARIANTS
    ReportedOnce
    LiveNotClosed
    PacksInOrder
    StopClosesQueued
PROPERTY
    QuietAfterDisConnect
