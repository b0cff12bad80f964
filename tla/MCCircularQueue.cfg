SPECIFICATION Spec
CONSTANT
    MaxMsg = 5
CHECK_DEADLOCK FALSE
INVARIANTS
    RingIntact
    TakenInOrder
