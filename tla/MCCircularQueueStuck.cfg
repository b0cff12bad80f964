SPECIFICATION Spec
CONSTANT
    MaxMsg = 3
CHECK_DEADLOCK FALSE
INVARIANT
    NothingStuck
