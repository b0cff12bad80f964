SPECIFICATION Spec
CONSTANTS
    Entity = {e1, e2}
    FltMax = 100
    World <- EdgeWorld
    Start <- EdgeStart
    Step <- GameStep
    Radii = {}
    FirstRadius <- GameFirst
    AoiLimit = 512
    LeaveSeen = FALSE
INVARIANTS
    InsideSeen
