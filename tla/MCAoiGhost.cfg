SPECIFICATION Spec
CONSTANTS
    Entity = {e1, e2}
    FltMax = 100
    World <- GameWorld
    Start <- GameStart
    Step <- GameStep
    Radii = {}
    FirstRadius <- GameFirst
    AoiLimit = 512
    LeaveSeen = TRUE
INVARIANTS
    NoGhost
