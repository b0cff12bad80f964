SPECIFICATION Spec
CONSTANTS
    Entity = {e1, e2, e3}
    FltMax = 100
    World <- GameWorld
    Start <- GameStart
    Step <- GameStep
    Radii = {}
    FirstRadius <- GameFirst
    AoiLimit = 512
    LeaveSeen = TRUE
SYMMETRY Symmetry
INVARIANTS
    Consistent
    SearchExact
