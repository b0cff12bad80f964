SPECIFICATION Spec
CONSTANTS
    Entity = {e1, e2}
    FltMax = 100
    World <- MCWorld
    Start <- MCStart
    Step <- MCStep
    Radii <- MCRadii
    FirstRadius <- MCFirst
    AoiLimit <- MCLimit
    LeaveSeen = FALSE
SYMMETRY Symmetry
INVARIANTS
    InsideExact
PROPERTY
    AreaSpec
