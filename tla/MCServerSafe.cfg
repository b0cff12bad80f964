SPECIFICATION PartsSpec
CONSTANTS
    Timer = {t1, t2}
    NoTimer = NoTimer
    Ms = 4
    Size <- MCSize
    MaxInt = 127
    Delay = {23}
    Count <- MCCount
    PoolSize = 13
    RefillAt = 72
    Handle = {h1, h2}
    Intervals = {1, 3}
    Day = 2
    MaxLoops = 2
    MaxTime = 6
    MaxStep = 4
    TVR_SIZE = 2
    TVN_SIZE = 2
    Elapses = {9}
    AdjustElapses = {9}
    Counts = {0, Forever}
    Forever = Forever
    Budget = 1
    Starts = {29}
    MaxLag = 3
    Short = 4
    HeadLen = 2
    MaxPacks = 3
    MaxBody = 1
    MaxFrames = 3
    MaxFrame = 5
SYMMETRY Symmetry
INVARIANTS
    WheelInv OnTime
    ReusedAfterDestroyed Conserved
    TimersInv LayersInv FramesInv
PROPERTIES InDueOrder
\* the process is gone once Alloc has failed; time and packets are bounded
CHECK_DEADLOCK FALSE
