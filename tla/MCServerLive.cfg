SPECIFICATION PartsSpec
CONSTANTS
    Conn = {c1, c2, c3, c4}
    NoConn = NoConn
    MaxInflight = 2
    Plain = {initial_mgr, ModuleManager}
    MaxBreaks = 2
    Statement = {insert, select}
    Select = {select}
    NULL = NULL
    MaxQueries = 4
    MaxPack = 2
INVARIANTS NeverGivesUp StartInv ListensOnce StmtInv
PROPERTIES Reconnects Listens AllRun Reported
\* start-up ends, and all queries have been submitted and run
CHECK_DEADLOCK FALSE
