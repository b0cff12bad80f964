SPECIFICATION FairGameSpec
CONSTANTS
    Conn = {c1, c2}
    NoConn = NoConn
    Account <- MCAccount
    NoAccount = "-"
    Pwd <- MCPwd
    NoPwd = "-"
    StoredPlayer <- MCStoredPlayer
    StoredAccount <- MCOneAccount
    MaxPlayer = 1
    MaxCheck = 1
    MaxCreate = 2
    MaxId = 4
CHECK_DEADLOCK FALSE
INVARIANTS
    AccountRowsUnique
    CreateAnswerOwn
PROPERTY
    CheckAnswered
