SPECIFICATION GameSpec
CONSTANTS
    Conn = {c1, c2}
    NoConn = NoConn
    Account <- MCAccount
    NoAccount = "-"
    Pwd <- MCPwd
    NoPwd = "-"
    StoredPlayer <- MCStoredPlayer
    StoredAccount <- MCStoredAccount
    MaxPlayer = 3
    MaxCheck = 3
    MaxCreate = 0
    MaxId = 2
SYMMETRY Symmetry
CHECK_DEADLOCK FALSE
INVARIANTS
    PlayersAgree
    SessionProven
    SessionOwnsPlayer
    OnlineByOwner
    PlayerIdsUnique
