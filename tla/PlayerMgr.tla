----------------------------- MODULE PlayerMgr ------------------------------
(***************************************************************************)
(* Sessions and log-ins of the game server: PlayerManager                  *)
(* (hh/hh/PlayerMgr.cpp) and AccountNetClient (hh/hh/AccountNetClient.cpp),*)
(* with the parts of Player and MapManager they change.                    *)
(*                                                                         *)
(* All of it runs on the main thread: one action is one pack, one answer   *)
(* of the account server or one OnDisConnect handled to its end.  What is  *)
(* not under its control is the order: an answer of the account server may *)
(* come after the connection that asked has gone, a client may send again  *)
(* before it is answered, two connections may log in the same player, and  *)
(* the link to the account server may fail with requests in it.            *)
(*                                                                         *)
(* A session of m_AllPlayer is kept as two functions: accid (NoAccount     *)
(* when the connection has no session) and player (0 for nullptr).  The    *)
(* field "by" of a request is history: the connection it was sent for.     *)
(***************************************************************************)
EXTENDS Naturals, Sequences

CONSTANTS
    Conn, NoConn,           \* client connections; the null ConnectPtr
    Account, NoAccount,     \* account names
    Pwd, NoPwd,             \* passwords; NoPwd: the account does not exist
    StoredPlayer,           \* the players loaded at start: id -> account
    MaxPlayer,              \* bound on player ids
    MaxCheck, MaxCreate     \* bounds on account checks and creations

Player == 1..MaxPlayer
Increament == 0..MaxCheck - 1

ASSUME PlayerMgrAssumption ==
    /\ NoConn \notin Conn /\ NoAccount \notin Account /\ NoPwd \notin Pwd
    /\ MaxPlayer \in Nat /\ MaxCheck \in Nat /\ MaxCreate \in Nat
    /\ DOMAIN StoredPlayer \subseteq Player
    /\ \A p \in DOMAIN StoredPlayer : StoredPlayer[p] \in Account

VARIABLES
    link,                   \* "up", "late" (OnDisConnect was called, one
                            \* more update may fire packs), "gone"
    accid, player,          \* m_AllPlayer
    m_AllPlayerID,          \* the ids that GetPlayer finds
    accEntry, m_AccPlayer,  \* which accounts have an entry, and its players
    state, m_pConnect,      \* Player::state and Player::m_pConnect
    entities,               \* how often the player is in Space 0
    _unique_player,
    m_LoginGameIncreament, m_pLogin, m_Creating,
    creates,                \* how many creations were asked for
    linkUp,                 \* AccountNetClient::m_pConnect is set
    toAccount, fromAccount, \* what is under way on that connection
    told                    \* history: conn, account and asker of each
                            \* "account created" sent to a client

sessionVars == <<accid, player, m_AllPlayerID>>
playerVars == <<accEntry, m_AccPlayer, state, m_pConnect, entities,
                _unique_player>>
accountVars == <<m_LoginGameIncreament, m_pLogin, m_Creating, creates>>
wireVars == <<linkUp, toAccount, fromAccount>>
vars == <<link, sessionVars, playerVars, accountVars, wireVars, told>>

CheckRequest == [type : {"check"}, name : Account, pwd : Pwd,
                 increament : Increament, by : Conn]
CreateRequest == [type : {"create"}, name : Account, pwd : Pwd, by : Conn]
CheckResponse == [type : {"checked"}, result : 0..2, name : Account,
                  increament : Increament, by : Conn]
CreateResponse == [type : {"created"}, result : 0..1, name : Account,
                   by : Conn]

(* Mutant: NextId without the + 1. *)
NextIdNotOneMore(rows, u) ==
    CHOOSE m \in 0..MaxPlayer + 1 :
        m \in rows \union {u} /\ \A p \in rows \union {u} : p <= m

(* loadPlayer: one more than the largest id among the rows and u.  The     *)
(* first call finds u uninitialised (Init: any value within the bound).    *)
NextId(rows, u) ==
    1 + CHOOSE m \in 0..MaxPlayer + 1 :
            m \in rows \union {u} /\ \A p \in rows \union {u} : p <= m

Init ==
    /\ link = [c \in Conn |-> "up"]
    /\ accid = [c \in Conn |-> NoAccount] /\ player = [c \in Conn |-> 0]
    /\ m_AllPlayerID = {}
    /\ accEntry = {StoredPlayer[p] : p \in DOMAIN StoredPlayer}
    /\ m_AccPlayer = [a \in Account |->
                        {p \in DOMAIN StoredPlayer : StoredPlayer[p] = a}]
    /\ state = [p \in Player |->
                  IF p \in DOMAIN StoredPlayer THEN "offline" ELSE "none"]
    /\ m_pConnect = [p \in Player |-> NoConn]
    /\ entities = [p \in Player |-> 0]
    /\ \E u \in 0..MaxPlayer - 1 : _unique_player = NextId(DOMAIN StoredPlayer, u)
    /\ m_LoginGameIncreament = 0
    /\ m_pLogin = [i \in Increament |-> NoConn]
    /\ m_Creating = [a \in Account |-> NoConn]
    /\ creates = 0
    /\ linkUp = TRUE /\ toAccount = <<>> /\ fromAccount = <<>>
    /\ told = {}

-----------------------------------------------------------------------------
(* Send without bResend: a request made while there is no link is dropped. *)
SendProtoBuf(m) ==
    toAccount' = IF linkUp THEN Append(toAccount, m) ELSE toAccount

(* Mutant: AccountCheck with m_LoginGameIncreament instead of ++. *)
AccountCheckSameNumber(c, a, pwd) ==
    /\ link[c] # "gone"
    /\ Len(toAccount) < MaxCheck
    /\ SendProtoBuf([type |-> "check", name |-> a, pwd |-> pwd,
                     increament |-> m_LoginGameIncreament, by |-> c])
    /\ m_pLogin' = [m_pLogin EXCEPT ![m_LoginGameIncreament] = c]
    /\ UNCHANGED <<link, sessionVars, playerVars, m_LoginGameIncreament,
                   m_Creating, creates, linkUp, fromAccount, told>>

(* GM_ACCOUNT_CHECK from c. *)
AccountCheck(c, a, pwd) ==
    /\ link[c] # "gone"
    /\ m_LoginGameIncreament < MaxCheck
    /\ SendProtoBuf([type |-> "check", name |-> a, pwd |-> pwd,
                     increament |-> m_LoginGameIncreament, by |-> c])
    /\ m_pLogin' = [m_pLogin EXCEPT ![m_LoginGameIncreament] = c]
    /\ m_LoginGameIncreament' = m_LoginGameIncreament + 1
    /\ UNCHANGED <<link, sessionVars, playerVars, m_Creating, creates, linkUp,
                   fromAccount, told>>

(* Mutant: CreateAccount with m_Creating[name] = conn. *)
CreateAccountReplace(c, a, pwd) ==
    /\ link[c] # "gone"
    /\ creates < MaxCreate
    /\ SendProtoBuf([type |-> "create", name |-> a, pwd |-> pwd, by |-> c])
    /\ m_Creating' = [m_Creating EXCEPT ![a] = c]
    /\ creates' = creates + 1
    /\ UNCHANGED <<link, sessionVars, playerVars, m_LoginGameIncreament,
                   m_pLogin, linkUp, fromAccount, told>>

(* GM_CREATE_ACCOUNT from c.  insert() does not replace an earlier asker. *)
CreateAccount(c, a, pwd) ==
    /\ link[c] # "gone"
    /\ creates < MaxCreate
    /\ SendProtoBuf([type |-> "create", name |-> a, pwd |-> pwd, by |-> c])
    /\ m_Creating' = [m_Creating EXCEPT ![a] = IF @ = NoConn THEN c ELSE @]
    /\ creates' = creates + 1
    /\ UNCHANGED <<link, sessionVars, playerVars, m_LoginGameIncreament,
                   m_pLogin, linkUp, fromAccount, told>>

(* Mutant: AccountCheckResponse without player.player = nullptr. *)
AccountCheckResponseKeep ==
    /\ fromAccount # <<>> /\ Head(fromAccount).type = "checked"
    /\ fromAccount' = Tail(fromAccount)
    /\ LET r == Head(fromAccount)
           c == m_pLogin[r.increament]
       IN  /\ m_pLogin' = [m_pLogin EXCEPT ![r.increament] = NoConn]
           /\ IF c # NoConn /\ r.result = 0
              THEN /\ accid' = [accid EXCEPT ![c] = r.name]
                   /\ accEntry' = accEntry \union {r.name}
              ELSE UNCHANGED <<accid, accEntry>>
    /\ UNCHANGED <<link, player, m_AllPlayerID, m_AccPlayer, state, m_pConnect,
                   entities, _unique_player, m_LoginGameIncreament, m_Creating,
                   creates, linkUp, toAccount, told>>

(* The answer to a check gives the connection a new session, whether or    *)
(* not it has one and whether or not it is still there.                    *)
AccountCheckResponse ==
    /\ fromAccount # <<>> /\ Head(fromAccount).type = "checked"
    /\ fromAccount' = Tail(fromAccount)
    /\ LET r == Head(fromAccount)
           c == m_pLogin[r.increament]
       IN  /\ m_pLogin' = [m_pLogin EXCEPT ![r.increament] = NoConn]
           /\ IF c # NoConn /\ r.result = 0
              THEN /\ accid' = [accid EXCEPT ![c] = r.name]
                   /\ player' = [player EXCEPT ![c] = 0]
                   /\ accEntry' = accEntry \union {r.name}
              ELSE UNCHANGED <<accid, player, accEntry>>
    /\ UNCHANGED <<link, m_AllPlayerID, m_AccPlayer, state, m_pConnect,
                   entities, _unique_player, m_LoginGameIncreament, m_Creating,
                   creates, linkUp, toAccount, told>>

CreateAccountResponse ==
    /\ fromAccount # <<>> /\ Head(fromAccount).type = "created"
    /\ fromAccount' = Tail(fromAccount)
    /\ LET r == Head(fromAccount)
           c == m_Creating[r.name]
       IN  /\ m_Creating' = [m_Creating EXCEPT ![r.name] = NoConn]
           /\ told' = IF c # NoConn /\ r.result = 0
                      THEN told \union {<<c, r.name, r.by>>} ELSE told
    /\ UNCHANGED <<link, sessionVars, playerVars, m_LoginGameIncreament,
                   m_pLogin, creates, linkUp, toAccount>>

-----------------------------------------------------------------------------
(* Mutant: OnPlyaerLogin that adds the entity whatever the state. *)
LogOutAndInTwice(ps, p, c) ==
    /\ state' = [q \in Player |-> IF q = p THEN "online"
                                 ELSE IF q \in ps THEN "offline" ELSE state[q]]
    /\ m_pConnect' = [q \in Player |->
                        IF q = p THEN c
                        ELSE IF q \in ps THEN NoConn ELSE m_pConnect[q]]
    /\ entities' = [q \in Player |->
                      (IF q \in ps THEN entities[q] - 1 ELSE entities[q])
                        + (IF q = p THEN 1 ELSE 0)]

(* Player::OnPlyaerLogout and OnPlyaerLogin, on the set ps of players that *)
(* log out and the player p (0 for none) that then logs in on c.           *)
LogOutAndIn(ps, p, c) ==
    LET left == [q \in Player |-> IF q \in ps THEN "offline" ELSE state[q]]
    IN  /\ state' = [q \in Player |-> IF q = p THEN "online" ELSE left[q]]
        /\ m_pConnect' = [q \in Player |->
                            IF q = p THEN c
                            ELSE IF q \in ps THEN NoConn ELSE m_pConnect[q]]
        /\ entities' =
             [q \in Player |->
                (IF q \in ps THEN entities[q] - 1 ELSE entities[q])
                  + (IF q = p /\ left[q] = "offline" THEN 1 ELSE 0)]

Online(p) == p # 0 /\ state[p] = "online"

(* Mutant: LoginGame that looks the id up in any account. *)
LoginGameAnyAccount(c, id) ==
    /\ link[c] # "gone"
    /\ accid[c] # NoAccount /\ accid[c] \in accEntry
    /\ \E a \in accEntry : id \in m_AccPlayer[a]
    /\ LogOutAndIn({p \in Player : p = player[c] /\ Online(p)}, id, c)
    /\ player' = [player EXCEPT ![c] = id]
    /\ m_AllPlayerID' = m_AllPlayerID \union {id}
    /\ UNCHANGED <<link, accid, accEntry, m_AccPlayer, _unique_player,
                   accountVars, wireVars, told>>

(* GM_LOGIN from c for the player id. *)
LoginGame(c, id) ==
    /\ link[c] # "gone"
    /\ accid[c] # NoAccount /\ accid[c] \in accEntry
    /\ id \in m_AccPlayer[accid[c]]
    /\ LET cur == player[c]
           elsewhere == {d \in Conn : cur # 0 /\ m_pConnect[cur] = d /\ d # c}
       IN  /\ LogOutAndIn({p \in Player : p = cur /\ Online(cur)}, id, c)
           /\ player' = [d \in Conn |->
                           IF d = c THEN id
                           ELSE IF d \in elsewhere THEN 0 ELSE player[d]]
    /\ m_AllPlayerID' = m_AllPlayerID \union {id}
    /\ UNCHANGED <<link, accid, accEntry, m_AccPlayer, _unique_player,
                   accountVars, wireVars, told>>

(* GM_CREATE_PLAYER from c. *)
CreatePlayer(c) ==
    /\ link[c] # "gone"
    /\ accid[c] # NoAccount /\ accid[c] \in accEntry
    /\ _unique_player \in Player
    /\ m_AccPlayer' = [m_AccPlayer EXCEPT ![accid[c]] = @ \union {_unique_player}]
    /\ state' = [state EXCEPT ![_unique_player] = "offline"]
    /\ _unique_player' = _unique_player + 1
    /\ UNCHANGED <<link, sessionVars, accEntry, m_pConnect, entities,
                   accountVars, wireVars, told>>

(* The players of the database are sent again whenever the link to it is   *)
(* made again: those whose insert arrived.  Ids already in an account are  *)
(* not replaced.                                                           *)
loadPlayer(rows) ==
    /\ _unique_player \in Player
    /\ DOMAIN StoredPlayer \subseteq rows
    /\ \A p \in rows : state[p] # "none"
    /\ _unique_player' = NextId(rows, _unique_player)
    /\ accEntry' = accEntry \union
                     {a \in Account : m_AccPlayer[a] \intersect rows # {}}
    /\ UNCHANGED <<link, sessionVars, m_AccPlayer, state, m_pConnect, entities,
                   accountVars, wireVars, told>>

(* Mutant: a player logged in elsewhere is left alone, its id erased. *)
OnDisConnectOwnOnly(c) ==
    /\ link[c] = "up"
    /\ link' = [link EXCEPT ![c] = "late"]
    /\ LogOutAndIn({p \in Player : p = player[c] /\ m_pConnect[p] = c}, 0, c)
    /\ m_AllPlayerID' = m_AllPlayerID \ {player[c]}
    /\ accid' = [accid EXCEPT ![c] = NoAccount]
    /\ player' = [player EXCEPT ![c] = 0]
    /\ UNCHANGED <<accEntry, m_AccPlayer, _unique_player, accountVars, wireVars,
                   told>>

(* Mutant: OnDisConnect without the test of the player's state. *)
OnDisConnectAnyState(c) ==
    /\ link[c] = "up"
    /\ link' = [link EXCEPT ![c] = "late"]
    /\ LogOutAndIn({player[c]} \ {0}, 0, c)
    /\ m_AllPlayerID' = m_AllPlayerID \ {player[c]}
    /\ accid' = [accid EXCEPT ![c] = NoAccount]
    /\ player' = [player EXCEPT ![c] = 0]
    /\ UNCHANGED <<accEntry, m_AccPlayer, _unique_player, accountVars, wireVars,
                   told>>

(* The session goes, and its player logs out if it is online, on whatever  *)
(* connection it is.                                                       *)
OnDisConnect(c) ==
    /\ link[c] = "up"
    /\ link' = [link EXCEPT ![c] = "late"]
    /\ LogOutAndIn({p \in Player : p = player[c] /\ Online(p)}, 0, c)
    /\ m_AllPlayerID' = IF Online(player[c]) THEN m_AllPlayerID \ {player[c]}
                                             ELSE m_AllPlayerID
    /\ accid' = [accid EXCEPT ![c] = NoAccount]
    /\ player' = [player EXCEPT ![c] = 0]
    /\ UNCHANGED <<accEntry, m_AccPlayer, _unique_player, accountVars, wireVars,
                   told>>

(* The update() after OnDisConnect has fired the last packs of c. *)
LastPacks(c) ==
    /\ link[c] = "late"
    /\ link' = [link EXCEPT ![c] = "gone"]
    /\ UNCHANGED <<sessionVars, playerVars, accountVars, wireVars, told>>

(* The link to the account server fails: answers that have been read stay  *)
(* in the packs of NetService and are fired by a later update.             *)
LinkLost ==
    /\ linkUp
    /\ linkUp' = FALSE /\ toAccount' = <<>>
    /\ \E n \in 0..Len(fromAccount) : fromAccount' = SubSeq(fromAccount, 1, n)
    /\ UNCHANGED <<link, sessionVars, playerVars, accountVars, told>>

LinkMade ==
    /\ ~linkUp
    /\ linkUp' = TRUE
    /\ UNCHANGED <<link, sessionVars, playerVars, accountVars, toAccount,
                   fromAccount, told>>
=============================================================================
