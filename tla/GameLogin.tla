----------------------------- MODULE GameLogin ------------------------------
(***************************************************************************)
(* The game server (PlayerMgr) and the account server (Login) joined by    *)
(* the connection of AccountNetClient: requests go out in toAccount,       *)
(* answers come back in fromAccount, both in order, and both are lost with *)
(* the link.  Clients send any request at any time.                        *)
(***************************************************************************)
EXTENDS PlayerMgr

CONSTANTS
    StoredAccount, MaxId    \* of the account server

ASSUME GameLoginAssumption ==
    /\ MaxId \in Nat
    /\ DOMAIN StoredAccount \subseteq Account
    /\ \A a \in DOMAIN StoredAccount : StoredAccount[a] \in Pwd

VARIABLES
    _accMap, _unique_acc, table, inserts, proven,   \* of the account server
    failed                  \* history: the link has failed before

AccountServer == INSTANCE Login

serverVars == <<_accMap, _unique_acc, table, inserts, proven>>
allVars == <<vars, serverVars, failed>>

GameInit ==
    /\ Init
    /\ failed = FALSE
    /\ \E ids \in [DOMAIN StoredAccount -> 1..MaxId - MaxCreate] :
          /\ \A a, b \in DOMAIN StoredAccount : ids[a] = ids[b] => a = b
          /\ AccountServer!LoginInit(
                {[id |-> ids[a], name |-> a, psw |-> StoredAccount[a]] :
                    a \in DOMAIN StoredAccount})

gameOnly == <<link, sessionVars, playerVars, accountVars, linkUp, told>>

GameStep ==
    /\ \/ \E c \in Conn, a \in Account, pwd \in Pwd :
            AccountCheck(c, a, pwd) \/ CreateAccount(c, a, pwd)
       \/ AccountCheckResponse \/ CreateAccountResponse
       \/ \E c \in Conn : \/ \E id \in Player : LoginGame(c, id)
                          \/ CreatePlayer(c) \/ OnDisConnect(c) \/ LastPacks(c)
       \/ \E rows \in SUBSET Player : loadPlayer(rows)
       \/ LinkMade
    /\ UNCHANGED <<serverVars, failed>>

ServerStep ==
    /\ \/ AccountServer!CreateAccount \/ AccountServer!AccountCheck
       \/ AccountServer!ExecuteInsert
    /\ UNCHANGED <<gameOnly, failed>>

LinkFails == LinkLost /\ failed' = TRUE /\ UNCHANGED serverVars

(* The account server is stopped, which the game server notices as a lost  *)
(* link, and is up again before the link is made again.                    *)
ServerRestart == LinkLost /\ AccountServer!Restart /\ failed' = TRUE

GameNext == GameStep \/ ServerStep \/ LinkFails \/ ServerRestart

GameSpec == GameInit /\ [][GameNext]_allVars

(* Both programs keep calling update(), so every pack that has arrived is  *)
(* handled and every queued statement executed.                            *)
GameFairness ==
    /\ WF_allVars(ServerStep)
    /\ WF_allVars((AccountCheckResponse \/ CreateAccountResponse)
                     /\ UNCHANGED <<serverVars, failed>>)

FairGameSpec == GameSpec /\ GameFairness

-----------------------------------------------------------------------------
GameTypeOK ==
    /\ link \in [Conn -> {"up", "late", "gone"}]
    /\ accid \in [Conn -> Account \union {NoAccount}]
    /\ player \in [Conn -> Player \union {0}]
    /\ m_AllPlayerID \subseteq Player
    /\ accEntry \subseteq Account /\ m_AccPlayer \in [Account -> SUBSET Player]
    /\ state \in [Player -> {"none", "offline", "online"}]
    /\ m_pConnect \in [Player -> Conn \union {NoConn}]
    /\ entities \in [Player -> Nat]
    /\ _unique_player \in 1..MaxPlayer + 1
    /\ m_LoginGameIncreament \in 0..MaxCheck
    /\ m_pLogin \in [Increament -> Conn \union {NoConn}]
    /\ m_Creating \in [Account -> Conn \union {NoConn}]
    /\ creates \in 0..MaxCreate
    /\ linkUp \in BOOLEAN /\ failed \in BOOLEAN
    /\ toAccount \in Seq(CheckRequest \union CreateRequest)
    /\ fromAccount \in Seq(CheckResponse \union CreateResponse)
    /\ told \subseteq Conn \X Account \X Conn
    /\ _accMap \in [Account -> Pwd \union {NoPwd}]
    /\ _unique_acc \in 1..MaxId + 1
    /\ table \subseteq AccountServer!Row /\ inserts \in Seq(AccountServer!Row)
    /\ proven \in [Conn -> SUBSET Account]

(* AccountCheckResponse never gives a session for an account to a          *)
(* connection that did not itself send that account's password, however    *)
(* late answers come, links break and numbers are given out.               *)
SessionProven == \A c \in Conn : accid[c] # NoAccount => accid[c] \in proven[c]

(* The player of a session is a player of the session's account: logging   *)
(* in as another account does not carry the old player along.              *)
SessionOwnsPlayer ==
    \A c \in Conn : player[c] # 0 =>
        accid[c] \in accEntry /\ player[c] \in m_AccPlayer[accid[c]]

(* An online player is on a connection that has given the password of the  *)
(* player's account, also when the session has been replaced since.        *)
OnlineByOwner ==
    \A p \in Player : state[p] = "online" =>
        \E c \in Conn, a \in Account :
            m_pConnect[p] = c /\ a \in proven[c] /\ p \in m_AccPlayer[a]

(* A player is in Space 0 once when online and not at all otherwise, and   *)
(* has a connection exactly when online: Broadcast never sends to a null   *)
(* m_pConnect, whichever of two connections logs the player in or out.     *)
OnlineInWorld ==
    \A p \in Player :
        /\ entities[p] = IF state[p] = "online" THEN 1 ELSE 0
        /\ state[p] = "online" <=> m_pConnect[p] # NoConn

(* GetPlayer finds every online player, also one that a second connection  *)
(* has taken over before the first was closed.                             *)
OnlineIndexed == \A p \in Player : state[p] = "online" => p \in m_AllPlayerID

(* The state of a player, its connection, its place in the world and its   *)
(* entry in m_AllPlayerID agree, whichever of two connections logs it in,  *)
(* takes it over or is closed.                                             *)
PlayersAgree == GameTypeOK /\ OnlineInWorld /\ OnlineIndexed

(* No id belongs to two accounts, whatever _unique_player was before the   *)
(* first loadPlayer and however often the players are loaded again.        *)
PlayerIdsUnique ==
    \A a, b \in Account : a # b => m_AccPlayer[a] \intersect m_AccPlayer[b] = {}

(* The rows written and the rows still queued differ in id and in name,    *)
(* also after a restart that lost some of the queue.                       *)
AccountRowsUnique ==
    LET rows == table \union {inserts[i] : i \in DOMAIN inserts}
    IN  \A r, s \in rows : (r.id = s.id \/ r.name = s.name) => r = s

(* Until the link fails, "account created" goes to the connection that     *)
(* asked first, although m_Creating is looked up by name only.             *)
CreateAnswerOwn == ~failed => \A t \in told : t[1] = t[3]

(* Every check is answered, the refused ones too, unless the link fails:   *)
(* no entry stays in m_pLogin.                                             *)
CheckAnswered ==
    \A i \in Increament : m_pLogin[i] # NoConn ~> m_pLogin[i] = NoConn \/ failed
=============================================================================
