-------------------------- MODULE GameLoginProofs ---------------------------
(***************************************************************************)
(* Theorems about the game server and the account server (GameLogin), for  *)
(* every number of connections, accounts, players, checks and creations.   *)
(*                                                                         *)
(* The types and the state of the players come first, since logging out    *)
(* takes an entity away that must be there; then the ids of players and    *)
(* accounts, then what is under way between the two servers, and from that *)
(* who may have a session, a player and an answer.                         *)
(***************************************************************************)
EXTENDS GameLogin, WellFoundedInduction, SequenceTheorems, TLAPS

-----------------------------------------------------------------------------
(* A bounded set of numbers has a largest one, so that the CHOOSE of       *)
(* NextId (loadPlayer) and of LastId (loadAcc) is of something that exists.*)
LEMMA LargestExists ==
    ASSUME NEW n \in Nat, NEW S \in SUBSET (0..n), S # {}
    PROVE  \E m \in S : \A x \in S : x <= m
<1> DEFINE U == {u \in Nat : \A x \in S : x <= u}
           R == OpToRel(<, Nat)
<1>1. n \in U
  OBVIOUS
<1>2. PICK u \in U : \A y \in U : <<y, u>> \notin R
  <2>1. IsWellFoundedOn(R, Nat)
    BY NatLessThanWellFounded
  <2>2. U \subseteq Nat /\ U # {}
    BY <1>1
  <2> HIDE DEF U, R
  <2> QED
    BY <2>1, <2>2, WFMin
<1>3. u \in S
  <2>1. SUFFICES ASSUME u \notin S PROVE FALSE
    OBVIOUS
  <2>2. (\A x \in S : x \in Nat /\ x < u) /\ u \in Nat
    BY <2>1
  <2>3. u - 1 \in U
    <3>1. PICK x \in S : TRUE
      OBVIOUS
    <3>2. u - 1 \in Nat
      BY <2>2, <3>1
    <3> QED
      BY <2>2, <3>2
  <2>4. <<u - 1, u>> \in R
    BY <2>3 DEF OpToRel
  <2> QED
    BY <1>2, <2>3, <2>4
<1> QED
  BY <1>3

LEMMA NextIdLarger ==
    ASSUME NEW rows \in SUBSET Player, NEW u \in 0..MaxPlayer
    PROVE  /\ NextId(rows, u) \in 1..MaxPlayer + 1
           /\ u < NextId(rows, u)
           /\ \A p \in rows : p < NextId(rows, u)
<1> DEFINE S == rows \union {u}
           Largest(m) == m \in S /\ \A p \in S : p <= m
           top == CHOOSE m \in 0..MaxPlayer + 1 : Largest(m)
<1>0. MaxPlayer \in Nat
  BY PlayerMgrAssumption
<1>1. S \in SUBSET (0..MaxPlayer) /\ S # {}
  BY <1>0 DEF Player
<1>2. \E m \in 0..MaxPlayer + 1 : Largest(m)
  <2>1. PICK m \in S : \A x \in S : x <= m
    BY <1>0, <1>1, LargestExists
  <2> QED
    BY <1>0, <1>1, <2>1
<1>3. top \in S /\ \A p \in S : p <= top
  <2> HIDE DEF S
  <2> QED
    BY <1>2
<1>4. NextId(rows, u) = 1 + top
  BY DEF NextId
<1> HIDE DEF top
<1> QED
  BY <1>0, <1>1, <1>3, <1>4

LEMMA LastIdLargest ==
    ASSUME NEW rows \in SUBSET AccountServer!Row
    PROVE  /\ AccountServer!LastId(rows) \in 0..MaxId
           /\ \A r \in rows : r.id <= AccountServer!LastId(rows)
<1> DEFINE S == {r.id : r \in rows} \union {0}
           Largest(m) == /\ m = 0 \/ \E r \in rows : r.id = m
                         /\ \A r \in rows : r.id <= m
           top == CHOOSE m \in 0..MaxId : Largest(m)
<1>0. MaxId \in Nat
  BY GameLoginAssumption
<1>1. S \in SUBSET (0..MaxId) /\ S # {}
  BY <1>0 DEF AccountServer!Row
<1>2. \E m \in 0..MaxId : Largest(m)
  <2>1. PICK m \in S : \A x \in S : x <= m
    BY <1>0, <1>1, LargestExists
  <2> QED
    BY <1>1, <2>1
<1>3. top \in 0..MaxId /\ Largest(top)
  BY <1>2
<1>4. AccountServer!LastId(rows) = top
  BY DEF AccountServer!LastId
<1> QED
  BY <1>3, <1>4

(* What happens to a queue: its head is taken, an element is appended, or  *)
(* only a prefix of it survives.                                           *)
LEMMA TakeHead ==
    ASSUME NEW S, NEW s \in Seq(S), s # <<>>
    PROVE  /\ Head(s) \in S /\ Head(s) = s[1] /\ 1 \in DOMAIN s
           /\ Tail(s) \in Seq(S)
           /\ \A i \in DOMAIN Tail(s) : i + 1 \in DOMAIN s /\ Tail(s)[i] = s[i + 1]
           /\ \A i \in DOMAIN s : i # 1 => i - 1 \in DOMAIN Tail(s)
  OBVIOUS

LEMMA AddLast ==
    ASSUME NEW S, NEW s \in Seq(S), NEW e \in S
    PROVE  /\ Append(s, e) \in Seq(S)
           /\ Len(s) + 1 \in DOMAIN Append(s, e)
           /\ Append(s, e)[Len(s) + 1] = e
           /\ \A i \in DOMAIN Append(s, e) : i # Len(s) + 1 => i \in DOMAIN s
           /\ \A i \in DOMAIN s : /\ i \in DOMAIN Append(s, e)
                                  /\ Append(s, e)[i] = s[i] /\ i < Len(s) + 1
  OBVIOUS

LEMMA KeepPrefix ==
    ASSUME NEW S, NEW s \in Seq(S), NEW n \in 0..Len(s)
    PROVE  /\ SubSeq(s, 1, n) \in Seq(S)
           /\ \A i \in DOMAIN SubSeq(s, 1, n) :
                 i \in DOMAIN s /\ SubSeq(s, 1, n)[i] = s[i]
<1>1. n \in Int /\ \A i \in 1..n : s[i] \in S
  OBVIOUS
<1>2. /\ SubSeq(s, 1, n) \in Seq(S)
      /\ Len(SubSeq(s, 1, n)) = IF 1 <= n THEN n - 1 + 1 ELSE 0
      /\ \A i \in 1..n - 1 + 1 : SubSeq(s, 1, n)[i] = s[1 + i - 1]
  BY <1>1, SubSeqProperties
<1> QED
  BY <1>2

-----------------------------------------------------------------------------
(* GameTypeOK, by what changes together. *)
PlayerTypes ==
    /\ link \in [Conn -> {"up", "late", "gone"}]
    /\ accid \in [Conn -> Account \union {NoAccount}]
    /\ player \in [Conn -> Player \union {0}]
    /\ m_AllPlayerID \subseteq Player
    /\ accEntry \subseteq Account /\ m_AccPlayer \in [Account -> SUBSET Player]
    /\ state \in [Player -> {"none", "offline", "online"}]
    /\ m_pConnect \in [Player -> Conn \union {NoConn}]
    /\ entities \in [Player -> Nat]
    /\ _unique_player \in 1..MaxPlayer + 1

WireTypes ==
    /\ m_LoginGameIncreament \in 0..MaxCheck
    /\ m_pLogin \in [Increament -> Conn \union {NoConn}]
    /\ m_Creating \in [Account -> Conn \union {NoConn}]
    /\ creates \in 0..MaxCreate
    /\ linkUp \in BOOLEAN /\ failed \in BOOLEAN
    /\ toAccount \in Seq(CheckRequest \union CreateRequest)
    /\ fromAccount \in Seq(CheckResponse \union CreateResponse)
    /\ told \subseteq Conn \X Account \X Conn

ServerTypes ==
    /\ _accMap \in [Account -> Pwd \union {NoPwd}]
    /\ _unique_acc \in 1..MaxId + 1
    /\ table \subseteq AccountServer!Row /\ inserts \in Seq(AccountServer!Row)
    /\ proven \in [Conn -> SUBSET Account]

LEMMA Types == GameTypeOK <=> PlayerTypes /\ WireTypes /\ ServerTypes
  BY DEF GameTypeOK, PlayerTypes, WireTypes, ServerTypes

(* A message of the queues is a record of the set its type says. *)
LEMMA RequestKinds ==
    ASSUME NEW m \in CheckRequest \union CreateRequest
    PROVE  /\ m.type = "check" => m \in CheckRequest
           /\ m.type = "create" => m \in CreateRequest
           /\ m.type \in {"check", "create"}
  BY DEF CheckRequest, CreateRequest

LEMMA ResponseKinds ==
    ASSUME NEW m \in CheckResponse \union CreateResponse
    PROVE  /\ m.type = "checked" => m \in CheckResponse
           /\ m.type = "created" => m \in CreateResponse
           /\ m.type \in {"checked", "created"}
  BY DEF CheckResponse, CreateResponse

(* Every id in use is below _unique_player, and the players of an account  *)
(* have been loaded or created: what keeps loadPlayer and CreatePlayer     *)
(* from giving an id twice.                                                *)
IdsBelow ==
    /\ \A p \in Player : state[p] # "none" => p < _unique_player
    /\ \A a \in Account : \A p \in m_AccPlayer[a] : state[p] # "none"

PlayerInv ==
    PlayerTypes /\ OnlineInWorld /\ OnlineIndexed /\ IdsBelow /\ PlayerIdsUnique

(* Logging out players that are online and logging in a player that exists *)
(* keeps state, connection and place in the world in step.                 *)
LEMMA LogOutAndInKeeps ==
    ASSUME PlayerTypes, OnlineInWorld, NEW ps \in SUBSET Player,
           \A q \in ps : state[q] = "online",
           NEW p \in Player \union {0}, p # 0 => state[p] # "none",
           NEW c \in Conn, LogOutAndIn(ps, p, c)
    PROVE  /\ state' \in [Player -> {"none", "offline", "online"}]
           /\ m_pConnect' \in [Player -> Conn \union {NoConn}]
           /\ entities' \in [Player -> Nat]
           /\ OnlineInWorld'
           /\ \A q \in Player : state'[q] # "none" <=> state[q] # "none"
           /\ \A q \in Player : state'[q] = "online" =>
                 q = p \/ (state[q] = "online" /\ q \notin ps)
<1> DEFINE left == [q \in Player |-> IF q \in ps THEN "offline" ELSE state[q]]
<1>0. /\ 0 \notin Player /\ NoConn \notin Conn
      /\ state \in [Player -> {"none", "offline", "online"}]
      /\ m_pConnect \in [Player -> Conn \union {NoConn}]
      /\ entities \in [Player -> Nat]
  BY PlayerMgrAssumption DEF PlayerTypes, Player
<1>1. \A q \in Player : entities[q] = IF state[q] = "online" THEN 1 ELSE 0
  BY DEF OnlineInWorld
<1>2. /\ state' = [q \in Player |-> IF q = p THEN "online" ELSE left[q]]
      /\ m_pConnect' = [q \in Player |->
            IF q = p THEN c ELSE IF q \in ps THEN NoConn ELSE m_pConnect[q]]
      /\ entities' = [q \in Player |->
            (IF q \in ps THEN entities[q] - 1 ELSE entities[q])
               + (IF q = p /\ left[q] = "offline" THEN 1 ELSE 0)]
  BY DEF LogOutAndIn
<1>3. \A q \in Player :
         /\ left[q] = IF q \in ps THEN "offline" ELSE state[q]
         /\ state'[q] = IF q = p THEN "online" ELSE left[q]
         /\ entities'[q] = (IF q \in ps THEN entities[q] - 1 ELSE entities[q])
                             + (IF q = p /\ left[q] = "offline" THEN 1 ELSE 0)
         /\ m_pConnect'[q] = IF q = p THEN c
                             ELSE IF q \in ps THEN NoConn ELSE m_pConnect[q]
  BY <1>2
<1>4. \A q \in Player : left[q] \in {"none", "offline", "online"}
  BY <1>0, <1>3
<1> HIDE DEF left
<1>5. \A q \in Player : entities'[q] = IF state'[q] = "online" THEN 1 ELSE 0
  <2> TAKE q \in Player
  <2>1. CASE q = p
    BY <1>0, <1>1, <1>3, <2>1
  <2>2. CASE q # p /\ q \in ps
    BY <1>0, <1>1, <1>3, <2>2
  <2>3. CASE q # p /\ q \notin ps
    BY <1>0, <1>1, <1>3, <2>3
  <2> QED
    BY <2>1, <2>2, <2>3
<1>6. \A q \in Player : state'[q] = "online" <=> m_pConnect'[q] # NoConn
  BY <1>0, <1>3 DEF OnlineInWorld
<1>7. state' \in [Player -> {"none", "offline", "online"}]
  BY <1>2, <1>4
<1>8. m_pConnect' \in [Player -> Conn \union {NoConn}]
  BY <1>0, <1>2
<1>9. entities' \in [Player -> Nat]
  <2>1. \A q \in Player : entities'[q] \in Nat
    BY <1>5
  <2> QED
    BY <1>2, <2>1
<1> QED
  BY <1>0, <1>3, <1>5, <1>6, <1>7, <1>8, <1>9 DEF OnlineInWorld

LEMMA PlayerInit == Init => PlayerInv
<1> SUFFICES ASSUME Init PROVE PlayerInv
  OBVIOUS
<1>0. /\ MaxPlayer \in Nat /\ DOMAIN StoredPlayer \subseteq Player
      /\ \A p \in DOMAIN StoredPlayer : StoredPlayer[p] \in Account
  BY PlayerMgrAssumption
<1>1. /\ _unique_player \in 1..MaxPlayer + 1
      /\ \A p \in DOMAIN StoredPlayer : p < _unique_player
  <2>1. PICK u \in 0..MaxPlayer - 1 : _unique_player = NextId(DOMAIN StoredPlayer, u)
    BY DEF Init
  <2>2. u \in 0..MaxPlayer
    BY <1>0
  <2> QED
    BY <1>0, <2>1, <2>2, NextIdLarger
<1>2. PlayerTypes
  <2>1. accEntry \subseteq Account /\ m_AccPlayer \in [Account -> SUBSET Player]
    BY <1>0 DEF Init
  <2> QED
    BY <1>1, <2>1 DEF Init, PlayerTypes
<1>3. OnlineInWorld /\ OnlineIndexed
  BY DEF Init, OnlineInWorld, OnlineIndexed
<1>4. IdsBelow
  BY <1>0, <1>1 DEF Init, IdsBelow
<1>5. PlayerIdsUnique
  BY DEF Init, PlayerIdsUnique
<1> QED
  BY <1>2, <1>3, <1>4, <1>5 DEF PlayerInv

LEMMA PlayerStep == PlayerInv /\ WireTypes /\ [GameNext]_allVars => PlayerInv'
<1> SUFFICES ASSUME PlayerInv, WireTypes, [GameNext]_allVars PROVE PlayerInv'
  OBVIOUS
<1>0. /\ MaxPlayer \in Nat /\ 0 \notin Player /\ NoConn \notin Conn
      /\ NoAccount \notin Account
  BY PlayerMgrAssumption DEF Player
<1>p. PlayerTypes /\ OnlineInWorld /\ OnlineIndexed /\ IdsBelow /\ PlayerIdsUnique
  BY DEF PlayerInv
<1>1. CASE UNCHANGED <<link, sessionVars, playerVars>>
  BY <1>1, <1>p DEF sessionVars, playerVars, PlayerInv, PlayerTypes,
     OnlineInWorld, OnlineIndexed, IdsBelow, PlayerIdsUnique
<1>2. ASSUME AccountCheckResponse PROVE PlayerInv'
  <2> DEFINE r == Head(fromAccount)
             c == m_pLogin[r.increament]
  <2>1. r \in CheckResponse /\ c \in Conn \union {NoConn}
    <3>1. r \in CheckResponse \union CreateResponse /\ r.type = "checked"
      BY <1>2, TakeHead DEF AccountCheckResponse, WireTypes
    <3>2. r \in CheckResponse
      BY <3>1, ResponseKinds
    <3> QED
      BY <3>2 DEF CheckResponse, WireTypes
  <2>2. /\ accid' \in [Conn -> Account \union {NoAccount}]
        /\ player' \in [Conn -> Player \union {0}] /\ accEntry' \subseteq Account
    <3>1. CASE c # NoConn /\ r.result = 0
      <4>1. /\ accid' = [accid EXCEPT ![c] = r.name]
            /\ player' = [player EXCEPT ![c] = 0]
            /\ accEntry' = accEntry \union {r.name}
        BY <1>2, <3>1 DEF AccountCheckResponse
      <4> QED
        BY <1>p, <2>1, <4>1 DEF PlayerTypes, CheckResponse
    <3>2. CASE ~(c # NoConn /\ r.result = 0)
      BY <1>2, <1>p, <3>2 DEF AccountCheckResponse, PlayerTypes
    <3> QED
      BY <3>1, <3>2
  <2>3. UNCHANGED <<link, m_AllPlayerID, m_AccPlayer, state, m_pConnect,
                    entities, _unique_player>>
    BY <1>2 DEF AccountCheckResponse
  <2>4. PlayerTypes'
    BY <1>p, <2>2, <2>3 DEF PlayerTypes
  <2> QED
    BY <1>p, <2>3, <2>4 DEF PlayerInv, OnlineInWorld, OnlineIndexed, IdsBelow,
       PlayerIdsUnique
<1>3. ASSUME NEW c \in Conn, NEW id \in Player, LoginGame(c, id) PROVE PlayerInv'
  <2> DEFINE ps == {p \in Player : p = player[c] /\ Online(player[c])}
  <2>1. LogOutAndIn(ps, id, c) /\ ps \in SUBSET Player
    BY <1>3 DEF LoginGame
  <2>2. \A q \in ps : state[q] = "online"
    BY DEF Online
  <2>3. accid[c] \in Account /\ id \in m_AccPlayer[accid[c]]
    BY <1>3, <1>p DEF LoginGame, PlayerTypes
  <2>4. id # 0 /\ state[id] # "none"
    BY <1>0, <1>p, <2>3 DEF IdsBelow
  <2> HIDE DEF ps
  <2>5. /\ state' \in [Player -> {"none", "offline", "online"}]
        /\ m_pConnect' \in [Player -> Conn \union {NoConn}]
        /\ entities' \in [Player -> Nat]
        /\ OnlineInWorld'
        /\ \A q \in Player : state'[q] # "none" <=> state[q] # "none"
        /\ \A q \in Player : state'[q] = "online" =>
              q = id \/ (state[q] = "online" /\ q \notin ps)
    BY <1>p, <2>1, <2>2, <2>4, LogOutAndInKeeps
  <2>6. /\ UNCHANGED <<link, accid, accEntry, m_AccPlayer, _unique_player>>
        /\ m_AllPlayerID' = m_AllPlayerID \union {id}
    BY <1>3 DEF LoginGame
  <2>7. player' \in [Conn -> Player \union {0}]
    BY <1>3, <1>p DEF LoginGame, PlayerTypes
  <2>8. PlayerTypes'
    BY <1>p, <2>5, <2>6, <2>7 DEF PlayerTypes
  <2>9. OnlineIndexed'
    BY <1>p, <2>5, <2>6 DEF OnlineIndexed
  <2>10. IdsBelow' /\ PlayerIdsUnique'
    <3>1. IdsBelow'
      BY <1>p, <2>5, <2>6 DEF IdsBelow, PlayerTypes
    <3> QED
      BY <1>p, <2>6, <3>1 DEF PlayerIdsUnique
  <2> QED
    BY <2>5, <2>8, <2>9, <2>10 DEF PlayerInv
<1>4. ASSUME NEW c \in Conn, CreatePlayer(c) PROVE PlayerInv'
  <2> DEFINE u == _unique_player
             b == accid[c]
  <2>1. u \in Player /\ b \in Account /\ u \in Nat /\ u' = u + 1
    BY <1>0, <1>4, <1>p DEF CreatePlayer, PlayerTypes, Player
  <2>2. /\ m_AccPlayer' = [m_AccPlayer EXCEPT ![b] = @ \union {u}]
        /\ state' = [state EXCEPT ![u] = "offline"]
        /\ UNCHANGED <<link, sessionVars, accEntry, m_pConnect, entities>>
    BY <1>4 DEF CreatePlayer
  <2>3. state[u] = "none"
    BY <1>p, <2>1 DEF IdsBelow, PlayerTypes
  <2>4. PlayerTypes'
    <3>1. _unique_player' \in 1..MaxPlayer + 1
      BY <1>0, <2>1 DEF Player
    <3>2. m_AccPlayer' \in [Account -> SUBSET Player]
      BY <1>p, <2>1, <2>2 DEF PlayerTypes
    <3> QED
      BY <1>p, <2>2, <3>1, <3>2 DEF PlayerTypes, sessionVars
  <2>5. /\ \A q \in Player : state'[q] = IF q = u THEN "offline" ELSE state[q]
        /\ \A a \in Account : m_AccPlayer'[a] =
              IF a = b THEN m_AccPlayer[a] \union {u} ELSE m_AccPlayer[a]
    BY <1>p, <2>2 DEF PlayerTypes
  <2>6. OnlineInWorld' /\ OnlineIndexed'
    BY <1>p, <2>2, <2>3, <2>5 DEF OnlineInWorld, OnlineIndexed, sessionVars
  <2>7. IdsBelow'
    <3>1. \A q \in Player : state'[q] # "none" => q < u + 1
      BY <1>0, <1>p, <2>1, <2>5 DEF IdsBelow, Player
    <3>2. \A a \in Account : \A q \in m_AccPlayer'[a] : state'[q] # "none"
      <4> SUFFICES ASSUME NEW a \in Account, NEW q \in m_AccPlayer'[a]
                   PROVE  state'[q] # "none"
        OBVIOUS
      <4>0. q \in Player
        BY <2>4 DEF PlayerTypes
      <4>1. q \in Player /\ (q # u => q \in m_AccPlayer[a])
        <5> HIDE DEF u, b
        <5> QED
          BY <2>5, <4>0
      <4>2. q # u => state[q] # "none"
        BY <1>p, <4>1 DEF IdsBelow
      <4> QED
        BY <2>5, <4>1, <4>2
    <3> QED
      BY <2>1, <3>1, <3>2 DEF IdsBelow
  <2>8. PlayerIdsUnique'
    <3>1. \A a \in Account : u \notin m_AccPlayer[a]
      BY <1>p, <2>3 DEF IdsBelow
    <3>2. SUFFICES ASSUME NEW a \in Account, NEW d \in Account, a # d
                   PROVE  m_AccPlayer'[a] \intersect m_AccPlayer'[d] = {}
      BY DEF PlayerIdsUnique
    <3>3. m_AccPlayer[a] \intersect m_AccPlayer[d] = {}
      BY <1>p, <3>2 DEF PlayerIdsUnique
    <3> HIDE DEF u, b
    <3> QED
      BY <2>5, <3>1, <3>2, <3>3
  <2> QED
    BY <2>4, <2>6, <2>7, <2>8 DEF PlayerInv
<1>5. ASSUME NEW rows \in SUBSET Player, loadPlayer(rows) PROVE PlayerInv'
  <2>1. /\ _unique_player \in 0..MaxPlayer
        /\ _unique_player' = NextId(rows, _unique_player)
    BY <1>0, <1>5 DEF loadPlayer, Player
  <2>2. _unique_player' \in 1..MaxPlayer + 1 /\ _unique_player < _unique_player'
    BY <2>1, NextIdLarger
  <2>3. /\ accEntry' \subseteq Account
        /\ UNCHANGED <<link, sessionVars, m_AccPlayer, state, m_pConnect, entities>>
    BY <1>5, <1>p DEF loadPlayer, PlayerTypes
  <2>4. PlayerTypes' /\ OnlineInWorld' /\ OnlineIndexed' /\ PlayerIdsUnique'
    BY <1>p, <2>2, <2>3 DEF PlayerTypes, OnlineInWorld, OnlineIndexed,
       PlayerIdsUnique, sessionVars
  <2>5. IdsBelow'
    BY <1>0, <1>p, <2>1, <2>2, <2>3 DEF IdsBelow, Player
  <2> QED
    BY <2>4, <2>5 DEF PlayerInv
<1>6. ASSUME NEW c \in Conn, OnDisConnect(c) PROVE PlayerInv'
  <2> DEFINE ps == {p \in Player : p = player[c] /\ Online(p)}
  <2>1. LogOutAndIn(ps, 0, c) /\ ps \in SUBSET Player
    BY <1>6 DEF OnDisConnect
  <2>2. \A q \in ps : state[q] = "online"
    BY DEF Online
  <2>3. \A q \in Player : q = player[c] /\ state[q] = "online" => q \in ps
    BY <1>0 DEF Online
  <2> HIDE DEF ps
  <2>4. /\ state' \in [Player -> {"none", "offline", "online"}]
        /\ m_pConnect' \in [Player -> Conn \union {NoConn}]
        /\ entities' \in [Player -> Nat]
        /\ OnlineInWorld'
        /\ \A q \in Player : state'[q] # "none" <=> state[q] # "none"
        /\ \A q \in Player : state'[q] = "online" =>
              q = 0 \/ (state[q] = "online" /\ q \notin ps)
    BY <1>p, <2>1, <2>2, LogOutAndInKeeps
  <2>5. /\ link' \in [Conn -> {"up", "late", "gone"}]
        /\ accid' \in [Conn -> Account \union {NoAccount}]
        /\ player' \in [Conn -> Player \union {0}]
        /\ m_AllPlayerID' \subseteq m_AllPlayerID
        /\ m_AllPlayerID \subseteq m_AllPlayerID' \union {player[c]}
        /\ UNCHANGED <<accEntry, m_AccPlayer, _unique_player>>
    BY <1>6, <1>p DEF OnDisConnect, PlayerTypes
  <2>6. PlayerTypes'
    BY <1>p, <2>4, <2>5 DEF PlayerTypes
  <2>7. OnlineIndexed'
    BY <1>0, <1>p, <2>3, <2>4, <2>5 DEF OnlineIndexed
  <2>8. IdsBelow' /\ PlayerIdsUnique'
    <3>1. IdsBelow'
      BY <1>p, <2>4, <2>5 DEF IdsBelow, PlayerTypes
    <3> QED
      BY <1>p, <2>5, <3>1 DEF PlayerIdsUnique
  <2> QED
    BY <2>4, <2>6, <2>7, <2>8 DEF PlayerInv
<1>7. ASSUME NEW c \in Conn, LastPacks(c) PROVE PlayerInv'
  <2>1. /\ link' \in [Conn -> {"up", "late", "gone"}]
        /\ UNCHANGED <<sessionVars, playerVars>>
    BY <1>7, <1>p DEF LastPacks, PlayerTypes
  <2> QED
    BY <1>p, <2>1 DEF sessionVars, playerVars, PlayerInv, PlayerTypes,
       OnlineInWorld, OnlineIndexed, IdsBelow, PlayerIdsUnique
<1>8. CASE GameStep
  <2>1. ASSUME NEW c \in Conn, NEW a \in Account, NEW pwd \in Pwd,
               AccountCheck(c, a, pwd) \/ CreateAccount(c, a, pwd)
        PROVE  PlayerInv'
    BY <1>1, <2>1 DEF AccountCheck, CreateAccount
  <2>2. CASE CreateAccountResponse \/ LinkMade
    BY <1>1, <2>2 DEF CreateAccountResponse, LinkMade
  <2> QED
    BY <1>2, <1>3, <1>4, <1>5, <1>6, <1>7, <1>8, <2>1, <2>2 DEF GameStep
<1>9. CASE ServerStep \/ LinkFails \/ ServerRestart \/ UNCHANGED allVars
  BY <1>1, <1>9 DEF ServerStep, gameOnly, LinkFails, ServerRestart, LinkLost,
     allVars, vars
<1> QED
  BY <1>8, <1>9 DEF GameNext

-----------------------------------------------------------------------------
(* The messages that the two servers handle are well formed. *)
LEMMA HeadOfQueues ==
    ASSUME WireTypes
    PROVE  /\ toAccount # <<>> =>
                 /\ Tail(toAccount) \in Seq(CheckRequest \union CreateRequest)
                 /\ Head(toAccount).type = "check" => Head(toAccount) \in CheckRequest
                 /\ Head(toAccount).type = "create" => Head(toAccount) \in CreateRequest
           /\ fromAccount # <<>> =>
                 /\ Tail(fromAccount) \in Seq(CheckResponse \union CreateResponse)
                 /\ Head(fromAccount).type = "checked" =>
                       Head(fromAccount) \in CheckResponse
                 /\ Head(fromAccount).type = "created" =>
                       Head(fromAccount) \in CreateResponse
<1> USE DEF WireTypes
<1>1. ASSUME toAccount # <<>>
      PROVE  /\ Tail(toAccount) \in Seq(CheckRequest \union CreateRequest)
             /\ Head(toAccount) \in CheckRequest \union CreateRequest
  BY <1>1, TakeHead
<1>2. ASSUME fromAccount # <<>>
      PROVE  /\ Tail(fromAccount) \in Seq(CheckResponse \union CreateResponse)
             /\ Head(fromAccount) \in CheckResponse \union CreateResponse
  BY <1>2, TakeHead
<1> QED
  BY <1>1, <1>2, RequestKinds, ResponseKinds

(* What the account server answers, field by field. *)
LEMMA ServerAnswers ==
    ASSUME WireTypes, ServerTypes,
           AccountServer!CreateAccount \/ AccountServer!AccountCheck
    PROVE  /\ toAccount # <<>> /\ toAccount' = Tail(toAccount)
           /\ toAccount' \in Seq(CheckRequest \union CreateRequest)
           /\ \E m \in CheckResponse \union CreateResponse :
                 fromAccount' = Append(fromAccount, m)
           /\ fromAccount' \in Seq(CheckResponse \union CreateResponse)
<1> DEFINE q == Head(toAccount)
<1>1. CASE AccountServer!CreateAccount
  <2> DEFINE result == IF _accMap[q.name] # NoPwd THEN 1 ELSE 0
             m == [type |-> "created", result |-> result,
                   name |-> q.name, by |-> q.by]
  <2>1. /\ toAccount # <<>> /\ q.type = "create" /\ toAccount' = Tail(toAccount)
        /\ fromAccount' = Append(fromAccount, m)
    BY <1>1 DEF AccountServer!CreateAccount
  <2>2. q \in CreateRequest /\ toAccount' \in Seq(CheckRequest \union CreateRequest)
    BY <2>1, HeadOfQueues
  <2>3. result \in 0..1
    OBVIOUS
  <2>4. m \in CreateResponse
    <3> HIDE DEF result
    <3> QED
      BY <2>2, <2>3 DEF CreateRequest, CreateResponse
  <2>5. m \in CheckResponse \union CreateResponse
    BY <2>4
  <2> HIDE DEF m, q
  <2> QED
    BY <2>1, <2>2, <2>5, AddLast DEF WireTypes
<1>2. CASE AccountServer!AccountCheck
  <2> DEFINE result == IF _accMap[q.name] = NoPwd THEN 1
                       ELSE IF q.pwd # _accMap[q.name] THEN 2 ELSE 0
             m == [type |-> "checked", result |-> result, name |-> q.name,
                   increament |-> q.increament, by |-> q.by]
  <2>1. /\ toAccount # <<>> /\ q.type = "check" /\ toAccount' = Tail(toAccount)
        /\ fromAccount' = Append(fromAccount, m)
    BY <1>2 DEF AccountServer!AccountCheck
  <2>2. q \in CheckRequest /\ toAccount' \in Seq(CheckRequest \union CreateRequest)
    BY <2>1, HeadOfQueues
  <2>3. result \in 0..2
    OBVIOUS
  <2>4. m \in CheckResponse
    <3> HIDE DEF result
    <3> QED
      BY <2>2, <2>3 DEF CheckRequest, CheckResponse
  <2>5. m \in CheckResponse \union CreateResponse
    BY <2>4
  <2> HIDE DEF m, q
  <2> QED
    BY <2>1, <2>2, <2>5, AddLast DEF WireTypes
<1> QED
  BY <1>1, <1>2

(* A request of the game server goes to the end of toAccount or nowhere. *)
LEMMA Sends ==
    ASSUME WireTypes, NEW m \in CheckRequest \union CreateRequest, SendProtoBuf(m)
    PROVE  /\ toAccount' \in Seq(CheckRequest \union CreateRequest)
           /\ toAccount' = toAccount \/ toAccount' = Append(toAccount, m)
           /\ linkUp => toAccount' = Append(toAccount, m)
  BY AddLast DEF WireTypes, SendProtoBuf

LEMMA WireStep == WireTypes /\ ServerTypes /\ [GameNext]_allVars => WireTypes'
<1> SUFFICES ASSUME WireTypes, ServerTypes, [GameNext]_allVars PROVE WireTypes'
  OBVIOUS
<1>0. MaxCheck \in Nat /\ MaxCreate \in Nat
  BY PlayerMgrAssumption
<1>1. ASSUME NEW c \in Conn, NEW a \in Account, NEW pwd \in Pwd,
             AccountCheck(c, a, pwd), failed' = failed
      PROVE  WireTypes'
  <2> DEFINE m == [type |-> "check", name |-> a, pwd |-> pwd,
                   increament |-> m_LoginGameIncreament, by |-> c]
  <2>1. m_LoginGameIncreament \in Increament
    BY <1>0, <1>1 DEF AccountCheck, WireTypes, Increament
  <2>2. m \in CheckRequest \union CreateRequest
    BY <2>1 DEF CheckRequest
  <2>3. SendProtoBuf(m)
    BY <1>1 DEF AccountCheck
  <2> HIDE DEF m
  <2>4. toAccount' \in Seq(CheckRequest \union CreateRequest)
    BY <2>2, <2>3, Sends
  <2>5. /\ m_LoginGameIncreament' \in 0..MaxCheck
        /\ m_pLogin' \in [Increament -> Conn \union {NoConn}]
        /\ UNCHANGED <<m_Creating, creates, linkUp, fromAccount, told>>
    BY <1>0, <1>1, <2>1 DEF AccountCheck, WireTypes
  <2> QED
    BY <1>1, <2>4, <2>5 DEF WireTypes
<1>2. ASSUME NEW c \in Conn, NEW a \in Account, NEW pwd \in Pwd,
             CreateAccount(c, a, pwd), failed' = failed
      PROVE  WireTypes'
  <2> DEFINE m == [type |-> "create", name |-> a, pwd |-> pwd, by |-> c]
  <2>1. m \in CheckRequest \union CreateRequest
    BY DEF CreateRequest
  <2>2. SendProtoBuf(m)
    BY <1>2 DEF CreateAccount
  <2> HIDE DEF m
  <2>3. toAccount' \in Seq(CheckRequest \union CreateRequest)
    BY <2>1, <2>2, Sends
  <2>4. /\ creates' \in 0..MaxCreate
        /\ m_Creating' \in [Account -> Conn \union {NoConn}]
        /\ UNCHANGED <<m_LoginGameIncreament, m_pLogin, linkUp, fromAccount, told>>
    BY <1>0, <1>2 DEF CreateAccount, WireTypes
  <2> QED
    BY <1>2, <2>3, <2>4 DEF WireTypes
<1>3. ASSUME AccountCheckResponse, failed' = failed PROVE WireTypes'
  <2>1. fromAccount' \in Seq(CheckResponse \union CreateResponse)
    BY <1>3, HeadOfQueues DEF AccountCheckResponse
  <2>2. /\ m_pLogin' \in [Increament -> Conn \union {NoConn}]
        /\ UNCHANGED <<m_LoginGameIncreament, m_Creating, creates, linkUp,
                       toAccount, told>>
    BY <1>3 DEF AccountCheckResponse, WireTypes
  <2> QED
    BY <1>3, <2>1, <2>2 DEF WireTypes
<1>4. ASSUME CreateAccountResponse, failed' = failed PROVE WireTypes'
  <2>1. /\ fromAccount' \in Seq(CheckResponse \union CreateResponse)
        /\ Head(fromAccount) \in CreateResponse
    BY <1>4, HeadOfQueues DEF CreateAccountResponse
  <2>2. /\ m_Creating' \in [Account -> Conn \union {NoConn}]
        /\ UNCHANGED <<m_LoginGameIncreament, m_pLogin, creates, linkUp, toAccount>>
    BY <1>4 DEF CreateAccountResponse, WireTypes
  <2>3. told' \subseteq Conn \X Account \X Conn
    <3> DEFINE r == Head(fromAccount)
               c == m_Creating[r.name]
    <3>1. r.name \in Account /\ r.by \in Conn /\ c \in Conn \union {NoConn}
      BY <2>1 DEF CreateResponse, WireTypes
    <3>2. told' = IF c # NoConn /\ r.result = 0
                  THEN told \union {<<c, r.name, r.by>>} ELSE told
      BY <1>4 DEF CreateAccountResponse
    <3> HIDE DEF c, r
    <3> QED
      BY <3>1, <3>2 DEF WireTypes
  <2> QED
    BY <1>4, <2>1, <2>2, <2>3 DEF WireTypes
<1>5. ASSUME UNCHANGED <<accountVars, wireVars, told, failed>> PROVE WireTypes'
  BY <1>5 DEF WireTypes, accountVars, wireVars
<1>6. ASSUME LinkMade, failed' = failed PROVE WireTypes'
  BY <1>6 DEF LinkMade, WireTypes, accountVars
<1>7. ASSUME LinkLost, failed' = TRUE PROVE WireTypes'
  <2>1. PICK n \in 0..Len(fromAccount) : fromAccount' = SubSeq(fromAccount, 1, n)
    BY <1>7 DEF LinkLost
  <2>2. fromAccount' \in Seq(CheckResponse \union CreateResponse)
    BY <2>1, KeepPrefix DEF WireTypes
  <2>3. /\ linkUp' = FALSE /\ toAccount' = <<>>
        /\ UNCHANGED <<accountVars, told>>
    BY <1>7 DEF LinkLost
  <2>4. linkUp' \in BOOLEAN /\ failed' \in BOOLEAN
    BY <1>7, <2>3
  <2>5. toAccount' \in Seq(CheckRequest \union CreateRequest)
    BY <2>3
  <2>6. UNCHANGED <<m_LoginGameIncreament, m_pLogin, m_Creating, creates, told>>
    BY <2>3 DEF accountVars
  <2> QED
    BY <2>2, <2>4, <2>5, <2>6 DEF WireTypes
<1>8. CASE GameStep
  <2>1. failed' = failed
    BY <1>8 DEF GameStep
  <2>2. ASSUME NEW c \in Conn, \/ \E id \in Player : LoginGame(c, id)
                               \/ CreatePlayer(c) \/ OnDisConnect(c) \/ LastPacks(c)
        PROVE  WireTypes'
    BY <1>5, <2>1, <2>2 DEF LoginGame, CreatePlayer, OnDisConnect, LastPacks
  <2>3. ASSUME NEW rows \in SUBSET Player, loadPlayer(rows) PROVE WireTypes'
    BY <1>5, <2>1, <2>3 DEF loadPlayer
  <2> QED
    BY <1>1, <1>2, <1>3, <1>4, <1>6, <1>8, <2>1, <2>2, <2>3 DEF GameStep
<1>9. CASE ServerStep
  <2>1. UNCHANGED <<gameOnly, failed>>
    BY <1>9 DEF ServerStep
  <2>2. CASE AccountServer!CreateAccount \/ AccountServer!AccountCheck
    BY <2>1, <2>2, ServerAnswers DEF WireTypes, gameOnly, accountVars
  <2>3. CASE AccountServer!ExecuteInsert
    BY <1>5, <2>1, <2>3 DEF AccountServer!ExecuteInsert, gameOnly, wireVars
  <2> QED
    BY <1>9, <2>2, <2>3 DEF ServerStep
<1>10. CASE LinkFails \/ ServerRestart
  BY <1>7, <1>10 DEF LinkFails, ServerRestart
<1>11. CASE UNCHANGED allVars
  BY <1>5, <1>11 DEF allVars, vars
<1> QED
  BY <1>8, <1>9, <1>10, <1>11 DEF GameNext

-----------------------------------------------------------------------------
(* The rows of the account table, the written and the queued ones. *)
Rows == table \union {inserts[i] : i \in DOMAIN inserts}

(* Every row is below _unique_acc and its name is in _accMap: what keeps   *)
(* CreateAccount of the account server from using an id or a name twice.   *)
RowsBelow == \A r \in Rows : r.id < _unique_acc /\ _accMap[r.name] # NoPwd

ServerInv == ServerTypes /\ RowsBelow /\ AccountRowsUnique

LEMMA ServerInit == GameInit => ServerInv
<1> SUFFICES ASSUME GameInit PROVE ServerInv
  OBVIOUS
<1>0. /\ MaxId \in Nat /\ MaxCreate \in Nat /\ NoPwd \notin Pwd
      /\ DOMAIN StoredAccount \subseteq Account
      /\ \A a \in DOMAIN StoredAccount : StoredAccount[a] \in Pwd
  BY PlayerMgrAssumption, GameLoginAssumption
<1> DEFINE RowOf(ids, a) == [id |-> ids[a], name |-> a, psw |-> StoredAccount[a]]
<1>1. PICK ids \in [DOMAIN StoredAccount -> 1..MaxId - MaxCreate] :
         /\ \A a, b \in DOMAIN StoredAccount : ids[a] = ids[b] => a = b
         /\ AccountServer!LoginInit({RowOf(ids, a) : a \in DOMAIN StoredAccount})
  BY DEF GameInit
<1> DEFINE rows == {RowOf(ids, a) : a \in DOMAIN StoredAccount}
<1>2. rows \in SUBSET AccountServer!Row
  BY <1>0, <1>1 DEF AccountServer!Row
<1>3. /\ table = rows /\ inserts = <<>>
      /\ _accMap = [a \in Account |-> IF a \in DOMAIN StoredAccount
                                      THEN StoredAccount[a] ELSE NoPwd]
      /\ _unique_acc = AccountServer!LastId(rows) + 1
      /\ proven = [c \in Conn |-> {}]
  BY <1>1 DEF AccountServer!LoginInit
<1>4. /\ AccountServer!LastId(rows) \in 0..MaxId
      /\ \A r \in rows : r.id <= AccountServer!LastId(rows)
  BY <1>2, LastIdLargest
<1>5. Rows = rows
  BY <1>3 DEF Rows
<1>6. ServerTypes
  <2>1. _unique_acc \in 1..MaxId + 1
    BY <1>0, <1>3, <1>4
  <2>2. _accMap \in [Account -> Pwd \union {NoPwd}]
    BY <1>0, <1>3
  <2>3. /\ table \subseteq AccountServer!Row /\ inserts \in Seq(AccountServer!Row)
        /\ proven \in [Conn -> SUBSET Account]
    BY <1>2, <1>3
  <2> QED
    BY <2>1, <2>2, <2>3 DEF ServerTypes
<1>7. RowsBelow
  <2>1. SUFFICES ASSUME NEW r \in rows
                 PROVE  r.id < _unique_acc /\ _accMap[r.name] # NoPwd
    BY <1>5 DEF RowsBelow
  <2>2. r.id \in Nat /\ r.id < _unique_acc
    BY <1>0, <1>2, <1>3, <1>4 DEF AccountServer!Row
  <2>3. r.name \in DOMAIN StoredAccount
    OBVIOUS
  <2> QED
    BY <1>0, <1>3, <2>2, <2>3
<1>8. AccountRowsUnique
  <2>1. \A r, s \in rows : (r.id = s.id \/ r.name = s.name) => r = s
    BY <1>1
  <2> QED
    BY <1>3, <2>1 DEF AccountRowsUnique
<1> QED
  BY <1>6, <1>7, <1>8 DEF ServerInv

(* A row that is gone or has moved from the queue to the table does no     *)
(* harm to either.                                                         *)
LEMMA FewerRows ==
    ASSUME ServerInv, Rows' \subseteq Rows
    PROVE  /\ AccountRowsUnique'
           /\ UNCHANGED <<_accMap, _unique_acc>> => RowsBelow'
<1>1. \A r, s \in Rows : (r.id = s.id \/ r.name = s.name) => r = s
  BY DEF ServerInv, AccountRowsUnique, Rows
<1>2. AccountRowsUnique'
  BY <1>1 DEF AccountRowsUnique, Rows
<1> QED
  BY <1>2 DEF ServerInv, RowsBelow

LEMMA ServerStepInv == WireTypes /\ ServerInv /\ [GameNext]_allVars => ServerInv'
<1> SUFFICES ASSUME WireTypes, ServerInv, [GameNext]_allVars PROVE ServerInv'
  OBVIOUS
<1>0. MaxId \in Nat /\ NoPwd \notin Pwd
  BY PlayerMgrAssumption, GameLoginAssumption
<1>s. ServerTypes /\ RowsBelow /\ AccountRowsUnique
  BY DEF ServerInv
<1>1. ASSUME UNCHANGED serverVars PROVE ServerInv'
  BY <1>1 DEF serverVars, ServerInv, ServerTypes, RowsBelow, Rows,
     AccountRowsUnique
<1>2. ASSUME AccountServer!CreateAccount PROVE ServerInv'
  <2> DEFINE q == Head(toAccount)
  <2>1. q \in CreateRequest
    BY <1>2, HeadOfQueues DEF AccountServer!CreateAccount
  <2>2. q.name \in Account /\ q.pwd \in Pwd
    BY <2>1 DEF CreateRequest
  <2>3. CASE _accMap[q.name] # NoPwd
    BY <1>1, <1>2, <2>3 DEF AccountServer!CreateAccount, serverVars
  <2>4. CASE _accMap[q.name] = NoPwd
    <3> DEFINE row == [id |-> _unique_acc, name |-> q.name, psw |-> q.pwd]
    <3>1. /\ _unique_acc <= MaxId
          /\ _accMap' = [_accMap EXCEPT ![q.name] = q.pwd]
          /\ inserts' = Append(inserts, row)
          /\ _unique_acc' = _unique_acc + 1
          /\ UNCHANGED <<table, proven>>
      BY <1>2, <2>4 DEF AccountServer!CreateAccount
    <3>2. row \in AccountServer!Row /\ row.id = _unique_acc /\ row.name = q.name
      BY <1>0, <1>s, <2>2, <3>1 DEF AccountServer!Row, ServerTypes
    <3> HIDE DEF q
    <3>3. ServerTypes'
      <4>1. _unique_acc' \in 1..MaxId + 1
        BY <1>0, <1>s, <3>1 DEF ServerTypes
      <4>2. _accMap' \in [Account -> Pwd \union {NoPwd}]
        BY <1>s, <2>2, <3>1 DEF ServerTypes
      <4>3. inserts' \in Seq(AccountServer!Row)
        BY <1>s, <3>1, <3>2, AddLast DEF ServerTypes
      <4> QED
        BY <1>s, <3>1, <4>1, <4>2, <4>3 DEF ServerTypes
    <3> HIDE DEF row
    <3>4. Rows' \subseteq Rows \union {row}
      <4>1. \A i \in DOMAIN inserts' : inserts'[i] \in Rows \union {row}
        <5>1. inserts \in Seq(AccountServer!Row)
          BY <1>s DEF ServerTypes
        <5> QED
          BY <3>1, <3>2, <5>1, AddLast DEF Rows
      <4> QED
        BY <3>1, <4>1 DEF Rows
    <3>5. \A r \in Rows : r \in AccountServer!Row
      BY <1>s DEF ServerTypes, Rows
    <3>6. \A r \in Rows : r.id # row.id /\ r.name # row.name
      BY <1>0, <1>s, <2>4, <3>2, <3>5 DEF RowsBelow, ServerTypes, AccountServer!Row
    <3>7. RowsBelow'
      <4> SUFFICES ASSUME NEW r \in Rows'
                   PROVE  r.id < _unique_acc' /\ _accMap'[r.name] # NoPwd
        BY DEF RowsBelow
      <4>1. CASE r = row
        BY <1>0, <1>s, <2>2, <3>1, <3>2, <4>1 DEF ServerTypes
      <4>2. CASE r \in Rows
        <5>1. /\ r.id < _unique_acc /\ _accMap[r.name] # NoPwd
              /\ r.id \in Nat /\ r.name \in Account
          BY <1>s, <3>5, <4>2 DEF RowsBelow, AccountServer!Row
        <5> QED
          BY <1>0, <1>s, <2>2, <3>1, <5>1 DEF ServerTypes
      <4> QED
        BY <3>4, <4>1, <4>2
    <3>8. AccountRowsUnique'
      <4>1. \A r, s \in Rows : (r.id = s.id \/ r.name = s.name) => r = s
        BY <1>s DEF AccountRowsUnique, Rows
      <4>2. \A r, s \in Rows' : (r.id = s.id \/ r.name = s.name) => r = s
        BY <3>4, <3>6, <4>1
      <4> QED
        BY <4>2 DEF AccountRowsUnique, Rows
    <3> QED
      BY <3>3, <3>7, <3>8 DEF ServerInv
  <2> QED
    BY <2>3, <2>4
<1>3. ASSUME AccountServer!AccountCheck PROVE ServerInv'
  <2>1. Head(toAccount) \in CheckRequest
    BY <1>3, HeadOfQueues DEF AccountServer!AccountCheck
  <2>2. proven' \in [Conn -> SUBSET Account]
    BY <1>3, <1>s, <2>1 DEF AccountServer!AccountCheck, ServerTypes, CheckRequest
  <2>3. UNCHANGED <<_accMap, _unique_acc, table, inserts>>
    BY <1>3 DEF AccountServer!AccountCheck
  <2> QED
    BY <1>s, <2>2, <2>3 DEF ServerInv, ServerTypes, RowsBelow, Rows,
       AccountRowsUnique
<1>4. ASSUME AccountServer!ExecuteInsert PROVE ServerInv'
  <2>1. /\ inserts # <<>> /\ inserts' = Tail(inserts)
        /\ table' = table \union {Head(inserts)}
        /\ UNCHANGED <<_accMap, _unique_acc, proven>>
    BY <1>4 DEF AccountServer!ExecuteInsert
  <2>2. inserts \in Seq(AccountServer!Row)
    BY <1>s DEF ServerTypes
  <2>3. /\ Head(inserts) \in AccountServer!Row /\ Head(inserts) = inserts[1]
        /\ 1 \in DOMAIN inserts /\ inserts' \in Seq(AccountServer!Row)
        /\ \A i \in DOMAIN inserts' :
              i + 1 \in DOMAIN inserts /\ inserts'[i] = inserts[i + 1]
    BY <2>1, <2>2, TakeHead
  <2>4. Rows' \subseteq Rows
    BY <2>1, <2>3 DEF Rows
  <2>5. RowsBelow' /\ AccountRowsUnique'
    BY <2>1, <2>4, FewerRows
  <2> QED
    BY <1>s, <2>1, <2>3, <2>5 DEF ServerInv, ServerTypes
<1>5. ASSUME AccountServer!Restart PROVE ServerInv'
  <2>1. /\ _accMap' = [a \in Account |->
              IF \E r \in table : r.name = a
              THEN (CHOOSE r \in table : r.name = a).psw ELSE NoPwd]
        /\ _unique_acc' = AccountServer!LastId(table) + 1
        /\ inserts' = <<>> /\ UNCHANGED <<table, proven>>
    BY <1>5 DEF AccountServer!Restart, AccountServer!Load
  <2>2. table \in SUBSET AccountServer!Row
    BY <1>s DEF ServerTypes
  <2>3. /\ AccountServer!LastId(table) \in 0..MaxId
        /\ \A r \in table : r.id <= AccountServer!LastId(table)
    BY <2>2, LastIdLargest
  <2>4. \A a \in Account : (\E r \in table : r.name = a) => _accMap'[a] \in Pwd
    <3> SUFFICES ASSUME NEW a \in Account, \E r \in table : r.name = a
                 PROVE  _accMap'[a] \in Pwd
      OBVIOUS
    <3>1. (CHOOSE r \in table : r.name = a) \in table
      OBVIOUS
    <3> QED
      BY <2>1, <2>2, <3>1 DEF AccountServer!Row
  <2>5. ServerTypes'
    <3>1. _unique_acc' \in 1..MaxId + 1
      BY <1>0, <2>1, <2>3
    <3>2. _accMap' \in [Account -> Pwd \union {NoPwd}]
      BY <2>1, <2>4
    <3>3. inserts' \in Seq(AccountServer!Row)
      BY <2>1
    <3> QED
      BY <1>s, <2>1, <3>1, <3>2, <3>3 DEF ServerTypes
  <2>6. Rows' = table /\ Rows' \subseteq Rows
    BY <2>1 DEF Rows
  <2>7. RowsBelow'
    <3> SUFFICES ASSUME NEW r \in table
                 PROVE  r.id < _unique_acc' /\ _accMap'[r.name] # NoPwd
      BY <2>6 DEF RowsBelow
    <3>1. r.id \in Nat /\ r.name \in Account
      BY <2>2 DEF AccountServer!Row
    <3>2. r.id < _unique_acc'
      BY <2>1, <2>3, <3>1
    <3> QED
      BY <1>0, <2>4, <3>1, <3>2
  <2>8. AccountRowsUnique'
    BY <2>6, FewerRows
  <2> QED
    BY <2>5, <2>7, <2>8 DEF ServerInv
<1>6. CASE GameStep \/ LinkFails \/ UNCHANGED allVars
  BY <1>1, <1>6 DEF GameStep, LinkFails, allVars
<1>7. CASE ServerStep
  BY <1>2, <1>3, <1>4, <1>7 DEF ServerStep
<1>8. CASE ServerRestart
  BY <1>5, <1>8 DEF ServerRestart
<1> QED
  BY <1>6, <1>7, <1>8 DEF GameNext

-----------------------------------------------------------------------------
Elems(s) == {s[i] : i \in DOMAIN s}

LEMMA TakeElems ==
    ASSUME NEW S, NEW s \in Seq(S), s # <<>>
    PROVE  Head(s) \in Elems(s) /\ Elems(Tail(s)) \subseteq Elems(s)
  BY TakeHead DEF Elems

LEMMA AddElems ==
    ASSUME NEW S, NEW s \in Seq(S), NEW e \in S
    PROVE  Elems(Append(s, e)) = Elems(s) \union {e}
<1>1. Append(s, e) \in Seq(S)
  BY AddLast
<1>2. Elems(Append(s, e)) \subseteq Elems(s) \union {e}
  BY AddLast DEF Elems
<1>3. Elems(s) \subseteq Elems(Append(s, e))
  BY AddLast DEF Elems
<1>4. e \in Elems(Append(s, e))
  BY AddLast DEF Elems
<1> QED
  BY <1>2, <1>3, <1>4

LEMMA PrefixElems ==
    ASSUME NEW S, NEW s \in Seq(S), NEW n \in 0..Len(s)
    PROVE  Elems(SubSeq(s, 1, n)) \subseteq Elems(s)
  BY KeepPrefix DEF Elems

(* The number of a check under way has been given out, and m_pLogin has    *)
(* the connection that sent the check under it, or nothing any more.       *)
NumberOwn(m) ==
    /\ m.increament < m_LoginGameIncreament
    /\ m_pLogin[m.increament] \in {NoConn, m.by}

(* A good answer is to a connection that gave the account's password. *)
GoodIfProven(m) == m.result = 0 => m.name \in proven[m.by]

AnswersMatch ==
    /\ \A m \in Elems(toAccount) : m.type = "check" => NumberOwn(m)
    /\ \A m \in Elems(fromAccount) :
          m.type = "checked" => NumberOwn(m) /\ GoodIfProven(m)

(* No step takes a number that is under way away from its connection: the  *)
(* counter has passed it, and an answer only empties its entry.            *)
LEMMA NumberKept ==
    ASSUME WireTypes, [GameNext]_allVars, NEW m, m.increament \in Increament,
           NumberOwn(m)
    PROVE  NumberOwn(m)'
<1>0. MaxCheck \in Nat
  BY PlayerMgrAssumption
<1>1. CASE UNCHANGED <<m_LoginGameIncreament, m_pLogin>>
  BY <1>1 DEF NumberOwn
<1>2. ASSUME NEW c \in Conn, NEW a \in Account, NEW pwd \in Pwd,
             AccountCheck(c, a, pwd)
      PROVE  NumberOwn(m)'
  <2>1. /\ m_pLogin' = [m_pLogin EXCEPT ![m_LoginGameIncreament] = c]
        /\ m_LoginGameIncreament' = m_LoginGameIncreament + 1
    BY <1>2 DEF AccountCheck
  <2>2. m_LoginGameIncreament \in Nat /\ m.increament \in Nat
    BY <1>0 DEF WireTypes, Increament
  <2>3. m_pLogin'[m.increament] = m_pLogin[m.increament]
    BY <2>1, <2>2 DEF NumberOwn, WireTypes
  <2> QED
    BY <2>1, <2>2, <2>3 DEF NumberOwn
<1>3. ASSUME AccountCheckResponse PROVE NumberOwn(m)'
  <2>1. m_LoginGameIncreament' = m_LoginGameIncreament
    BY <1>3 DEF AccountCheckResponse
  <2>2. m_pLogin'[m.increament] \in {NoConn, m_pLogin[m.increament]}
    BY <1>3 DEF AccountCheckResponse, WireTypes
  <2> QED
    BY <2>1, <2>2 DEF NumberOwn
<1>4. CASE GameStep
  <2>1. ASSUME NEW c \in Conn, NEW a \in Account, NEW pwd \in Pwd,
               CreateAccount(c, a, pwd)
        PROVE  NumberOwn(m)'
    BY <1>1, <2>1 DEF CreateAccount
  <2>2. CASE CreateAccountResponse \/ LinkMade
    BY <1>1, <2>2 DEF CreateAccountResponse, LinkMade, accountVars
  <2>3. ASSUME NEW c \in Conn, \/ \E id \in Player : LoginGame(c, id)
                               \/ CreatePlayer(c) \/ OnDisConnect(c) \/ LastPacks(c)
        PROVE  NumberOwn(m)'
    BY <1>1, <2>3 DEF LoginGame, CreatePlayer, OnDisConnect, LastPacks, accountVars
  <2>4. ASSUME NEW rows \in SUBSET Player, loadPlayer(rows) PROVE NumberOwn(m)'
    BY <1>1, <2>4 DEF loadPlayer, accountVars
  <2> QED
    BY <1>2, <1>3, <1>4, <2>1, <2>2, <2>3, <2>4 DEF GameStep
<1>5. CASE ServerStep \/ LinkFails \/ ServerRestart \/ UNCHANGED allVars
  BY <1>1, <1>5 DEF ServerStep, gameOnly, LinkFails, ServerRestart, LinkLost,
     allVars, vars, accountVars
<1> QED
  BY <1>4, <1>5 DEF GameNext

(* What a connection has proven stays proven. *)
LEMMA ProvenGrows ==
    ASSUME WireTypes, ServerTypes, [GameNext]_allVars
    PROVE  \A c \in Conn : proven[c] \subseteq proven'[c]
<1>1. CASE proven' = proven
  BY <1>1
<1>2. CASE AccountServer!AccountCheck
  <2>1. Head(toAccount) \in CheckRequest
    BY <1>2, HeadOfQueues DEF AccountServer!AccountCheck
  <2> QED
    BY <1>2, <2>1 DEF AccountServer!AccountCheck, ServerTypes, CheckRequest
<1>3. CASE GameStep \/ LinkFails \/ ServerRestart \/ UNCHANGED allVars
  BY <1>1, <1>3 DEF GameStep, LinkFails, ServerRestart, AccountServer!Restart,
     allVars, serverVars
<1>4. CASE ServerStep
  BY <1>1, <1>2, <1>4 DEF ServerStep, AccountServer!CreateAccount,
     AccountServer!ExecuteInsert
<1> QED
  BY <1>3, <1>4 DEF GameNext

(* What is under way after a step was under way before, except a request   *)
(* just sent and an answer just given.                                     *)
LEMMA AnswersStep ==
    WireTypes /\ ServerTypes /\ AnswersMatch /\ [GameNext]_allVars => AnswersMatch'
<1> SUFFICES ASSUME WireTypes, ServerTypes, AnswersMatch, [GameNext]_allVars
             PROVE  AnswersMatch'
  OBVIOUS
<1> DEFINE Req == CheckRequest \union CreateRequest
           Res == CheckResponse \union CreateResponse
<1>0. toAccount \in Seq(Req) /\ fromAccount \in Seq(Res) /\ MaxCheck \in Nat
  BY PlayerMgrAssumption DEF WireTypes
<1>1. \A m \in Elems(toAccount) : m.type = "check" => m \in CheckRequest
  <2>1. Elems(toAccount) \subseteq Req
    BY <1>0 DEF Elems
  <2> QED
    BY <2>1, RequestKinds
<1>2. \A m \in Elems(fromAccount) : m.type = "checked" => m \in CheckResponse
  <2>1. Elems(fromAccount) \subseteq Res
    BY <1>0 DEF Elems
  <2> QED
    BY <2>1, ResponseKinds
<1>3. \A m \in Elems(toAccount) : m.type = "check" => NumberOwn(m)'
  <2> SUFFICES ASSUME NEW m \in Elems(toAccount), m.type = "check"
               PROVE  NumberOwn(m)'
    OBVIOUS
  <2>1. m.increament \in Increament /\ NumberOwn(m)
    BY <1>1 DEF CheckRequest, AnswersMatch
  <2> QED
    BY <2>1, NumberKept
<1>4. \A m \in Elems(fromAccount) :
         m.type = "checked" => NumberOwn(m)' /\ GoodIfProven(m)'
  <2> SUFFICES ASSUME NEW m \in Elems(fromAccount), m.type = "checked"
               PROVE  NumberOwn(m)' /\ GoodIfProven(m)'
    OBVIOUS
  <2>1. /\ m.increament \in Increament /\ m.by \in Conn
        /\ NumberOwn(m) /\ GoodIfProven(m)
    BY <1>2 DEF CheckResponse, AnswersMatch
  <2>2. NumberOwn(m)'
    BY <2>1, NumberKept
  <2>3. GoodIfProven(m)'
    BY <2>1, ProvenGrows DEF GoodIfProven
  <2> QED
    BY <2>2, <2>3
<1>5. ASSUME Elems(toAccount') \subseteq Elems(toAccount),
             Elems(fromAccount') \subseteq Elems(fromAccount)
      PROVE  AnswersMatch'
  BY <1>3, <1>4, <1>5 DEF AnswersMatch
<1>6. ASSUME NEW c \in Conn, NEW a \in Account, NEW pwd \in Pwd,
             AccountCheck(c, a, pwd)
      PROVE  AnswersMatch'
  <2>0. PICK m : m = [type |-> "check", name |-> a, pwd |-> pwd,
                      increament |-> m_LoginGameIncreament, by |-> c]
    OBVIOUS
  <2>1. m_LoginGameIncreament \in Increament
    BY <1>0, <1>6 DEF AccountCheck, WireTypes, Increament
  <2>2. m \in Req
    BY <2>0, <2>1 DEF CheckRequest
  <2>3. NumberOwn(m)'
    BY <1>0, <1>6, <2>0, <2>1 DEF AccountCheck, NumberOwn, WireTypes, Increament
  <2>4. SendProtoBuf(m) /\ fromAccount' = fromAccount
    BY <1>6, <2>0 DEF AccountCheck
  <2>5. Elems(toAccount') \subseteq Elems(toAccount) \union {m}
    BY <1>0, <2>2, <2>4, AddElems DEF SendProtoBuf
  <2> QED
    BY <1>3, <1>4, <2>3, <2>4, <2>5 DEF AnswersMatch
<1>7. ASSUME NEW c \in Conn, NEW a \in Account, NEW pwd \in Pwd,
             CreateAccount(c, a, pwd)
      PROVE  AnswersMatch'
  <2> DEFINE m == [type |-> "create", name |-> a, pwd |-> pwd, by |-> c]
  <2>1. m \in Req /\ m.type = "create"
    BY DEF CreateRequest
  <2>2. SendProtoBuf(m) /\ fromAccount' = fromAccount
    BY <1>7 DEF CreateAccount
  <2> HIDE DEF m
  <2>3. Elems(toAccount') \subseteq Elems(toAccount) \union {m}
    BY <1>0, <2>1, <2>2, AddElems DEF SendProtoBuf
  <2> QED
    BY <1>3, <1>4, <2>1, <2>2, <2>3 DEF AnswersMatch
<1>8. ASSUME AccountCheckResponse \/ CreateAccountResponse PROVE AnswersMatch'
  <2>1. /\ fromAccount # <<>> /\ fromAccount' = Tail(fromAccount)
        /\ toAccount' = toAccount
    BY <1>8 DEF AccountCheckResponse, CreateAccountResponse
  <2>2. Elems(fromAccount') \subseteq Elems(fromAccount)
    BY <1>0, <2>1, TakeElems
  <2> QED
    BY <1>5, <2>1, <2>2
<1>9. ASSUME LinkLost PROVE AnswersMatch'
  <2>1. PICK n \in 0..Len(fromAccount) : fromAccount' = SubSeq(fromAccount, 1, n)
    BY <1>9 DEF LinkLost
  <2>2. Elems(fromAccount') \subseteq Elems(fromAccount)
    BY <1>0, <2>1, PrefixElems
  <2>3. Elems(toAccount') \subseteq Elems(toAccount)
    BY <1>9 DEF LinkLost, Elems
  <2> QED
    BY <1>5, <2>2, <2>3
<1>10. ASSUME AccountServer!CreateAccount PROVE AnswersMatch'
  <2> DEFINE q == Head(toAccount)
             m == [type |-> "created",
                   result |-> IF _accMap[q.name] # NoPwd THEN 1 ELSE 0,
                   name |-> q.name, by |-> q.by]
  <2>1. /\ toAccount # <<>> /\ toAccount' = Tail(toAccount)
        /\ fromAccount' = Append(fromAccount, m)
    BY <1>10 DEF AccountServer!CreateAccount
  <2>2. m.type = "created" /\ m \in Res
    <3>1. q \in CreateRequest
      BY <1>10, HeadOfQueues DEF AccountServer!CreateAccount
    <3> QED
      BY <3>1 DEF CreateRequest, CreateResponse
  <2> HIDE DEF m
  <2>3. Elems(fromAccount') = Elems(fromAccount) \union {m}
    BY <1>0, <2>1, <2>2, AddElems
  <2>4. Elems(toAccount') \subseteq Elems(toAccount)
    BY <1>0, <2>1, TakeElems
  <2> QED
    BY <1>3, <1>4, <2>2, <2>3, <2>4 DEF AnswersMatch
<1>11. ASSUME AccountServer!AccountCheck PROVE AnswersMatch'
  <2> DEFINE q == Head(toAccount)
             result == IF _accMap[q.name] = NoPwd THEN 1
                       ELSE IF q.pwd # _accMap[q.name] THEN 2 ELSE 0
  <2>0. PICK m : m = [type |-> "checked", result |-> result, name |-> q.name,
                      increament |-> q.increament, by |-> q.by]
    OBVIOUS
  <2>1. /\ toAccount # <<>> /\ toAccount' = Tail(toAccount) /\ q.type = "check"
        /\ fromAccount' = Append(fromAccount, m)
        /\ proven' = IF result = 0 THEN [proven EXCEPT ![q.by] = @ \union {q.name}]
                     ELSE proven
    BY <1>11, <2>0 DEF AccountServer!AccountCheck
  <2>2. q \in CheckRequest /\ q \in Elems(toAccount)
    BY <1>0, <1>11, <2>1, HeadOfQueues, TakeElems DEF AccountServer!AccountCheck
  <2>3. result \in 0..2
    OBVIOUS
  <2> HIDE DEF q, result
  <2>4. m \in Res
    BY <2>0, <2>2, <2>3 DEF CheckRequest, CheckResponse
  <2>5. NumberOwn(m)'
    BY <1>3, <2>0, <2>1, <2>2 DEF NumberOwn
  <2>6. GoodIfProven(m)'
    BY <2>0, <2>1, <2>2 DEF GoodIfProven, ServerTypes, CheckRequest
  <2>7. Elems(fromAccount') = Elems(fromAccount) \union {m}
    BY <1>0, <2>1, <2>4, AddElems
  <2>8. Elems(toAccount') \subseteq Elems(toAccount)
    BY <1>0, <2>1, TakeElems
  <2> QED
    BY <1>3, <1>4, <2>5, <2>6, <2>7, <2>8 DEF AnswersMatch
<1>12. ASSUME UNCHANGED <<toAccount, fromAccount>> PROVE AnswersMatch'
  BY <1>5, <1>12
<1>13. CASE GameStep
  <2>1. ASSUME NEW c \in Conn, \/ \E id \in Player : LoginGame(c, id)
                               \/ CreatePlayer(c) \/ OnDisConnect(c) \/ LastPacks(c)
        PROVE  AnswersMatch'
    BY <1>12, <2>1 DEF LoginGame, CreatePlayer, OnDisConnect, LastPacks, wireVars
  <2>2. ASSUME NEW rows \in SUBSET Player, loadPlayer(rows) PROVE AnswersMatch'
    BY <1>12, <2>2 DEF loadPlayer, wireVars
  <2>3. CASE LinkMade
    BY <1>12, <2>3 DEF LinkMade
  <2> QED
    BY <1>6, <1>7, <1>8, <1>13, <2>1, <2>2, <2>3 DEF GameStep
<1>14. CASE ServerStep
  BY <1>10, <1>11, <1>12, <1>14 DEF ServerStep, AccountServer!ExecuteInsert
<1>15. CASE LinkFails \/ ServerRestart
  BY <1>9, <1>15 DEF LinkFails, ServerRestart
<1>16. CASE UNCHANGED allVars
  BY <1>12, <1>16 DEF allVars, vars, wireVars
<1> QED
  BY <1>13, <1>14, <1>15, <1>16 DEF GameNext

-----------------------------------------------------------------------------
OwnerInv == SessionProven /\ SessionOwnsPlayer /\ OnlineByOwner

LEMMA OwnerStep ==
    /\ PlayerInv /\ WireTypes /\ ServerTypes /\ AnswersMatch /\ OwnerInv
    /\ [GameNext]_allVars
    => OwnerInv'
<1> SUFFICES ASSUME PlayerInv, WireTypes, ServerTypes, AnswersMatch, OwnerInv,
                    [GameNext]_allVars
             PROVE  OwnerInv'
  OBVIOUS
<1>0. 0 \notin Player /\ NoConn \notin Conn /\ NoAccount \notin Account
  BY PlayerMgrAssumption DEF Player
<1>p. PlayerTypes /\ OnlineInWorld /\ IdsBelow
  BY DEF PlayerInv
<1>o. SessionProven /\ SessionOwnsPlayer /\ OnlineByOwner
  BY DEF OwnerInv
<1>g. \A c \in Conn : proven[c] \subseteq proven'[c]
  BY ProvenGrows
<1>1. ASSUME accid' = accid PROVE SessionProven'
  BY <1>1, <1>g, <1>o DEF SessionProven
<1>2. ASSUME UNCHANGED <<state, m_pConnect, m_AccPlayer>> PROVE OnlineByOwner'
  BY <1>2, <1>g, <1>o DEF OnlineByOwner
<1>3. ASSUME UNCHANGED <<accid, player, m_AccPlayer>>, accEntry \subseteq accEntry'
      PROVE  SessionOwnsPlayer'
  BY <1>3, <1>o DEF SessionOwnsPlayer
<1>4. ASSUME UNCHANGED <<sessionVars, playerVars>> PROVE OwnerInv'
  BY <1>1, <1>2, <1>3, <1>4 DEF OwnerInv, sessionVars, playerVars
<1>5. ASSUME AccountCheckResponse PROVE OwnerInv'
  <2> DEFINE r == Head(fromAccount)
             c == m_pLogin[r.increament]
  <2>1. /\ fromAccount # <<>> /\ r.type = "checked"
        /\ UNCHANGED <<state, m_pConnect, m_AccPlayer>>
    BY <1>5 DEF AccountCheckResponse
  <2>2. OnlineByOwner'
    BY <1>2, <2>1
  <2>3. CASE ~(c # NoConn /\ r.result = 0)
    <3>1. UNCHANGED <<accid, player, accEntry>>
      BY <1>5, <2>3 DEF AccountCheckResponse
    <3> QED
      BY <1>1, <1>3, <2>1, <2>2, <3>1 DEF OwnerInv
  <2>4. CASE c # NoConn /\ r.result = 0
    <3>1. /\ accid' = [accid EXCEPT ![c] = r.name]
          /\ player' = [player EXCEPT ![c] = 0]
          /\ accEntry' = accEntry \union {r.name}
      BY <1>5, <2>4 DEF AccountCheckResponse
    <3>2. r \in CheckResponse /\ r \in Elems(fromAccount)
      BY <2>1, HeadOfQueues, TakeElems DEF WireTypes
    <3>3. NumberOwn(r) /\ GoodIfProven(r)
      BY <2>1, <3>2 DEF AnswersMatch
    <3>4. c = r.by /\ c \in Conn
      BY <2>4, <3>2, <3>3 DEF NumberOwn, CheckResponse
    <3>5. r.name \in proven[c]
      BY <2>4, <3>3, <3>4 DEF GoodIfProven
    <3> HIDE DEF r, c
    <3>6. \A d \in Conn : /\ accid'[d] = IF d = c THEN r.name ELSE accid[d]
                          /\ player'[d] = IF d = c THEN 0 ELSE player[d]
      BY <1>p, <3>1 DEF PlayerTypes
    <3>7. SessionProven'
      BY <1>g, <1>o, <3>4, <3>5, <3>6 DEF SessionProven
    <3>8. SessionOwnsPlayer'
      BY <1>o, <2>1, <3>1, <3>6 DEF SessionOwnsPlayer
    <3> QED
      BY <2>2, <3>7, <3>8 DEF OwnerInv
  <2> QED
    BY <2>3, <2>4
<1>6. ASSUME NEW c \in Conn, NEW id \in Player, LoginGame(c, id) PROVE OwnerInv'
  <2> DEFINE ps == {p \in Player : p = player[c] /\ Online(player[c])}
  <2>1. LogOutAndIn(ps, id, c) /\ ps \in SUBSET Player
    BY <1>6 DEF LoginGame
  <2>2. \A q \in ps : state[q] = "online"
    BY DEF Online
  <2>3. /\ accid[c] \in Account /\ accid[c] \in accEntry
        /\ id \in m_AccPlayer[accid[c]] /\ accid[c] \in proven[c]
    BY <1>6, <1>o, <1>p DEF LoginGame, PlayerTypes, SessionProven
  <2>4. id # 0 /\ state[id] # "none"
    BY <1>0, <1>p, <2>3 DEF IdsBelow
  <2> HIDE DEF ps
  <2>5. /\ \A q \in Player : state'[q] = "online" =>
              q = id \/ (state[q] = "online" /\ q \notin ps)
        /\ \A q \in Player : m_pConnect'[q] =
              IF q = id THEN c ELSE IF q \in ps THEN NoConn ELSE m_pConnect[q]
    <3>1. \A q \in Player : state'[q] = "online" =>
             q = id \/ (state[q] = "online" /\ q \notin ps)
      BY <1>p, <2>1, <2>2, <2>4, LogOutAndInKeeps
    <3> QED
      BY <2>1, <3>1 DEF LogOutAndIn
  <2>6. /\ UNCHANGED <<accid, accEntry, m_AccPlayer>>
        /\ \A d \in Conn : player'[d] \in {player[d], 0} \/ (d = c /\ player'[d] = id)
    BY <1>6, <1>p DEF LoginGame, PlayerTypes
  <2>7. SessionOwnsPlayer'
    BY <1>o, <2>3, <2>6 DEF SessionOwnsPlayer
  <2>8. OnlineByOwner'
    <3> SUFFICES ASSUME NEW q \in Player, state'[q] = "online"
                 PROVE  \E d \in Conn, a \in Account :
                          m_pConnect'[q] = d /\ a \in proven'[d] /\ q \in m_AccPlayer'[a]
      BY DEF OnlineByOwner
    <3>1. CASE q = id
      BY <1>g, <2>3, <2>5, <2>6, <3>1
    <3>2. CASE q # id
      <4>1. state[q] = "online" /\ m_pConnect'[q] = m_pConnect[q]
        BY <2>5, <3>2
      <4> QED
        BY <1>g, <1>o, <2>6, <4>1 DEF OnlineByOwner
    <3> QED
      BY <3>1, <3>2
  <2> QED
    BY <1>1, <2>6, <2>7, <2>8 DEF OwnerInv
<1>7. ASSUME NEW c \in Conn, CreatePlayer(c) PROVE OwnerInv'
  <2>1. /\ UNCHANGED <<sessionVars, accEntry, m_pConnect>>
        /\ \A a \in Account : m_AccPlayer[a] \subseteq m_AccPlayer'[a]
        /\ \A q \in Player : state'[q] = "online" => state[q] = "online"
    BY <1>7, <1>p DEF CreatePlayer, PlayerTypes
  <2>2. SessionOwnsPlayer'
    BY <1>o, <1>p, <2>1 DEF SessionOwnsPlayer, sessionVars, PlayerTypes
  <2>3. OnlineByOwner'
    BY <1>g, <1>o, <2>1 DEF OnlineByOwner
  <2> QED
    BY <1>1, <2>1, <2>2, <2>3 DEF OwnerInv, sessionVars
<1>8. ASSUME NEW rows \in SUBSET Player, loadPlayer(rows) PROVE OwnerInv'
  <2>1. /\ accEntry \subseteq accEntry'
        /\ UNCHANGED <<accid, player, m_AccPlayer, state, m_pConnect>>
    BY <1>8 DEF loadPlayer, sessionVars
  <2> QED
    BY <1>1, <1>2, <1>3, <2>1 DEF OwnerInv
<1>9. ASSUME NEW c \in Conn, OnDisConnect(c) PROVE OwnerInv'
  <2> DEFINE ps == {p \in Player : p = player[c] /\ Online(p)}
  <2>1. LogOutAndIn(ps, 0, c) /\ ps \in SUBSET Player
    BY <1>9 DEF OnDisConnect
  <2>2. \A q \in ps : state[q] = "online"
    BY DEF Online
  <2> HIDE DEF ps
  <2>3. /\ \A q \in Player : state'[q] = "online" =>
              q = 0 \/ (state[q] = "online" /\ q \notin ps)
        /\ \A q \in Player : m_pConnect'[q] =
              IF q = 0 THEN c ELSE IF q \in ps THEN NoConn ELSE m_pConnect[q]
    <3>1. \A q \in Player : state'[q] = "online" =>
             q = 0 \/ (state[q] = "online" /\ q \notin ps)
      BY <1>p, <2>1, <2>2, LogOutAndInKeeps
    <3> QED
      BY <2>1, <3>1 DEF LogOutAndIn
  <2>4. /\ UNCHANGED <<accEntry, m_AccPlayer>>
        /\ \A d \in Conn : /\ accid'[d] = IF d = c THEN NoAccount ELSE accid[d]
                           /\ player'[d] = IF d = c THEN 0 ELSE player[d]
    BY <1>9, <1>p DEF OnDisConnect, PlayerTypes
  <2>5. SessionProven' /\ SessionOwnsPlayer'
    BY <1>g, <1>o, <2>4 DEF SessionProven, SessionOwnsPlayer
  <2>6. OnlineByOwner'
    <3>1. \A q \in Player : state'[q] = "online" =>
             state[q] = "online" /\ m_pConnect'[q] = m_pConnect[q]
      BY <1>0, <2>3
    <3> QED
      BY <1>g, <1>o, <2>4, <3>1 DEF OnlineByOwner
  <2> QED
    BY <2>5, <2>6 DEF OwnerInv
<1>10. CASE GameStep
  <2>1. ASSUME NEW c \in Conn, NEW a \in Account, NEW pwd \in Pwd,
               AccountCheck(c, a, pwd) \/ CreateAccount(c, a, pwd)
        PROVE  OwnerInv'
    BY <1>4, <2>1 DEF AccountCheck, CreateAccount
  <2>2. CASE CreateAccountResponse \/ LinkMade
    BY <1>4, <2>2 DEF CreateAccountResponse, LinkMade
  <2>3. ASSUME NEW c \in Conn, LastPacks(c) PROVE OwnerInv'
    BY <1>4, <2>3 DEF LastPacks
  <2> QED
    BY <1>5, <1>6, <1>7, <1>8, <1>9, <1>10, <2>1, <2>2, <2>3 DEF GameStep
<1>11. CASE ServerStep \/ LinkFails \/ ServerRestart \/ UNCHANGED allVars
  BY <1>4, <1>11 DEF ServerStep, gameOnly, LinkFails, ServerRestart, LinkLost,
     allVars, vars
<1> QED
  BY <1>10, <1>11 DEF GameNext

-----------------------------------------------------------------------------
Asking(m, a) == m.type = "create" /\ m.name = a
Answering(m, a) == m.type = "created" /\ m.name = a

Unanswered(a) == \A i \in DOMAIN fromAccount : ~Answering(fromAccount[i], a)

(* m_Creating names the connection of the first request for a under way,   *)
(* and none if there is no request.                                        *)
FirstKept(a) ==
    /\ \A i \in DOMAIN toAccount :
          /\ Asking(toAccount[i], a)
          /\ \A j \in DOMAIN toAccount : j < i => ~Asking(toAccount[j], a)
          => m_Creating[a] = toAccount[i].by
    /\ (\E i \in DOMAIN toAccount : Asking(toAccount[i], a))
          <=> m_Creating[a] # NoConn

(* "Account created" is the first answer for its account under way, and    *)
(* m_Creating still has the connection it is for.                          *)
AnswerFirst(a) ==
    \A i \in DOMAIN fromAccount :
        Answering(fromAccount[i], a) /\ fromAccount[i].result = 0 =>
            /\ m_Creating[a] = fromAccount[i].by
            /\ \A j \in DOMAIN fromAccount : j < i => ~Answering(fromAccount[j], a)

FirstAsker ==
    ~failed => /\ linkUp
               /\ \A a \in Account :
                     /\ _accMap[a] = NoPwd => Unanswered(a) /\ FirstKept(a)
                     /\ AnswerFirst(a)

LEMMA AskerInit == GameInit => FirstAsker
<1> SUFFICES ASSUME GameInit PROVE FirstAsker
  OBVIOUS
<1>1. /\ toAccount = <<>> /\ fromAccount = <<>> /\ linkUp = TRUE
      /\ m_Creating = [a \in Account |-> NoConn]
  BY DEF GameInit, Init
<1> QED
  BY <1>1 DEF FirstAsker, Unanswered, FirstKept, AnswerFirst

LEMMA TailFirst ==
    ASSUME WireTypes, NEW a \in Account, FirstKept(a), toAccount # <<>>,
           toAccount' = Tail(toAccount), ~Asking(Head(toAccount), a),
           m_Creating'[a] = m_Creating[a]
    PROVE  FirstKept(a)'
<1>0. toAccount \in Seq(CheckRequest \union CreateRequest)
  BY DEF WireTypes
<1>1. /\ ~Asking(toAccount[1], a) /\ 1 \in DOMAIN toAccount
      /\ \A i \in DOMAIN toAccount' :
            i + 1 \in DOMAIN toAccount /\ toAccount'[i] = toAccount[i + 1]
      /\ \A i \in DOMAIN toAccount : i # 1 => i - 1 \in DOMAIN toAccount'
      /\ DOMAIN toAccount \subseteq Nat /\ DOMAIN toAccount' \subseteq Nat
  BY <1>0, TakeHead
<1>2. \A i \in DOMAIN toAccount : i # 1 => toAccount[i] = toAccount'[i - 1]
  BY <1>1
<1>3. ASSUME NEW i \in DOMAIN toAccount', Asking(toAccount'[i], a),
             \A j \in DOMAIN toAccount' : j < i => ~Asking(toAccount'[j], a)
      PROVE  m_Creating'[a] = toAccount'[i].by
  <2>1. i + 1 \in DOMAIN toAccount /\ Asking(toAccount[i + 1], a)
    BY <1>1, <1>3
  <2>2. ASSUME NEW j \in DOMAIN toAccount, j < i + 1
        PROVE  ~Asking(toAccount[j], a)
    <3>1. CASE j = 1
      BY <1>1, <3>1
    <3>2. CASE j # 1
      <4>1. j - 1 \in DOMAIN toAccount' /\ j - 1 < i
        BY <1>1, <2>2, <3>2
      <4> QED
        BY <1>2, <1>3, <3>2, <4>1
    <3> QED
      BY <3>1, <3>2
  <2>3. m_Creating[a] = toAccount[i + 1].by
    BY <2>1, <2>2 DEF FirstKept
  <2> QED
    BY <1>1, <2>3
<1>4. (\E i \in DOMAIN toAccount' : Asking(toAccount'[i], a))
         <=> (\E i \in DOMAIN toAccount : Asking(toAccount[i], a))
  <2>1. ASSUME NEW i \in DOMAIN toAccount', Asking(toAccount'[i], a)
        PROVE  \E j \in DOMAIN toAccount : Asking(toAccount[j], a)
    BY <1>1, <2>1
  <2>2. ASSUME NEW i \in DOMAIN toAccount, Asking(toAccount[i], a)
        PROVE  \E j \in DOMAIN toAccount' : Asking(toAccount'[j], a)
    <3>1. i # 1
      BY <1>1, <2>2
    <3> QED
      BY <1>1, <1>2, <2>2, <3>1
  <2> QED
    BY <2>1, <2>2
<1>5. (\E i \in DOMAIN toAccount' : Asking(toAccount'[i], a))
         <=> m_Creating'[a] # NoConn
  BY <1>4 DEF FirstKept
<1> QED
  BY <1>3, <1>5 DEF FirstKept, Asking

LEMMA TailAnswers ==
    ASSUME WireTypes, NEW a \in Account, AnswerFirst(a), fromAccount # <<>>,
           fromAccount' = Tail(fromAccount)
    PROVE  /\ Unanswered(a) => Unanswered(a)'
           /\ m_Creating'[a] = m_Creating[a] => AnswerFirst(a)'
<1>0. fromAccount \in Seq(CheckResponse \union CreateResponse)
  BY DEF WireTypes
<1>1. /\ \A i \in DOMAIN fromAccount' :
            i + 1 \in DOMAIN fromAccount /\ fromAccount'[i] = fromAccount[i + 1]
      /\ DOMAIN fromAccount \subseteq Nat /\ DOMAIN fromAccount' \subseteq Nat
  BY <1>0, TakeHead
<1>2. ASSUME Unanswered(a) PROVE Unanswered(a)'
  BY <1>1, <1>2 DEF Unanswered, Answering
<1>3. ASSUME m_Creating'[a] = m_Creating[a] PROVE AnswerFirst(a)'
  <2> SUFFICES ASSUME NEW i \in DOMAIN fromAccount',
                      Answering(fromAccount'[i], a), fromAccount'[i].result = 0
               PROVE  /\ m_Creating'[a] = fromAccount'[i].by
                      /\ \A j \in DOMAIN fromAccount' :
                            j < i => ~Answering(fromAccount'[j], a)
    BY DEF AnswerFirst, Answering
  <2>1. /\ i + 1 \in DOMAIN fromAccount /\ Answering(fromAccount[i + 1], a)
        /\ fromAccount[i + 1].result = 0
    BY <1>1
  <2>2. /\ m_Creating[a] = fromAccount[i + 1].by
        /\ \A j \in DOMAIN fromAccount :
              j < i + 1 => ~Answering(fromAccount[j], a)
    BY <2>1 DEF AnswerFirst
  <2> QED
    BY <1>1, <1>3, <2>2
<1> QED
  BY <1>2, <1>3

LEMMA AppendAnswers ==
    ASSUME WireTypes, NEW a \in Account, AnswerFirst(a),
           NEW m \in CheckResponse \union CreateResponse,
           fromAccount' = Append(fromAccount, m)
    PROVE  /\ Unanswered(a) /\ ~Answering(m, a) => Unanswered(a)'
           /\ /\ m_Creating'[a] = m_Creating[a]
              /\ Answering(m, a) /\ m.result = 0 =>
                    Unanswered(a) /\ m_Creating[a] = m.by
              => AnswerFirst(a)'
<1> DEFINE last == Len(fromAccount) + 1
<1>0. fromAccount \in Seq(CheckResponse \union CreateResponse)
  BY DEF WireTypes
<1>1. /\ last \in DOMAIN fromAccount' /\ fromAccount'[last] = m
      /\ \A i \in DOMAIN fromAccount' : i # last => i \in DOMAIN fromAccount
      /\ \A i \in DOMAIN fromAccount : fromAccount'[i] = fromAccount[i] /\ i < last
      /\ DOMAIN fromAccount' \subseteq Nat /\ last \in Nat
  BY <1>0, AddLast
<1> HIDE DEF last
<1>2. ASSUME Unanswered(a), ~Answering(m, a) PROVE Unanswered(a)'
  BY <1>1, <1>2 DEF Unanswered, Answering
<1>3. ASSUME m_Creating'[a] = m_Creating[a],
             Answering(m, a) /\ m.result = 0 =>
                Unanswered(a) /\ m_Creating[a] = m.by
      PROVE  AnswerFirst(a)'
  <2> SUFFICES ASSUME NEW i \in DOMAIN fromAccount',
                      Answering(fromAccount'[i], a), fromAccount'[i].result = 0
               PROVE  /\ m_Creating'[a] = fromAccount'[i].by
                      /\ \A j \in DOMAIN fromAccount' :
                            j < i => ~Answering(fromAccount'[j], a)
    BY DEF AnswerFirst, Answering
  <2>1. CASE i = last
    <3>1. Unanswered(a) /\ m_Creating[a] = m.by
      BY <1>1, <1>3, <2>1
    <3>2. \A j \in DOMAIN fromAccount' : j < i => j \in DOMAIN fromAccount
      BY <1>1, <2>1
    <3> QED
      BY <1>1, <1>3, <2>1, <3>1, <3>2 DEF Unanswered
  <2>2. CASE i # last
    <3>1. i \in DOMAIN fromAccount /\ fromAccount'[i] = fromAccount[i] /\ i < last
      BY <1>1, <2>2
    <3>2. /\ m_Creating[a] = fromAccount[i].by
          /\ \A j \in DOMAIN fromAccount : j < i => ~Answering(fromAccount[j], a)
      BY <3>1 DEF AnswerFirst
    <3>3. \A j \in DOMAIN fromAccount' : j < i => j \in DOMAIN fromAccount
      BY <1>1, <3>1
    <3> QED
      BY <1>1, <1>3, <3>1, <3>2, <3>3
  <2> QED
    BY <2>1, <2>2
<1> QED
  BY <1>2, <1>3

LEMMA AppendFirst ==
    ASSUME WireTypes, NEW a \in Account, FirstKept(a),
           NEW m \in CheckRequest \union CreateRequest,
           toAccount' = Append(toAccount, m)
    PROVE  /\ ~Asking(m, a) /\ m_Creating'[a] = m_Creating[a] => FirstKept(a)'
           /\ /\ Asking(m, a) /\ m.by # NoConn
              /\ m_Creating'[a] = IF m_Creating[a] = NoConn THEN m.by
                                                            ELSE m_Creating[a]
              => FirstKept(a)'
<1> DEFINE last == Len(toAccount) + 1
<1>0. toAccount \in Seq(CheckRequest \union CreateRequest)
  BY DEF WireTypes
<1>1. /\ last \in DOMAIN toAccount' /\ toAccount'[last] = m
      /\ \A i \in DOMAIN toAccount' : i # last => i \in DOMAIN toAccount
      /\ \A i \in DOMAIN toAccount : /\ i \in DOMAIN toAccount'
                                     /\ toAccount'[i] = toAccount[i] /\ i < last
      /\ DOMAIN toAccount' \subseteq Nat /\ last \in Nat
  BY <1>0, AddLast
<1> HIDE DEF last
<1>2. ASSUME ~Asking(m, a), m_Creating'[a] = m_Creating[a] PROVE FirstKept(a)'
  <2>1. ASSUME NEW i \in DOMAIN toAccount', Asking(toAccount'[i], a),
               \A j \in DOMAIN toAccount' : j < i => ~Asking(toAccount'[j], a)
        PROVE  m_Creating'[a] = toAccount'[i].by
    <3>1. i \in DOMAIN toAccount /\ toAccount'[i] = toAccount[i]
      BY <1>1, <1>2, <2>1
    <3>2. \A j \in DOMAIN toAccount : j < i => ~Asking(toAccount[j], a)
      BY <1>1, <2>1
    <3> QED
      BY <1>2, <2>1, <3>1, <3>2 DEF FirstKept
  <2>2. (\E i \in DOMAIN toAccount' : Asking(toAccount'[i], a))
           <=> (\E i \in DOMAIN toAccount : Asking(toAccount[i], a))
    BY <1>1, <1>2
  <2>3. (\E i \in DOMAIN toAccount' : Asking(toAccount'[i], a))
           <=> m_Creating'[a] # NoConn
    BY <1>2, <2>2 DEF FirstKept
  <2> QED
    BY <2>1, <2>3 DEF FirstKept, Asking
<1>3. ASSUME Asking(m, a), m.by # NoConn,
             m_Creating'[a] = IF m_Creating[a] = NoConn THEN m.by ELSE m_Creating[a]
      PROVE  FirstKept(a)'
  <2>1. ASSUME NEW i \in DOMAIN toAccount', Asking(toAccount'[i], a),
               \A j \in DOMAIN toAccount' : j < i => ~Asking(toAccount'[j], a)
        PROVE  m_Creating'[a] = toAccount'[i].by
    <3>1. CASE i = last
      <4>1. \A j \in DOMAIN toAccount : ~Asking(toAccount[j], a)
        BY <1>1, <2>1, <3>1
      <4>2. m_Creating[a] = NoConn
        BY <4>1 DEF FirstKept
      <4> QED
        BY <1>1, <1>3, <3>1, <4>2
    <3>2. CASE i # last
      <4>1. i \in DOMAIN toAccount /\ toAccount'[i] = toAccount[i]
        BY <1>1, <3>2
      <4>2. \A j \in DOMAIN toAccount : j < i => ~Asking(toAccount[j], a)
        BY <1>1, <2>1
      <4>3. m_Creating[a] = toAccount[i].by /\ m_Creating[a] # NoConn
        BY <2>1, <4>1, <4>2 DEF FirstKept
      <4> QED
        BY <1>3, <4>1, <4>3
    <3> QED
      BY <3>1, <3>2
  <2>2. \E i \in DOMAIN toAccount' : Asking(toAccount'[i], a)
    BY <1>1, <1>3
  <2>3. m_Creating'[a] # NoConn
    BY <1>3
  <2> QED
    BY <2>1, <2>2, <2>3 DEF FirstKept, Asking
<1> QED
  BY <1>2, <1>3

LEMMA AskerStep ==
    /\ WireTypes /\ ServerTypes /\ FirstAsker /\ CreateAnswerOwn
    /\ [GameNext]_allVars
    => FirstAsker' /\ CreateAnswerOwn'
<1> SUFFICES ASSUME WireTypes, ServerTypes, FirstAsker, CreateAnswerOwn,
                    [GameNext]_allVars
             PROVE  FirstAsker' /\ CreateAnswerOwn'
  OBVIOUS
<1>0. NoConn \notin Conn /\ NoPwd \notin Pwd
  BY PlayerMgrAssumption
<1>1. CASE LinkFails \/ ServerRestart
  BY <1>1 DEF LinkFails, ServerRestart, FirstAsker, CreateAnswerOwn
<1> DEFINE Goal == \A a \in Account :
                      /\ _accMap'[a] = NoPwd => Unanswered(a)' /\ FirstKept(a)'
                      /\ AnswerFirst(a)'
<1>2. SUFFICES ASSUME GameStep \/ ServerStep \/ UNCHANGED allVars, ~failed
               PROVE  linkUp' /\ Goal /\ (\A t \in told' : t[1] = t[3])
  <2>1. ASSUME GameStep \/ ServerStep \/ UNCHANGED allVars, failed
        PROVE  FirstAsker' /\ CreateAnswerOwn'
    <3>1. failed'
      BY <2>1 DEF GameStep, ServerStep, allVars
    <3> QED
      BY <3>1 DEF FirstAsker, CreateAnswerOwn
  <2>2. ASSUME GameStep \/ ServerStep \/ UNCHANGED allVars, ~failed,
               linkUp' /\ Goal /\ (\A t \in told' : t[1] = t[3])
        PROVE  FirstAsker' /\ CreateAnswerOwn'
    <3> QED
      BY <2>2 DEF FirstAsker, CreateAnswerOwn
  <2> HIDE DEF Goal
  <2> QED
    BY <1>1, <2>1, <2>2 DEF GameNext
<1>3. /\ linkUp /\ \A t \in told : t[1] = t[3]
      /\ \A a \in Account : /\ _accMap[a] = NoPwd => Unanswered(a) /\ FirstKept(a)
                            /\ AnswerFirst(a)
  BY <1>2 DEF FirstAsker, CreateAnswerOwn
<1>4. ASSUME UNCHANGED <<_accMap, m_Creating, toAccount, fromAccount>> PROVE Goal
  BY <1>3, <1>4 DEF Unanswered, FirstKept, AnswerFirst
<1>5. ASSUME UNCHANGED <<_accMap, accountVars, wireVars, told>>
      PROVE  linkUp' /\ Goal /\ (\A t \in told' : t[1] = t[3])
  <2>1. UNCHANGED <<_accMap, m_Creating, toAccount, fromAccount, linkUp, told>>
    BY <1>5 DEF accountVars, wireVars
  <2>2. Goal
    BY <1>4, <2>1
  <2> HIDE DEF Goal
  <2> QED
    BY <1>3, <2>1, <2>2
<1>6. ASSUME NEW c \in Conn, NEW b \in Account, NEW pwd \in Pwd,
             AccountCheck(c, b, pwd), _accMap' = _accMap
      PROVE  linkUp' /\ Goal /\ (\A t \in told' : t[1] = t[3])
  <2>0. PICK m : m = [type |-> "check", name |-> b, pwd |-> pwd,
                      increament |-> m_LoginGameIncreament, by |-> c]
    OBVIOUS
  <2>1. m_LoginGameIncreament \in Increament
    BY <1>6, PlayerMgrAssumption DEF AccountCheck, WireTypes, Increament
  <2>2. m \in CheckRequest \union CreateRequest /\ m.type = "check"
    BY <2>0, <2>1 DEF CheckRequest
  <2>3. /\ SendProtoBuf(m)
        /\ UNCHANGED <<m_Creating, linkUp, fromAccount, told>>
    BY <1>6, <2>0 DEF AccountCheck
  <2>4. toAccount' = Append(toAccount, m)
    BY <1>3, <2>2, <2>3, Sends
  <2>5. ASSUME NEW a \in Account
        PROVE  /\ _accMap'[a] = NoPwd => Unanswered(a)' /\ FirstKept(a)'
               /\ AnswerFirst(a)'
    <3>1. AnswerFirst(a)' /\ (Unanswered(a) => Unanswered(a)')
      BY <1>3, <2>3 DEF AnswerFirst, Unanswered
    <3>2. FirstKept(a) => FirstKept(a)'
      BY <2>2, <2>3, <2>4, AppendFirst DEF Asking
    <3> QED
      BY <1>3, <1>6, <3>1, <3>2
  <2> QED
    BY <1>3, <2>3, <2>5
<1>7. ASSUME NEW c \in Conn, NEW b \in Account, NEW pwd \in Pwd,
             CreateAccount(c, b, pwd), _accMap' = _accMap
      PROVE  linkUp' /\ Goal /\ (\A t \in told' : t[1] = t[3])
  <2>0. PICK m : m = [type |-> "create", name |-> b, pwd |-> pwd, by |-> c]
    OBVIOUS
  <2>1. /\ m \in CheckRequest \union CreateRequest
        /\ m.type = "create" /\ m.name = b /\ m.by = c
    BY <2>0 DEF CreateRequest
  <2>2. /\ SendProtoBuf(m)
        /\ m_Creating' = [m_Creating EXCEPT ![b] = IF @ = NoConn THEN c ELSE @]
        /\ UNCHANGED <<linkUp, fromAccount, told>>
    BY <1>7, <2>0 DEF CreateAccount
  <2>3. toAccount' = Append(toAccount, m)
    BY <1>3, <2>1, <2>2, Sends
  <2>4. \A a \in Account : m_Creating'[a] =
           IF a = b /\ m_Creating[a] = NoConn THEN c ELSE m_Creating[a]
    BY <2>2 DEF WireTypes
  <2>5. ASSUME NEW a \in Account
        PROVE  /\ _accMap'[a] = NoPwd => Unanswered(a)' /\ FirstKept(a)'
               /\ AnswerFirst(a)'
    <3>1. Unanswered(a) => Unanswered(a)'
      BY <2>2 DEF Unanswered
    <3>2. AnswerFirst(a)'
      <4>1. \A i \in DOMAIN fromAccount :
               Answering(fromAccount[i], a) => fromAccount[i].by # NoConn
        <5>1. \A i \in DOMAIN fromAccount :
                 fromAccount[i] \in CheckResponse \union CreateResponse
          BY DEF WireTypes
        <5> QED
          BY <1>0, <5>1 DEF CheckResponse, CreateResponse
      <4>2. \A i \in DOMAIN fromAccount :
               Answering(fromAccount[i], a) /\ fromAccount[i].result = 0 =>
                  m_Creating'[a] = m_Creating[a]
        BY <1>3, <2>4, <4>1 DEF AnswerFirst
      <4> QED
        BY <1>3, <2>2, <4>2 DEF AnswerFirst
    <3>3. ASSUME FirstKept(a) PROVE FirstKept(a)'
      <4>1. CASE a = b
        BY <1>0, <2>1, <2>3, <2>4, <3>3, <4>1, AppendFirst DEF Asking
      <4>2. CASE a # b
        BY <2>1, <2>3, <2>4, <3>3, <4>2, AppendFirst DEF Asking
      <4> QED
        BY <4>1, <4>2
    <3> QED
      BY <1>3, <1>7, <3>1, <3>2, <3>3
  <2> QED
    BY <1>3, <2>2, <2>5
<1>8. ASSUME AccountCheckResponse, _accMap' = _accMap
      PROVE  linkUp' /\ Goal /\ (\A t \in told' : t[1] = t[3])
  <2>1. /\ fromAccount # <<>> /\ fromAccount' = Tail(fromAccount)
        /\ UNCHANGED <<m_Creating, linkUp, toAccount, told>>
    BY <1>8 DEF AccountCheckResponse
  <2>2. ASSUME NEW a \in Account
        PROVE  /\ _accMap'[a] = NoPwd => Unanswered(a)' /\ FirstKept(a)'
               /\ AnswerFirst(a)'
    <3>1. AnswerFirst(a)' /\ (Unanswered(a) => Unanswered(a)')
      BY <1>3, <2>1, TailAnswers
    <3>2. FirstKept(a) => FirstKept(a)'
      BY <2>1 DEF FirstKept
    <3> QED
      BY <1>3, <1>8, <3>1, <3>2
  <2> QED
    BY <1>3, <2>1, <2>2
<1>9. ASSUME CreateAccountResponse, _accMap' = _accMap
      PROVE  linkUp' /\ Goal /\ (\A t \in told' : t[1] = t[3])
  <2> DEFINE r == Head(fromAccount)
             c == m_Creating[r.name]
  <2>1. /\ fromAccount # <<>> /\ fromAccount' = Tail(fromAccount)
        /\ r.type = "created"
        /\ m_Creating' = [m_Creating EXCEPT ![r.name] = NoConn]
        /\ told' = IF c # NoConn /\ r.result = 0
                   THEN told \union {<<c, r.name, r.by>>} ELSE told
        /\ UNCHANGED <<linkUp, toAccount>>
    BY <1>9 DEF CreateAccountResponse
  <2>2. /\ r \in CreateResponse /\ r = fromAccount[1] /\ 1 \in DOMAIN fromAccount
        /\ \A i \in DOMAIN fromAccount' :
              i + 1 \in DOMAIN fromAccount /\ fromAccount'[i] = fromAccount[i + 1]
        /\ DOMAIN fromAccount' \subseteq 1..Len(fromAccount)
    BY <2>1, HeadOfQueues, TakeHead DEF WireTypes
  <2>3. r.name \in Account /\ Answering(r, r.name)
    BY <2>1, <2>2 DEF CreateResponse, Answering
  <2> HIDE DEF r
  <2>4. ASSUME NEW a \in Account
        PROVE  /\ _accMap'[a] = NoPwd => Unanswered(a)' /\ FirstKept(a)'
               /\ AnswerFirst(a)'
    <3>1. CASE a = r.name
      <4>1. _accMap[a] # NoPwd
        BY <1>3, <2>2, <2>3, <3>1 DEF Unanswered
      <4>2. \A i \in DOMAIN fromAccount' :
               ~(Answering(fromAccount'[i], a) /\ fromAccount'[i].result = 0)
        <5> SUFFICES ASSUME NEW i \in DOMAIN fromAccount',
                            Answering(fromAccount'[i], a), fromAccount'[i].result = 0
                     PROVE  FALSE
          OBVIOUS
        <5>1. /\ i + 1 \in DOMAIN fromAccount /\ 1 < i + 1
              /\ Answering(fromAccount[i + 1], a) /\ fromAccount[i + 1].result = 0
          BY <2>2
        <5>2. ~Answering(fromAccount[1], a)
          BY <1>3, <2>2, <5>1 DEF AnswerFirst
        <5> QED
          BY <2>2, <2>3, <3>1, <5>2
      <4> QED
        BY <1>9, <4>1, <4>2 DEF AnswerFirst, Answering
    <3>2. CASE a # r.name
      <4>1. m_Creating'[a] = m_Creating[a]
        BY <2>1, <3>2 DEF WireTypes
      <4>2. AnswerFirst(a)' /\ (Unanswered(a) => Unanswered(a)')
        BY <1>3, <2>1, <4>1, TailAnswers
      <4>3. FirstKept(a) => FirstKept(a)'
        BY <2>1, <4>1 DEF FirstKept
      <4> QED
        BY <1>3, <1>9, <4>2, <4>3
    <3> QED
      BY <3>1, <3>2
  <2>5. ASSUME c # NoConn, r.result = 0 PROVE c = r.by
    BY <1>3, <2>2, <2>3, <2>5 DEF AnswerFirst
  <2> HIDE DEF c
  <2>6. \A t \in told' : t[1] = t[3]
    BY <1>3, <2>1, <2>5
  <2> QED
    BY <1>3, <2>1, <2>4, <2>6
<1>10. ASSUME AccountServer!CreateAccount, UNCHANGED <<gameOnly, failed>>
       PROVE  linkUp' /\ Goal /\ (\A t \in told' : t[1] = t[3])
  <2> DEFINE q == Head(toAccount)
  <2>0. PICK m : m = [type |-> "created",
                      result |-> IF _accMap[q.name] # NoPwd THEN 1 ELSE 0,
                      name |-> q.name, by |-> q.by]
    OBVIOUS
  <2>1. /\ toAccount # <<>> /\ toAccount' = Tail(toAccount) /\ q.type = "create"
        /\ fromAccount' = Append(fromAccount, m)
        /\ _accMap' = IF _accMap[q.name] # NoPwd THEN _accMap
                      ELSE [_accMap EXCEPT ![q.name] = q.pwd]
        /\ UNCHANGED <<m_Creating, linkUp, told>>
    BY <1>10, <2>0 DEF AccountServer!CreateAccount, gameOnly, accountVars
  <2>2. q \in CreateRequest /\ q = toAccount[1] /\ 1 \in DOMAIN toAccount
    BY <2>1, HeadOfQueues, TakeHead DEF WireTypes
  <2>3. q.name \in Account /\ q.pwd \in Pwd /\ q.by \in Conn
    BY <2>2 DEF CreateRequest
  <2>4. /\ m \in CheckResponse \union CreateResponse
        /\ m.type = "created" /\ m.name = q.name /\ m.by = q.by
        /\ m.result = IF _accMap[q.name] # NoPwd THEN 1 ELSE 0
    BY <2>0, <2>3 DEF CreateResponse
  <2> HIDE DEF q
  <2>5. ASSUME NEW a \in Account
        PROVE  /\ _accMap'[a] = NoPwd => Unanswered(a)' /\ FirstKept(a)'
               /\ AnswerFirst(a)'
    <3>0. m_Creating'[a] = m_Creating[a] /\ AnswerFirst(a)
      BY <1>3, <2>1
    <3>1. CASE a = q.name
      <4>1. _accMap'[a] # NoPwd
        BY <1>0, <2>1, <2>3, <3>1 DEF ServerTypes
      <4>2. m.result = 0 => Unanswered(a) /\ m_Creating[a] = m.by
        <5> SUFFICES ASSUME m.result = 0 PROVE Unanswered(a) /\ m_Creating[a] = m.by
          OBVIOUS
        <5>1. Unanswered(a) /\ FirstKept(a)
          BY <1>3, <2>4, <3>1
        <5>2. Asking(toAccount[1], a)
          BY <2>1, <2>2, <3>1 DEF Asking
        <5>3. \A j \in DOMAIN toAccount : ~(j < 1)
          BY DEF WireTypes
        <5> QED
          BY <2>2, <2>4, <5>1, <5>2, <5>3 DEF FirstKept
      <4>3. AnswerFirst(a)'
        BY <2>1, <2>4, <3>0, <4>2, AppendAnswers
      <4> QED
        BY <4>1, <4>3
    <3>2. CASE a # q.name
      <4>1. _accMap'[a] = _accMap[a]
        BY <2>1, <3>2 DEF ServerTypes
      <4>2. ~Answering(m, a) /\ ~Asking(q, a)
        BY <2>4, <3>2 DEF Answering, Asking
      <4>3. AnswerFirst(a)' /\ (Unanswered(a) => Unanswered(a)')
        BY <2>1, <2>4, <3>0, <4>2, AppendAnswers
      <4>4. FirstKept(a) => FirstKept(a)'
        BY <2>1, <3>0, <4>2, TailFirst DEF q
      <4> QED
        BY <1>3, <4>1, <4>3, <4>4
    <3> QED
      BY <3>1, <3>2
  <2> QED
    BY <1>3, <2>1, <2>5
<1>11. ASSUME AccountServer!AccountCheck, UNCHANGED <<gameOnly, failed>>
       PROVE  linkUp' /\ Goal /\ (\A t \in told' : t[1] = t[3])
  <2> DEFINE q == Head(toAccount)
             result == IF _accMap[q.name] = NoPwd THEN 1
                       ELSE IF q.pwd # _accMap[q.name] THEN 2 ELSE 0
  <2>0. PICK m : m = [type |-> "checked", result |-> result, name |-> q.name,
                      increament |-> q.increament, by |-> q.by]
    OBVIOUS
  <2>1. /\ toAccount # <<>> /\ toAccount' = Tail(toAccount) /\ q.type = "check"
        /\ fromAccount' = Append(fromAccount, m)
        /\ UNCHANGED <<_accMap, m_Creating, linkUp, told>>
    BY <1>11, <2>0 DEF AccountServer!AccountCheck, gameOnly, accountVars
  <2>2. q \in CheckRequest
    BY <2>1, HeadOfQueues
  <2>3. result \in 0..2
    OBVIOUS
  <2> HIDE DEF result
  <2>4. m \in CheckResponse \union CreateResponse /\ m.type = "checked"
    BY <2>0, <2>2, <2>3 DEF CheckRequest, CheckResponse
  <2>5. ASSUME NEW a \in Account
        PROVE  /\ _accMap'[a] = NoPwd => Unanswered(a)' /\ FirstKept(a)'
               /\ AnswerFirst(a)'
    <3>1. m_Creating'[a] = m_Creating[a] /\ AnswerFirst(a)
      BY <1>3, <2>1
    <3>2. ~Answering(m, a) /\ ~Asking(Head(toAccount), a)
      BY <2>1, <2>4 DEF Answering, Asking
    <3>3. AnswerFirst(a)' /\ (Unanswered(a) => Unanswered(a)')
      BY <2>1, <2>4, <3>1, <3>2, AppendAnswers
    <3>4. FirstKept(a) => FirstKept(a)'
      BY <2>1, <3>1, <3>2, TailFirst
    <3> QED
      BY <1>3, <2>1, <3>3, <3>4
  <2> QED
    BY <1>3, <2>1, <2>5
<1> HIDE DEF Goal
<1>12. CASE GameStep
  <2>1. _accMap' = _accMap
    BY <1>12 DEF GameStep, serverVars
  <2>2. ASSUME NEW c \in Conn, \/ \E id \in Player : LoginGame(c, id)
                               \/ CreatePlayer(c) \/ OnDisConnect(c) \/ LastPacks(c)
        PROVE  UNCHANGED <<accountVars, wireVars, told>>
    BY <2>2 DEF LoginGame, CreatePlayer, OnDisConnect, LastPacks
  <2>3. ASSUME NEW rows \in SUBSET Player, loadPlayer(rows)
        PROVE  UNCHANGED <<accountVars, wireVars, told>>
    BY <2>3 DEF loadPlayer
  <2>4. ~LinkMade
    BY <1>3 DEF LinkMade
  <2> QED
    BY <1>5, <1>6, <1>7, <1>8, <1>9, <1>12, <2>1, <2>2, <2>3, <2>4 DEF GameStep
<1>13. CASE ServerStep
  <2>1. UNCHANGED <<gameOnly, failed>>
    BY <1>13 DEF ServerStep
  <2>2. CASE AccountServer!ExecuteInsert
    <3>1. UNCHANGED <<_accMap, accountVars, wireVars, told>>
      BY <2>1, <2>2 DEF AccountServer!ExecuteInsert, gameOnly, wireVars
    <3> QED
      BY <1>5, <3>1
  <2> QED
    BY <1>10, <1>11, <1>13, <2>1, <2>2 DEF ServerStep
<1>14. CASE UNCHANGED allVars
  BY <1>5, <1>14 DEF allVars, vars, serverVars
<1> QED
  BY <1>2, <1>12, <1>13, <1>14

-----------------------------------------------------------------------------
(* The inductive invariant of the two servers. *)
GameInv ==
    /\ PlayerInv /\ WireTypes /\ ServerInv /\ AnswersMatch /\ OwnerInv
    /\ FirstAsker /\ CreateAnswerOwn

LEMMA GameInvInit == GameInit => GameInv
<1> SUFFICES ASSUME GameInit PROVE GameInv
  OBVIOUS
<1>1. PlayerInv
  BY PlayerInit DEF GameInit
<1>2. ServerInv
  BY ServerInit
<1>3. FirstAsker
  BY AskerInit
<1>4. /\ m_LoginGameIncreament = 0 /\ creates = 0
      /\ m_pLogin = [i \in Increament |-> NoConn]
      /\ m_Creating = [a \in Account |-> NoConn]
      /\ linkUp = TRUE /\ toAccount = <<>> /\ fromAccount = <<>> /\ told = {}
      /\ failed = FALSE
      /\ accid = [c \in Conn |-> NoAccount] /\ player = [c \in Conn |-> 0]
      /\ m_pConnect = [p \in Player |-> NoConn]
  BY DEF GameInit, Init
<1>5. WireTypes
  <2>1. linkUp \in BOOLEAN /\ failed \in BOOLEAN
    BY <1>4
  <2>2. /\ m_LoginGameIncreament \in 0..MaxCheck /\ creates \in 0..MaxCreate
        /\ m_pLogin \in [Increament -> Conn \union {NoConn}]
        /\ m_Creating \in [Account -> Conn \union {NoConn}]
        /\ toAccount \in Seq(CheckRequest \union CreateRequest)
        /\ fromAccount \in Seq(CheckResponse \union CreateResponse)
        /\ told \subseteq Conn \X Account \X Conn
    BY <1>4, PlayerMgrAssumption
  <2> QED
    BY <2>1, <2>2 DEF WireTypes
<1>6. AnswersMatch
  BY <1>4 DEF AnswersMatch, Elems
<1>7. OwnerInv
  <2>1. SessionProven /\ SessionOwnsPlayer
    BY <1>4 DEF SessionProven, SessionOwnsPlayer
  <2>2. OnlineByOwner
    BY <1>1, <1>4 DEF OnlineByOwner, PlayerInv, OnlineInWorld
  <2> QED
    BY <2>1, <2>2 DEF OwnerInv
<1>8. CreateAnswerOwn
  BY <1>4 DEF CreateAnswerOwn
<1> QED
  BY <1>1, <1>2, <1>3, <1>5, <1>6, <1>7, <1>8 DEF GameInv

(* The whole invariant holds in every state the two servers can reach. *)
THEOREM GameInvariant == GameSpec => []GameInv
<1>1. GameInit => GameInv
  BY GameInvInit
<1>2. GameInv /\ [GameNext]_allVars => GameInv'
  <2> SUFFICES ASSUME GameInv, [GameNext]_allVars PROVE GameInv'
    OBVIOUS
  <2>1. /\ PlayerInv /\ WireTypes /\ ServerInv /\ ServerTypes /\ AnswersMatch
        /\ OwnerInv /\ FirstAsker /\ CreateAnswerOwn
    BY DEF GameInv, ServerInv
  <2>2. PlayerInv' /\ WireTypes' /\ ServerInv'
    BY <2>1, PlayerStep, WireStep, ServerStepInv
  <2>3. AnswersMatch' /\ OwnerInv'
    BY <2>1, AnswersStep, OwnerStep
  <2>4. FirstAsker' /\ CreateAnswerOwn'
    BY <2>1, AskerStep
  <2> QED
    BY <2>2, <2>3, <2>4 DEF GameInv
<1> QED
  BY <1>1, <1>2, PTL DEF GameSpec

(* Player::state, m_pConnect, Space 0 and m_AllPlayerID agree whichever of *)
(* any number of connections log a player in, take it over or are closed.  *)
THEOREM PlayersStayInStep == GameSpec => []PlayersAgree
<1>1. GameInv => PlayersAgree
  BY Types DEF GameInv, PlayerInv, ServerInv, PlayersAgree
<1> QED
  BY <1>1, GameInvariant, PTL

(* AccountCheckResponse gives a session only to a connection that sent the *)
(* account's password, however many checks are under way.                  *)
THEOREM OnlyProvenSessions == GameSpec => []SessionProven
<1>1. GameInv => SessionProven
  BY DEF GameInv, OwnerInv
<1> QED
  BY <1>1, GameInvariant, PTL

(* LoginGame and a second AccountCheckResponse leave no session with a     *)
(* player of another account.                                              *)
THEOREM SessionsOwnTheirPlayer == GameSpec => []SessionOwnsPlayer
<1>1. GameInv => SessionOwnsPlayer
  BY DEF GameInv, OwnerInv
<1> QED
  BY <1>1, GameInvariant, PTL

(* A player is online only on a connection that gave the password of an    *)
(* account the player belongs to.                                          *)
THEOREM OnlyOwnersOnline == GameSpec => []OnlineByOwner
<1>1. GameInv => OnlineByOwner
  BY DEF GameInv, OwnerInv
<1> QED
  BY <1>1, GameInvariant, PTL

(* CreatePlayer and loadPlayer never give one id to two accounts. *)
THEOREM PlayerIdsStayUnique == GameSpec => []PlayerIdsUnique
<1>1. GameInv => PlayerIdsUnique
  BY DEF GameInv, PlayerInv
<1> QED
  BY <1>1, GameInvariant, PTL

(* No two rows of table account, written or queued, share an id or a name, *)
(* over any number of restarts of the account server.                      *)
THEOREM AccountRowsStayUnique == GameSpec => []AccountRowsUnique
<1>1. GameInv => AccountRowsUnique
  BY DEF GameInv, ServerInv
<1> QED
  BY <1>1, GameInvariant, PTL

(* Until the link fails, CreateAccountResponse tells the connection that   *)
(* asked, although m_Creating is looked up by name only.                   *)
THEOREM CreateAnswersReachAsker == GameSpec => []CreateAnswerOwn
<1>1. GameInv => CreateAnswerOwn
  BY DEF GameInv
<1> QED
  BY <1>1, GameInvariant, PTL
=============================================================================
