-------------------------- MODULE NetClientProofs ---------------------------
(* Theorems about NetClient, for any set of connections and any bound. *)
EXTENDS NetClient, TLAPS

(* The type invariant is inductive: each pointer is null or a connection,  *)
(* and only sockets that are open are about to be closed.                  *)
THEOREM TypeCorrect == Spec => []TypeOK
<1>1. Init => TypeOK
  <2>1. Idle \in [busy : BOOLEAN, conn : Ptr]
    BY DEF Idle, Ptr
  <2>2. 1 \in 0..MaxInflight
    BY NetClientAssumption
  <2> QED
    BY <2>1, <2>2 DEF Init, TypeOK, Ptr
<1>2. TypeOK /\ [Next]_vars => TypeOK'
  <2> SUFFICES ASSUME TypeOK, [Next]_vars PROVE TypeOK'
    OBVIOUS
  <2> USE NetClientAssumption DEF TypeOK, Ptr
  <2>1. CASE ConnectFails
    BY <2>1 DEF ConnectFails, Writes, IoUnchanged
  <2>2. CASE WriteTemp
    BY <2>2 DEF WriteTemp, Idle
  <2>3. ASSUME NEW c \in Conn, ConnectSucceeds(c) PROVE TypeOK'
    BY <2>3 DEF ConnectSucceeds, Writes, IoUnchanged
  <2>4. ASSUME NEW c \in Conn, Break(c) PROVE TypeOK'
    BY <2>4 DEF Break, Writes, IoUnchanged
  <2>5. CASE ReConnect
    BY <2>5 DEF ReConnect, Connect, MainUnchanged
  <2>6. CASE UpdateBegin
    BY <2>6 DEF UpdateBegin, MainUnchanged
  <2>7. CASE ReadConnect
    BY <2>7 DEF ReadConnect, MainUnchanged
  <2>8. CASE Adopt
    BY <2>8 DEF Adopt, MainUnchanged
  <2>9. CASE ReadDisconnect
    BY <2>9 DEF ReadDisconnect, MainUnchanged
  <2>10. CASE Drop
    BY <2>10 DEF Drop, Connect, MainUnchanged
  <2>11. CASE UNCHANGED vars
    BY <2>11 DEF vars
  <2> QED
    BY <2>1, <2>2, <2>3, <2>4, <2>5, <2>6, <2>7, <2>8, <2>9, <2>10, <2>11
    DEF Next, Io, Main
<1> QED
  BY <1>1, <1>2, PTL DEF Spec

(* While update() acts on a status it has read, the status is not free:    *)
(* the io thread writes only connect and disconnect.                       *)
StatusSet == pc \in {"adopt", "drop"} => conn_status # "free"

(* A client without a connection always has a status to act on, a connect  *)
(* under way or the reconnect timer, in every interleaving of update()     *)
(* with the io thread and at each point inside update().                   *)
THEOREM ClientNeverGivesUp == Spec => []NeverGivesUp
<1> DEFINE Inv == StatusSet /\ NeverGivesUp
<1>1. Init => Inv
  BY DEF Init, StatusSet, NeverGivesUp
<1>2. TypeOK /\ Inv /\ [Next]_vars => Inv'
  <2> SUFFICES ASSUME TypeOK, Inv, [Next]_vars PROVE Inv'
    OBVIOUS
  <2> USE NetClientAssumption DEF TypeOK, StatusSet, NeverGivesUp
  <2>1. CASE ConnectFails
    BY <2>1 DEF ConnectFails, IoUnchanged
  <2>2. CASE WriteTemp
    BY <2>2 DEF WriteTemp
  <2>3. ASSUME NEW c \in Conn, ConnectSucceeds(c) PROVE Inv'
    BY <2>3 DEF ConnectSucceeds, IoUnchanged
  <2>4. ASSUME NEW c \in Conn, Break(c) PROVE Inv'
    BY <2>4 DEF Break, IoUnchanged
  <2>5. CASE ReConnect
    BY <2>5 DEF ReConnect, Connect
  <2>6. CASE UpdateBegin
    BY <2>6 DEF UpdateBegin
  <2>7. CASE ReadConnect
    BY <2>7 DEF ReadConnect
  <2>8. CASE Adopt
    BY <2>8 DEF Adopt
  <2>9. CASE ReadDisconnect
    BY <2>9 DEF ReadDisconnect
  <2>10. CASE Drop
    BY <2>10 DEF Drop, Connect
  <2>11. CASE UNCHANGED vars
    BY <2>11 DEF vars
  <2> QED
    BY <2>1, <2>2, <2>3, <2>4, <2>5, <2>6, <2>7, <2>8, <2>9, <2>10, <2>11
    DEF Next, Io, Main
<1> QED
  BY <1>1, <1>2, TypeCorrect, PTL DEF Spec
=============================================================================
