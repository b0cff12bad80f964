---------------------------- MODULE MCServerLive ----------------------------
(***************************************************************************)
(* For TLC: four parts of the servers of which something must happen at    *)
(* last.  They share no state and no step, so one run takes each of them   *)
(* by itself: "part" names the one that moves, the others rest in their    *)
(* initial states.                                                         *)
(***************************************************************************)
EXTENDS NetClient

CONSTANTS
    Plain, MaxBreaks,                       \* of Initialer
    Statement, Select, NULL, MaxQueries,    \* of MysqlStmt
    MaxPack                                 \* of NetService

VARIABLES
    part,
    inital_, count, temp, account, db, breaks, response, loaded, call, starts,
    overlapped,
    stmts, CircularQuerys, todo, outcome, turn, log,
    acceptor, registering, reader, peer, received, bClose, socket, closePosted,
    newConnect, NetPackVector, brokenConnect, phase, walked, tmp_newConnect,
    NetPackVectorTemp, tmp_newDisConnect, onConnect, fired, onDisConnect, drained,
    leftover

Start == INSTANCE Initialer
Stmts == INSTANCE MysqlStmt
Service == INSTANCE NetService
             WITH Conn <- {"accepted"}, newDisConnect <- brokenConnect

ASSUME PartsAssumption == Start!InitialerAssumption /\ Stmts!StmtAssumption

startVars == <<inital_, count, temp, account, db, breaks, response, loaded,
               call, starts, overlapped>>
stmtsVars == <<stmts, CircularQuerys, todo, outcome, turn, log>>
serviceVars ==
    <<acceptor, registering, reader, peer, received, bClose, socket, closePosted,
      newConnect, NetPackVector, brokenConnect, phase, walked, tmp_newConnect,
      NetPackVectorTemp, tmp_newDisConnect, onConnect, fired, onDisConnect, drained,
      leftover>>

PartsInit ==
    /\ part \in {"client", "start", "stmts", "service"}
    /\ Init /\ Start!Init /\ Stmts!Init /\ Service!Init

PartsNext ==
    \/ part = "client" /\ Next
       /\ UNCHANGED <<part, startVars, stmtsVars, serviceVars>>
    \/ part = "start" /\ Start!Next
       /\ UNCHANGED <<part, vars, stmtsVars, serviceVars>>
    \/ part = "stmts" /\ Stmts!Next
       /\ UNCHANGED <<part, vars, startVars, serviceVars>>
    \/ part = "service" /\ Service!Next
       /\ UNCHANGED <<part, vars, startVars, stmtsVars>>

(* The fairness of each part, for the behaviours in which it moves. *)
ClientFairness ==
    /\ WF_vars(part = "client" /\ Main) /\ WF_vars(part = "client" /\ WriteTemp)
    /\ SF_vars(part = "client" /\ ReConnect)
    /\ \A c \in Conn : WF_vars(part = "client" /\ c \in closing /\ Break(c))
    /\ SF_vars(part = "client" /\ \E c \in Conn : ConnectSucceeds(c))

StartFairness ==
    /\ WF_startVars(part = "start" /\ \E s \in Start!Service : Start!Initial(s))
    /\ WF_startVars(part = "start" /\ Start!AccountOnConnect)
    /\ WF_startVars(part = "start" /\ Start!DBOnConnect)
    /\ WF_startVars(part = "start" /\ Start!DBAnswers)
    /\ WF_startVars(part = "start" /\ Start!PlayerResponse)
    /\ \A t \in Start!Thread : WF_startVars(part = "start" /\ Start!SetInitStep(t))

StmtsFairness ==
    /\ WF_stmtsVars(part = "stmts" /\ Stmts!Update)
    /\ WF_stmtsVars(part = "stmts" /\ \E s \in Statement : Stmts!StmtUpdate(s))

ServiceFairness ==
    LET c == "accepted"
    IN  /\ WF_serviceVars(part = "service" /\ Service!Update)
        /\ WF_serviceVars(part = "service" /\ Service!PushNewConnect(c))
        /\ WF_serviceVars(part = "service" /\ Service!handle_close(c))
        /\ WF_serviceVars(part = "service" /\ Service!CutWebPacks(c))
        /\ SF_serviceVars(part = "service" /\ Service!ReadEof(c))

PartsSpec ==
    /\ PartsInit /\ [][PartsNext]_<<part, vars, startVars, stmtsVars, serviceVars>>
    /\ ClientFairness /\ StartFairness /\ StmtsFairness /\ ServiceFairness

-----------------------------------------------------------------------------
(* Of Initialer: the server listens only when the players are loaded and   *)
(* every service has been called.                                          *)
StartInv == Start!StartInv

(* Of Initialer: the port is bound once, unless two SetInit overlap.       *)
ListensOnce == Start!ListensOnce

(* Of Initialer: the server listens at last.                               *)
Listens == part = "start" => Start!Listens

(* Of MysqlStmt: every query is in its list, once, until it has run in the *)
(* turn its place gives it.                                                *)
StmtInv == Stmts!StmtInv

(* Of MysqlStmt: every query that was accepted runs.                       *)
AllRun == Stmts!AllRun

(* Of NetService: every accepted connection is reported; a peer that hangs *)
(* up is reported and its socket closed.                                   *)
Reported == Service!AcceptReported /\ Service!HangUpReported

(* Of NetClient: a dead connection is given up when there is no other, and *)
(* when every connection is lost a new one is made.                        *)
Reconnects == DeadReplaced /\ (part = "client" => Recovers)
=============================================================================
