------------------------------ MODULE NetClient -----------------------------
(***************************************************************************)
(* The reconnecting end of a link between two servers: xlib::NetClient     *)
(* (xlib/src/netserver/NetClient.cpp) with the client half of NetService.  *)
(* The one io thread of its NetService reports connects and breaks by      *)
(* writing conn_status and then m_pConnectTemp; update(), on the main      *)
(* thread, reads them.  No lock orders the two threads.  Each read and     *)
(* each write below is a step of its own; a race on the shared pointer     *)
(* m_pConnectTemp gives the old or the new pointer.                        *)
(*                                                                         *)
(* The packs kept for resending are left out: no caller asks for them      *)
(* (bResend is FALSE in every call).                                       *)
(***************************************************************************)
EXTENDS Naturals, FiniteSets

CONSTANTS
    Conn,               \* NetConnect objects
    NoConn,             \* the null ConnectPtr
    MaxInflight         \* bound: connects under way at once

ASSUME NetClientAssumption ==
    /\ NoConn \notin Conn
    /\ MaxInflight \in Nat \ {0}

VARIABLES
    conn_status, m_pConnect, m_pConnectTemp,
    tTimer,             \* the reconnect timer is set
    inflight,           \* async_connects that have not completed
    open,               \* connections whose read chain is alive
    newDisConnect,      \* handed to NetService::OnDisConnect
    closing,            \* CloseSocket has posted handle_close
    io,                 \* the second write of the io thread's handler
    pc                  \* where update() is

vars == <<conn_status, m_pConnect, m_pConnectTemp, tTimer, inflight, open,
          newDisConnect, closing, io, pc>>

Ptr == Conn \union {NoConn}
Idle == [busy |-> FALSE, conn |-> NoConn]
Writes(c) == [busy |-> TRUE, conn |-> c]

TypeOK ==
    /\ conn_status \in {"free", "connect", "disconnect"}
    /\ m_pConnect \in Ptr /\ m_pConnectTemp \in Ptr
    /\ tTimer \in BOOLEAN
    /\ inflight \in 0..MaxInflight
    /\ open \subseteq Conn /\ newDisConnect \subseteq Conn
    /\ closing \subseteq open
    /\ io \in [busy : BOOLEAN, conn : Ptr]
    /\ pc \in {"idle", "connect", "adopt", "disconnect", "drop"}

(* ConnectTo, called once by Initial(). *)
Init ==
    /\ conn_status = "free"
    /\ m_pConnect = NoConn /\ m_pConnectTemp = NoConn
    /\ tTimer = FALSE
    /\ inflight = 1
    /\ open = {} /\ newDisConnect = {} /\ closing = {}
    /\ io = Idle /\ pc = "idle"

-----------------------------------------------------------------------------
(* The io thread.  A handler makes the first write of OnConnect or         *)
(* OnDisConnect here and the second one in WriteTemp.                      *)
IoUnchanged == UNCHANGED <<m_pConnect, m_pConnectTemp, tTimer, newDisConnect, pc>>

(* No pointer to c is left: the object may be a new one. *)
Fresh(c) == c \notin open \union newDisConnect \union {m_pConnect, m_pConnectTemp}

ConnectSucceeds(c) ==
    /\ ~io.busy /\ inflight > 0 /\ Fresh(c)
    /\ inflight' = inflight - 1
    /\ open' = open \union {c}
    /\ conn_status' = "connect"
    /\ io' = Writes(c)
    /\ UNCHANGED closing /\ IoUnchanged

ConnectFails ==
    /\ ~io.busy /\ inflight > 0
    /\ inflight' = inflight - 1
    /\ conn_status' = "disconnect"
    /\ io' = Writes(NoConn)
    /\ UNCHANGED <<open, closing>> /\ IoUnchanged

(* Mutant: OnDisConnect reports only the connection in m_pConnect. *)
BreakOfTheOther(c) ==
    /\ ~io.busy /\ c \in open
    /\ open' = open \ {c} /\ closing' = closing \ {c}
    /\ conn_status' = IF c = m_pConnectTemp THEN conn_status ELSE "disconnect"
    /\ io' = Writes(c)
    /\ UNCHANGED inflight /\ IoUnchanged

(* The read of c fails: the peer closed it, or handle_close did. *)
Break(c) ==
    /\ ~io.busy /\ c \in open
    /\ open' = open \ {c} /\ closing' = closing \ {c}
    /\ conn_status' = "disconnect"
    /\ io' = Writes(c)
    /\ UNCHANGED inflight /\ IoUnchanged

WriteTemp ==
    /\ io.busy
    /\ m_pConnectTemp' = io.conn
    /\ io' = Idle
    /\ UNCHANGED <<conn_status, m_pConnect, tTimer, inflight, open,
                   newDisConnect, closing, pc>>

-----------------------------------------------------------------------------
(* The main thread.                                                        *)
MainUnchanged == UNCHANGED <<m_pConnectTemp, open, io>>

(* A connect beyond the bound is one of those under way. *)
Connect == inflight' = IF inflight < MaxInflight THEN inflight + 1 ELSE inflight

(* The reconnect timer: TimerManager calls ReConnect between two updates,  *)
(* whatever has become of the connects before.                             *)
ReConnect ==
    /\ pc = "idle" /\ tTimer
    /\ Connect
    /\ UNCHANGED <<conn_status, m_pConnect, tTimer, newDisConnect, closing, pc>>
    /\ MainUnchanged

(* NetService::update() closes the sockets handed to it. *)
UpdateBegin ==
    /\ pc = "idle"
    /\ closing' = closing \union (newDisConnect \intersect open)
    /\ newDisConnect' = {}
    /\ pc' = "connect"
    /\ UNCHANGED <<conn_status, m_pConnect, tTimer, inflight>> /\ MainUnchanged

(* conn_status is read the first time. *)
ReadConnect ==
    /\ pc = "connect"
    /\ pc' = IF conn_status # "connect" THEN "disconnect"
             ELSE IF m_pConnect # NoConn THEN "idle" ELSE "adopt"
    /\ UNCHANGED <<conn_status, m_pConnect, tTimer, inflight, newDisConnect,
                   closing>>
    /\ MainUnchanged

(* Mutant: the status is taken back once it has been handled. *)
AdoptAndFree ==
    /\ pc = "adopt"
    /\ m_pConnect' = m_pConnectTemp
    /\ tTimer' = FALSE
    /\ conn_status' = "free"
    /\ pc' = "disconnect"
    /\ UNCHANGED <<inflight, newDisConnect, closing>> /\ MainUnchanged

Adopt ==
    /\ pc = "adopt"
    /\ m_pConnect' = m_pConnectTemp
    /\ tTimer' = FALSE
    /\ pc' = "disconnect"
    /\ UNCHANGED <<conn_status, inflight, newDisConnect, closing>>
    /\ MainUnchanged

(* Mutant: only a connection that was up is made again. *)
ReadDisconnectOfUp ==
    /\ pc = "disconnect"
    /\ pc' = IF conn_status = "disconnect" /\ m_pConnect # NoConn
             THEN "drop" ELSE "idle"
    /\ UNCHANGED <<conn_status, m_pConnect, tTimer, inflight, newDisConnect,
                   closing>>
    /\ MainUnchanged

(* conn_status is read the second time. *)
ReadDisconnect ==
    /\ pc = "disconnect"
    /\ pc' = IF conn_status = "disconnect" THEN "drop" ELSE "idle"
    /\ UNCHANGED <<conn_status, m_pConnect, tTimer, inflight, newDisConnect,
                   closing>>
    /\ MainUnchanged

(* Whatever the io thread has written to conn_status since it was read is  *)
(* overwritten.                                                            *)
Drop ==
    /\ pc = "drop"
    /\ newDisConnect' = newDisConnect \union ({m_pConnect} \ {NoConn})
    /\ m_pConnect' = NoConn
    /\ conn_status' = "free"
    /\ Connect /\ tTimer' = TRUE
    /\ pc' = "idle"
    /\ UNCHANGED closing /\ MainUnchanged

-----------------------------------------------------------------------------
Io == ConnectFails \/ WriteTemp \/ \E c \in Conn : ConnectSucceeds(c) \/ Break(c)
Main == UpdateBegin \/ ReadConnect \/ Adopt \/ ReadDisconnect \/ Drop
Next == Io \/ ReConnect \/ Main

(* The main loop turns and the timer in it; a handler of the io thread     *)
(* runs to its end and handle_close is run.  The peer accepts a connection *)
(* if it is asked again and again.                                         *)
Fairness ==
    /\ WF_vars(Main) /\ WF_vars(WriteTemp) /\ SF_vars(ReConnect)
    /\ \A c \in Conn : WF_vars(c \in closing /\ Break(c))
    /\ SF_vars(\E c \in Conn : ConnectSucceeds(c))

Spec == Init /\ [][Next]_vars /\ Fairness

-----------------------------------------------------------------------------
(* A client without a connection never gives up: something is always left  *)
(* that makes update() or the timer act again, although Drop overwrites    *)
(* what the io thread wrote and Adopt removes the timer on the word of a   *)
(* status whose connection is not there yet.                               *)
NeverGivesUp ==
    m_pConnect = NoConn => conn_status # "free" \/ inflight > 0 \/ tTimer

(* A dead connection in m_pConnect is given up, unless another one is up:  *)
(* the break is not lost between the reads of update().                    *)
DeadReplaced ==
    (m_pConnect # NoConn /\ open = {}) ~> (m_pConnect = NoConn \/ open # {})

(* When every connection is lost a new one is made, as long as the peer    *)
(* accepts connections again.                                              *)
Recovers == (open = {}) ~> (open # {})
=============================================================================
