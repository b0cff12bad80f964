----------------------------- MODULE NetService -----------------------------
(***************************************************************************)
(* The connection life cycle of xlib's NetService and NetConnect           *)
(* (hh/xlib/src/netserver/NetService.cpp).                                 *)
(*                                                                         *)
(* Three kinds of thread run at once.  The io thread of the acceptor runs  *)
(* the accept handler OnConnect.  The io thread a connection is assigned   *)
(* to runs its chain of read handlers and the posted handle_close; a       *)
(* connection is served by one io_service with one thread, so its own      *)
(* handlers never overlap.  The main thread calls update() in a loop and   *)
(* stop() once.  They share the three vectors newConnect, NetPackVector    *)
(* and newDisConnect, each behind a mutex of its own: a push is one step,  *)
(* a copy-and-clear is one step, and nothing orders the three with respect *)
(* to one another.                                                         *)
(***************************************************************************)
EXTENDS Naturals, Sequences

CONSTANTS
    Conn,       \* the connections that may be accepted
    MaxPack     \* how many packs one peer sends at most

ASSUME MaxPackAssumption == MaxPack \in Nat

VARIABLES
    acceptor,           \* _acceptor: "open", or "null" once stop() deleted it
    registering,        \* connections whose accept handler has called
                        \* Handshake(0) and not yet pushed to newConnect
    reader,             \* the read each connection has under way
    peer,               \* whether the other end still has the socket open
    received,           \* how many packs each connection has read
    bClose,             \* NetConnect::bClose
    socket,             \* NetConnect::_pSocket
    closePosted,        \* a handle_close is queued in the io_service
    newConnect, NetPackVector, newDisConnect,
    phase,              \* where the main thread is
    walked,             \* i of the loops of stop()
    tmp_newConnect, NetPackVectorTemp, tmp_newDisConnect,
    onConnect,          \* how often observers got OnConnect, per connection
    fired,              \* the packs handed to FireMessage, per connection
    onDisConnect,       \* how often observers got OnDisConnect
    drained,            \* a whole pack phase went by after OnDisConnect
    leftover            \* history: the connections that were queued, as new
                        \* or as broken, when stop() began

connVars == <<acceptor, registering, reader, peer, received>>
sockVars == <<bClose, socket, closePosted>>
queueVars == <<newConnect, NetPackVector, newDisConnect>>
mainVars == <<phase, walked, tmp_newConnect, NetPackVectorTemp, tmp_newDisConnect>>
obsVars == <<onConnect, fired, onDisConnect, drained, leftover>>
vars == <<connVars, sockVars, queueVars, mainVars, obsVars>>

(***************************************************************************)
(* What a connection is waiting for.  "full" is a handshake that filled    *)
(* its 1000 bytes without being recognised: the handler then asks for a    *)
(* read of zero bytes for ever.  "webPacks" is the loop of                 *)
(* ReadWebPackDataReady that cuts packs out of total_data.  "broken" is a  *)
(* chain that called _OnBreak, "ended" one that found _pSocket reset.      *)
(***************************************************************************)
Waiting == {"handshake", "head", "body", "webHead", "webLen", "webData"}
Reading == Waiting \union {"full", "webPacks"}
ReaderStates == Reading \union {"none", "broken", "ended"}

Pack == Conn \X (1..MaxPack)

(* What stop() goes through, and the end of the process by an exception.   *)
Leaving == {"stopNew", "clearNew", "stopBroken", "clearBroken", "stopPool",
            "stopped", "terminated"}
Phases == {"idle", "connect", "pack", "disconnect"} \union Leaving

Init ==
    /\ acceptor = "open"
    /\ registering = {}
    /\ reader = [c \in Conn |-> "none"]
    /\ peer = [c \in Conn |-> "up"]
    /\ received = [c \in Conn |-> 0]
    /\ bClose = [c \in Conn |-> FALSE]
    /\ socket = [c \in Conn |-> "none"]
    /\ closePosted = [c \in Conn |-> FALSE]
    /\ newConnect = <<>> /\ NetPackVector = <<>> /\ newDisConnect = <<>>
    /\ phase = "idle" /\ walked = 0 /\ leftover = {}
    /\ tmp_newConnect = <<>> /\ NetPackVectorTemp = <<>>
    /\ tmp_newDisConnect = <<>>
    /\ onConnect = [c \in Conn |-> 0]
    /\ fired = [c \in Conn |-> <<>>]
    /\ onDisConnect = [c \in Conn |-> 0]
    /\ drained = [c \in Conn |-> FALSE]

(* The io threads run until stop() has stopped the pool.  None of them     *)
(* catches an exception: one that leaves a handler ends the process.       *)
IoRunning == phase \notin {"stopped", "terminated"}

-----------------------------------------------------------------------------
(***************************************************************************)
(* The accept handler.  It starts the first read of the connection, then   *)
(* takes _connectmutex and pushes: the read's handler may run in between,  *)
(* on another io thread.  One accept is outstanding at a time, the next    *)
(* one is started after the push.                                          *)
(***************************************************************************)
OnAccept(c) ==
    /\ IoRunning
    /\ acceptor = "open" /\ registering = {}
    /\ reader[c] = "none"
    /\ reader' = [reader EXCEPT ![c] = "handshake"]
    /\ socket' = [socket EXCEPT ![c] = "open"]
    /\ registering' = {c}
    /\ UNCHANGED <<acceptor, peer, received, bClose, closePosted, queueVars,
                   mainVars, obsVars>>

(* The constructor of NetConnect asks for remote_endpoint(), which throws   *)
(* when the peer has reset the connection already.                         *)
OnAcceptThrows(c) ==
    /\ IoRunning
    /\ acceptor = "open" /\ registering = {}
    /\ reader[c] = "none"
    /\ phase' = "terminated"
    /\ UNCHANGED <<connVars, sockVars, queueVars, walked, tmp_newConnect,
                   NetPackVectorTemp, tmp_newDisConnect, obsVars>>

(* Mutant: the handler accepts again and forgets the push. *)
PushNothing(c) ==
    /\ IoRunning
    /\ c \in registering
    /\ registering' = registering \ {c}
    /\ UNCHANGED <<acceptor, reader, peer, received, sockVars, queueVars,
                   mainVars, obsVars>>

PushNewConnect(c) ==
    /\ IoRunning
    /\ c \in registering
    /\ newConnect' = Append(newConnect, c)
    /\ registering' = registering \ {c}
    /\ UNCHANGED <<acceptor, reader, peer, received, sockVars, NetPackVector,
                   newDisConnect, mainVars, obsVars>>

(* The other end closes its socket, or the network between them fails. *)
PeerClose(c) ==
    /\ IoRunning
    /\ reader[c] # "none" /\ peer[c] = "up"
    /\ peer' = [peer EXCEPT ![c] = "down"]
    /\ UNCHANGED <<acceptor, registering, reader, received, sockVars,
                   queueVars, mainVars, obsVars>>

-----------------------------------------------------------------------------
(***************************************************************************)
(* The read handlers.  Each either asks for the next read, or calls        *)
(* _OnBreak and asks for none, which ends the chain.                       *)
(***************************************************************************)
AskFor(c, read) ==
    reader' = [reader EXCEPT ![c] = IF socket[c] = "open" THEN read ELSE "ended"]

KeepReading(c, from, to) ==
    /\ IoRunning
    /\ reader[c] = from
    /\ AskFor(c, to)
    /\ UNCHANGED <<acceptor, registering, peer, received, sockVars, queueVars,
                   mainVars, obsVars>>

OnBreak(c) ==
    /\ IoRunning
    /\ newDisConnect' = Append(newDisConnect, c)
    /\ reader' = [reader EXCEPT ![c] = "broken"]
    /\ UNCHANGED <<acceptor, registering, peer, received, sockVars, newConnect,
                   NetPackVector, mainVars, obsVars>>

GetNetPack(c) ==
    /\ IoRunning
    /\ received[c] < MaxPack
    /\ received' = [received EXCEPT ![c] = @ + 1]
    /\ NetPackVector' = Append(NetPackVector, <<c, received[c] + 1>>)
    /\ UNCHANGED <<acceptor, registering, peer, sockVars, newConnect,
                   newDisConnect, mainVars, obsVars>>

(* A pack head, a websocket request, or neither yet. *)
OnHandShake(c) ==
    \/ KeepReading(c, "handshake", "body")
    \/ KeepReading(c, "handshake", "webHead")
    \/ KeepReading(c, "handshake", "full")
    \/ reader[c] = "handshake" /\ OnBreak(c)

(* Mutant: no return after _OnBreak, so the body of a bad head is read. *)
ReadReadyHeadNoReturn(c) ==
    /\ IoRunning
    /\ reader[c] = "head"
    /\ AskFor(c, "body")
    /\ newDisConnect' \in {newDisConnect, Append(newDisConnect, c)}
    /\ UNCHANGED <<acceptor, registering, peer, received, sockVars, newConnect,
                   NetPackVector, mainVars, obsVars>>

ReadReadyHead(c) ==
    \/ KeepReading(c, "head", "body")
    \/ reader[c] = "head" /\ OnBreak(c)

ReadReadyBody(c) ==
    /\ reader[c] = "body"
    /\ GetNetPack(c)
    /\ AskFor(c, "head")

ReadWebPackHeadReady(c) ==
    \/ KeepReading(c, "webHead", "webLen")
    \/ reader[c] = "webHead" /\ OnBreak(c)

ReadWebPackHeadBodyReady(c) == KeepReading(c, "webLen", "webData")

ReadWebPackDataReady(c) ==
    /\ IoRunning
    /\ reader[c] = "webData"
    /\ reader' = [reader EXCEPT ![c] = "webPacks"]
    /\ UNCHANGED <<acceptor, registering, peer, received, sockVars, queueVars,
                   mainVars, obsVars>>

(* GetNetPackBuffer: a whole pack (0), too few bytes (1), a bad head (2). *)
CutWebPacks(c) ==
    \/ reader[c] = "webPacks" /\ GetNetPack(c) /\ UNCHANGED reader
    \/ KeepReading(c, "webPacks", "webHead")
    \/ reader[c] = "webPacks" /\ OnBreak(c)

(* Any outstanding read may complete with an error; once the peer has       *)
(* closed it has to.                                                        *)
ReadError(c) == reader[c] \in Waiting /\ OnBreak(c)

ReadEof(c) == peer[c] = "down" /\ ReadError(c)

ReadHandler(c) ==
    \/ OnHandShake(c) \/ ReadReadyHead(c) \/ ReadReadyBody(c)
    \/ ReadWebPackHeadReady(c) \/ ReadWebPackHeadBodyReady(c)
    \/ ReadWebPackDataReady(c) \/ CutWebPacks(c) \/ ReadError(c)

handle_close(c) ==
    /\ IoRunning
    /\ closePosted[c]
    /\ closePosted' = [closePosted EXCEPT ![c] = FALSE]
    /\ socket' = [socket EXCEPT ![c] = "reset"]
    /\ UNCHANGED <<connVars, bClose, queueVars, mainVars, obsVars>>

-----------------------------------------------------------------------------
(***************************************************************************)
(* update(), on the main thread: take and report the new connections, take *)
(* and fire the packs, take and report the broken connections.             *)
(***************************************************************************)
(* Mutant: the vector of new connections is copied and not cleared. *)
TakeConnectsKeep ==
    /\ phase = "idle"
    /\ phase' = "connect"
    /\ tmp_newConnect' = newConnect
    /\ UNCHANGED <<connVars, sockVars, queueVars, walked, NetPackVectorTemp,
                   tmp_newDisConnect, obsVars>>

TakeConnects ==
    /\ phase = "idle"
    /\ phase' = "connect"
    /\ tmp_newConnect' = newConnect
    /\ newConnect' = <<>>
    /\ UNCHANGED <<connVars, sockVars, NetPackVector, newDisConnect,
                   walked, NetPackVectorTemp, tmp_newDisConnect, obsVars>>

NotifyConnect ==
    /\ phase = "connect" /\ tmp_newConnect # <<>>
    /\ onConnect' = [onConnect EXCEPT ![Head(tmp_newConnect)] = @ + 1]
    /\ tmp_newConnect' = Tail(tmp_newConnect)
    /\ UNCHANGED <<connVars, sockVars, queueVars, phase, walked,
                   NetPackVectorTemp, tmp_newDisConnect, fired, onDisConnect,
                   drained, leftover>>

(* Mutant: the pack vector is copied and not cleared. *)
TakePacksKeep ==
    /\ phase = "connect" /\ tmp_newConnect = <<>>
    /\ phase' = "pack"
    /\ NetPackVectorTemp' = NetPackVector
    /\ UNCHANGED <<connVars, sockVars, queueVars, walked, tmp_newConnect,
                   tmp_newDisConnect, obsVars>>

TakePacks ==
    /\ phase = "connect" /\ tmp_newConnect = <<>>
    /\ phase' = "pack"
    /\ NetPackVectorTemp' = NetPackVector
    /\ NetPackVector' = <<>>
    /\ UNCHANGED <<connVars, sockVars, newConnect, newDisConnect, walked,
                   tmp_newConnect, tmp_newDisConnect, obsVars>>

FireMessage ==
    /\ phase = "pack" /\ NetPackVectorTemp # <<>>
    /\ LET p == Head(NetPackVectorTemp)
       IN  fired' = [fired EXCEPT ![p[1]] = Append(@, p[2])]
    /\ NetPackVectorTemp' = Tail(NetPackVectorTemp)
    /\ UNCHANGED <<connVars, sockVars, queueVars, phase, walked,
                   tmp_newConnect, tmp_newDisConnect, onConnect, onDisConnect,
                   drained, leftover>>

TakeDisConnects ==
    /\ phase = "pack" /\ NetPackVectorTemp = <<>>
    /\ phase' = "disconnect"
    /\ tmp_newDisConnect' = newDisConnect
    /\ newDisConnect' = <<>>
    /\ drained' = [c \in Conn |-> onDisConnect[c] > 0]
    /\ UNCHANGED <<connVars, sockVars, newConnect, NetPackVector,
                   walked, tmp_newConnect, NetPackVectorTemp, onConnect, fired,
                   onDisConnect, leftover>>

(* Mutant: bClose is set and handle_close is not posted. *)
CloseSocketNoPost(cs) ==
    /\ bClose' = [c \in Conn |-> c \in cs \/ bClose[c]]
    /\ UNCHANGED closePosted

(* CloseSocket of every connection in cs: a second call posts nothing. *)
CloseSocket(cs) ==
    LET closing == {c \in cs : socket[c] = "open" /\ ~bClose[c]}
    IN  /\ bClose' = [c \in Conn |-> c \in closing \/ bClose[c]]
        /\ closePosted' = [c \in Conn |-> c \in closing \/ closePosted[c]]

NotifyDisConnect ==
    /\ phase = "disconnect" /\ tmp_newDisConnect # <<>>
    /\ CloseSocket({Head(tmp_newDisConnect)})
    /\ onDisConnect' = [onDisConnect EXCEPT ![Head(tmp_newDisConnect)] = @ + 1]
    /\ tmp_newDisConnect' = Tail(tmp_newDisConnect)
    /\ UNCHANGED <<connVars, socket, queueVars, phase, walked, tmp_newConnect,
                   NetPackVectorTemp, onConnect, fired, drained, leftover>>

UpdateDone ==
    /\ phase = "disconnect" /\ tmp_newDisConnect = <<>>
    /\ phase' = "idle"
    /\ UNCHANGED <<connVars, sockVars, queueVars, walked, tmp_newConnect,
                   NetPackVectorTemp, tmp_newDisConnect, obsVars>>

Update == \/ TakeConnects \/ NotifyConnect \/ TakePacks \/ FireMessage
          \/ TakeDisConnects \/ NotifyDisConnect \/ UpdateDone

-----------------------------------------------------------------------------
(***************************************************************************)
(* stop(), from the destructor of the application, after the last update():*)
(* delete the acceptor; close what is queued as new and forget it, then    *)
(* what is queued as broken; stop the io threads.  The mutexes are not     *)
(* taken: io threads push between any two turns of the loops, and between  *)
(* the last turn and the clear.  (A push that moves the vector while it is *)
(* read is not modelled.)                                                  *)
(***************************************************************************)
Elements(s) == {s[i] : i \in DOMAIN s}

StopAccept ==
    /\ phase = "idle"
    /\ phase' = "stopNew" /\ walked' = 0
    /\ acceptor' = "null"
    /\ leftover' = Elements(newConnect) \union Elements(newDisConnect)
    /\ UNCHANGED <<registering, reader, peer, received, sockVars, queueVars,
                   tmp_newConnect, NetPackVectorTemp, tmp_newDisConnect,
                   onConnect, fired, onDisConnect, drained>>

(* Mutant: the loop ends one element early. *)
WalkDoneEarly(v) == walked + 1 >= Len(v)

WalkDone(v) == walked >= Len(v)

(* One turn of the loop over the vector v, or its end. *)
StopWalk(v, walking, clearing) ==
    /\ phase = walking
    /\ \/ /\ ~WalkDone(v)
          /\ CloseSocket({v[walked + 1]})
          /\ walked' = walked + 1
          /\ UNCHANGED phase
       \/ /\ WalkDone(v)
          /\ phase' = clearing
          /\ UNCHANGED <<walked, bClose, closePosted>>
    /\ UNCHANGED <<connVars, socket, queueVars, tmp_newConnect,
                   NetPackVectorTemp, tmp_newDisConnect, obsVars>>

StopClearNew ==
    /\ phase = "clearNew"
    /\ newConnect' = <<>>
    /\ phase' = "stopBroken" /\ walked' = 0
    /\ UNCHANGED <<connVars, sockVars, NetPackVector, newDisConnect,
                   tmp_newConnect, NetPackVectorTemp, tmp_newDisConnect, obsVars>>

StopClearBroken ==
    /\ phase = "clearBroken"
    /\ newDisConnect' = <<>>
    /\ phase' = "stopPool"
    /\ UNCHANGED <<connVars, sockVars, newConnect, NetPackVector, walked,
                   tmp_newConnect, NetPackVectorTemp, tmp_newDisConnect, obsVars>>

StopPool ==
    /\ phase = "stopPool"
    /\ phase' = "stopped"
    /\ UNCHANGED <<connVars, sockVars, queueVars, walked, tmp_newConnect,
                   NetPackVectorTemp, tmp_newDisConnect, obsVars>>

stop == \/ StopAccept
        \/ StopWalk(newConnect, "stopNew", "clearNew") \/ StopClearNew
        \/ StopWalk(newDisConnect, "stopBroken", "clearBroken") \/ StopClearBroken
        \/ StopPool

-----------------------------------------------------------------------------
Next ==
    \/ \E c \in Conn : \/ OnAccept(c) \/ OnAcceptThrows(c) \/ PushNewConnect(c)
                       \/ PeerClose(c) \/ ReadHandler(c) \/ handle_close(c)
    \/ Update
    \/ stop

(***************************************************************************)
(* The main loop calls update() for ever and the io threads run what is    *)
(* ready.  Nothing obliges a peer to send, to hang up, or the operator to  *)
(* stop the server.  What a peer sent before it closed is finite, so a     *)
(* chain that keeps asking for reads meets the end of it (SF), and the     *)
(* loop over total_data ends.                                              *)
(***************************************************************************)
Fairness ==
    /\ WF_vars(Update)
    /\ \A c \in Conn : /\ WF_vars(PushNewConnect(c))
                       /\ WF_vars(handle_close(c))
                       /\ WF_vars(CutWebPacks(c))
                       /\ SF_vars(ReadEof(c))

Spec == Init /\ [][Next]_vars

FairSpec == Spec /\ Fairness

-----------------------------------------------------------------------------
(***************************************************************************)
(* What the observers of the service rely on.                              *)
(***************************************************************************)

(* Every vector holds connections or packs and every counter is a number.  *)
TypeOK ==
    /\ acceptor \in {"open", "null"}
    /\ registering \subseteq Conn
    /\ reader \in [Conn -> ReaderStates]
    /\ peer \in [Conn -> {"up", "down"}]
    /\ received \in [Conn -> 0..MaxPack]
    /\ bClose \in [Conn -> BOOLEAN]
    /\ socket \in [Conn -> {"none", "open", "reset"}]
    /\ closePosted \in [Conn -> BOOLEAN]
    /\ newConnect \in Seq(Conn) /\ tmp_newConnect \in Seq(Conn)
    /\ NetPackVector \in Seq(Pack) /\ NetPackVectorTemp \in Seq(Pack)
    /\ newDisConnect \in Seq(Conn) /\ tmp_newDisConnect \in Seq(Conn)
    /\ phase \in Phases /\ walked \in Nat /\ leftover \subseteq Conn
    /\ onConnect \in [Conn -> Nat] /\ onDisConnect \in [Conn -> Nat]
    /\ fired \in [Conn -> Seq(1..MaxPack)]
    /\ drained \in [Conn -> BOOLEAN]

(* No connection is reported to the observers twice, neither as new nor as *)
(* broken: a chain of reads calls _OnBreak once and CloseSocket does not   *)
(* make it call it again.                                                  *)
ReportedOnce ==
    \A c \in Conn : onConnect[c] <= 1 /\ onDisConnect[c] <= 1

(* update() never closes a connection that is still being read: until      *)
(* stop(), CloseSocket is called for a broken connection only, once it is  *)
(* reported.                                                               *)
LiveNotClosed ==
    phase \notin Leaving =>
        \A c \in Conn : bClose[c] => reader[c] = "broken" /\ onDisConnect[c] = 1

(* The packs that were read and not fired yet, and those of c among them. *)
Queued == NetPackVectorTemp \o NetPackVector
QueuedOf(c) == {i \in DOMAIN Queued : Queued[i][1] = c}

(* The packs of one connection are fired in the order they were read, none *)
(* twice and none missing, whatever the io threads push between the copy   *)
(* and the loop of update(): the first ones are fired, and the others are  *)
(* all in the two vectors, once and in order.                              *)
PacksInOrder ==
    \A c \in Conn :
        /\ Len(fired[c]) <= received[c] /\ \A i \in DOMAIN fired[c] : fired[c][i] = i
        /\ \A i, j \in QueuedOf(c) : i < j => Queued[i][2] < Queued[j][2]
        /\ {Queued[i][2] : i \in QueuedOf(c)} = Len(fired[c]) + 1..received[c]

(* A pack can be fired after its connection was reported broken, because   *)
(* update() takes the packs before the broken connections; but the next    *)
(* update() fires the last of them.                                        *)
QuietAfterDisConnect ==
    [][\A c \in Conn : drained[c] => fired'[c] = fired[c]]_vars

(* stop() leaves no connection open that was queued when it began: as new  *)
(* or as broken, it is closed before the vectors are cleared, whatever io  *)
(* threads push behind it during the two loops.                            *)
StopClosesQueued ==
    phase \in {"stopPool", "stopped"} => \A c \in leftover : bClose[c]

(* A peer that hangs up or fails is reported and its socket closed, unless *)
(* the process ends or the handshake buffer of the connection was filled by*)
(* something that is neither a pack nor a websocket request.               *)
HangUpReported ==
    \A c \in Conn :
        (peer[c] = "down" \/ reader[c] = "broken") ~>
            \/ onDisConnect[c] = 1 /\ socket[c] = "reset"
            \/ reader[c] = "full"
            \/ phase \in Leaving

(* Every connection that the acceptor took is reported to the observers.   *)
AcceptReported ==
    \A c \in Conn :
        reader[c] # "none" ~>
            onConnect[c] = 1 \/ phase \in Leaving

-----------------------------------------------------------------------------
(***************************************************************************)
(* The inductive strengthening of ReportedOnce and LiveNotClosed: where a  *)
(* connection that was not reported yet can be.                            *)
(***************************************************************************)
Distinct(s) == \A i, j \in DOMAIN s : s[i] = s[j] => i = j

(* A connection is queued as broken at most once, only by a chain that has *)
(* ended, and only until it is reported.                                   *)
BrokenOnce ==
    /\ Distinct(newDisConnect) /\ Distinct(tmp_newDisConnect)
    /\ Elements(newDisConnect) \intersect Elements(tmp_newDisConnect) = {}
    /\ \A c \in Elements(newDisConnect) \union Elements(tmp_newDisConnect) :
           reader[c] = "broken" /\ onDisConnect[c] = 0
    /\ \A c \in Conn : onDisConnect[c] > 0 => reader[c] = "broken"

(* A connection is being registered, queued as new in one of two vectors,  *)
(* or reported, and none of these before it was accepted.                  *)
NewOnce ==
    /\ Distinct(newConnect) /\ Distinct(tmp_newConnect)
    /\ Elements(newConnect) \intersect Elements(tmp_newConnect) = {}
    /\ registering \intersect (Elements(newConnect)
                                \union Elements(tmp_newConnect)) = {}
    /\ \A c \in Elements(newConnect) \union Elements(tmp_newConnect)
                \union registering :
           reader[c] # "none" /\ onConnect[c] = 0
    /\ \A c \in Conn : onConnect[c] > 0 => reader[c] # "none"

NetServiceInv ==
    TypeOK /\ BrokenOnce /\ NewOnce /\ ReportedOnce /\ LiveNotClosed
=============================================================================
