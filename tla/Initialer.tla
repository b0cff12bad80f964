----------------------------- MODULE Initialer ------------------------------
(***************************************************************************)
(* The start of the game server (hh/Initialer.cpp, with Application,       *)
(* AccountNetClient and DBNetClient in hh/).  initial_mgr holds the set    *)
(* inital_ of services that are not ready; the constructor of Application  *)
(* calls Initial() of each, in the order of their addresses.  A plain      *)
(* service is ready at once.  The account server's client is ready when    *)
(* its io thread reports a connection, the database's client when the main *)
(* loop has handled the list of players.  The service that empties the set *)
(* makes the server listen.                                                *)
(*                                                                         *)
(* SetInit runs on the main thread and on the account client's io thread,  *)
(* and no lock protects the set.  Its calls of std::set are steps; erase   *)
(* takes two, in which the other thread may read the old count or, in a    *)
(* tree that is being rebalanced, miss its own node.                       *)
(***************************************************************************)
EXTENDS Integers, FiniteSets

CONSTANTS
    Plain,              \* services with Initialer's own Initial()
    MaxBreaks           \* bound: breaks of each of the two connections

InitialerAssumption ==
    /\ {"account", "db"} \cap Plain = {} /\ IsFiniteSet(Plain)
    /\ MaxBreaks \in Nat

VARIABLES
    inital_, count,     \* the set's nodes, and what size() returns
    temp,               \* services mgr_Initial has not called yet
    account, db,        \* the two connections
    breaks,             \* breaks so far, of each
    response,           \* lists of players received and not handled
    loaded,             \* loadPlayer has run
    call,               \* where each thread is in SetInit, and for whom
    starts,             \* calls of AllInitialOK
    overlapped          \* history: SetInit of both threads overlapped

vars == <<inital_, count, temp, account, db, breaks, response, loaded, call,
          starts, overlapped>>

Service == Plain \union {"account", "db"}
Thread == {"main", "io"}
Other(t) == IF t = "main" THEN "io" ELSE "main"
Idle == [at |-> "none", who |-> "db", size |-> 0]
SetInit(s) == [at |-> "find", who |-> s, size |-> 0]
Free(t) == call[t].at = "none"

TypeOK ==
    /\ inital_ \subseteq Service /\ temp \subseteq Service
    /\ count \in 0..Cardinality(Service)
    /\ account \in {"off", "connecting", "up"}
    /\ db \in {"off", "connecting", "asked", "answered"}
    /\ breaks \in [{"account", "db"} -> 0..MaxBreaks]
    /\ response \in 0..MaxBreaks + 1
    /\ loaded \in BOOLEAN /\ overlapped \in BOOLEAN
    /\ call \in [Thread -> [at : {"none", "find", "erase", "erasing", "size"},
                            who : Service, size : Int]]
    /\ starts \in Nat

(* The services have been constructed and SetCallBack has been called. *)
Init ==
    /\ inital_ = Service /\ count = Cardinality(Service)
    /\ temp = Service
    /\ account = "off" /\ db = "off"
    /\ breaks = [c \in {"account", "db"} |-> 0]
    /\ response = 0 /\ loaded = FALSE
    /\ call = [t \in Thread |-> Idle]
    /\ starts = 0 /\ overlapped = FALSE

-----------------------------------------------------------------------------
(* Mutant: the clients' Initial() also calls Initialer's own. *)
InitialOfAll(s) ==
    /\ Free("main") /\ s \in temp
    /\ temp' = temp \ {s}
    /\ account' = IF s = "account" THEN "connecting" ELSE account
    /\ db' = IF s = "db" THEN "connecting" ELSE db
    /\ call' = [call EXCEPT !["main"] = SetInit(s)]
    /\ UNCHANGED <<inital_, count, breaks, response, loaded, starts, overlapped>>

(* mgr_Initial calls Initial() of a service. *)
Initial(s) ==
    /\ Free("main") /\ s \in temp
    /\ temp' = temp \ {s}
    /\ account' = IF s = "account" THEN "connecting" ELSE account
    /\ db' = IF s = "db" THEN "connecting" ELSE db
    /\ call' = IF s \in Plain THEN [call EXCEPT !["main"] = SetInit(s)] ELSE call
    /\ UNCHANGED <<inital_, count, breaks, response, loaded, starts, overlapped>>

-----------------------------------------------------------------------------
(* The two connections.  NetClient connects again after a break. *)
SetUnchanged == UNCHANGED <<inital_, count, temp, starts, overlapped>>

(* AccountNetClient::OnConnect, on its io thread. *)
AccountOnConnect ==
    /\ account = "connecting" /\ Free("io")
    /\ account' = "up"
    /\ call' = [call EXCEPT !["io"] = SetInit("account")]
    /\ UNCHANGED <<db, breaks, response, loaded>> /\ SetUnchanged

AccountBreaks ==
    /\ account = "up" /\ Free("io") /\ breaks["account"] < MaxBreaks
    /\ account' = "connecting"
    /\ breaks' = [breaks EXCEPT !["account"] = @ + 1]
    /\ UNCHANGED <<db, response, loaded, call>> /\ SetUnchanged

(* Mutant: the list of players is asked for on the first connect only. *)
DBOnConnectAsksOnce ==
    /\ db = "connecting"
    /\ db' = IF breaks["db"] = 0 THEN "asked" ELSE "answered"
    /\ UNCHANGED <<account, breaks, response, loaded, call>> /\ SetUnchanged

(* DBNetClient::OnConnect asks for the list of players. *)
DBOnConnect ==
    /\ db = "connecting"
    /\ db' = "asked"
    /\ UNCHANGED <<account, breaks, response, loaded, call>> /\ SetUnchanged

(* The database's answer arrives in the queue of the client's NetService. *)
DBAnswers ==
    /\ db = "asked"
    /\ db' = "answered"
    /\ response' = response + 1
    /\ UNCHANGED <<account, breaks, loaded, call>> /\ SetUnchanged

(* A break loses the request or the answer under way. *)
DBBreaks ==
    /\ db \in {"asked", "answered"} /\ breaks["db"] < MaxBreaks
    /\ db' = "connecting"
    /\ breaks' = [breaks EXCEPT !["db"] = @ + 1]
    /\ UNCHANGED <<account, response, loaded, call>> /\ SetUnchanged

(* DBNetClient::PlayerResponse, from update() in the main loop. *)
PlayerResponse ==
    /\ temp = {} /\ Free("main") /\ response > 0
    /\ response' = response - 1
    /\ loaded' = TRUE
    /\ call' = [call EXCEPT !["main"] = SetInit("db")]
    /\ UNCHANGED <<account, db, breaks>> /\ SetUnchanged

-----------------------------------------------------------------------------
(* SetInit, step by step, on thread t. *)
CallUnchanged == UNCHANGED <<temp, account, db, breaks, response, loaded>>

Goes(t, at) == call' = [call EXCEPT ![t].at = at]
Returns(t) == call' = [call EXCEPT ![t] = Idle]

(* Mutant: no return for a service that is ready already. *)
FindAnyway(t) ==
    /\ call[t].at = "find"
    /\ Goes(t, "erase")
    /\ overlapped' = (overlapped \/ call[Other(t)].at = "erasing")
    /\ UNCHANGED <<inital_, count, starts>> /\ CallUnchanged

Find(t) ==
    /\ call[t].at = "find"
    /\ \/ call[t].who \in inital_ /\ Goes(t, "erase")
       \/ call[t].who \notin inital_ /\ Returns(t)
       \/ call[Other(t)].at = "erasing" /\ Returns(t)
    /\ overlapped' = (overlapped \/ call[Other(t)].at = "erasing")
    /\ UNCHANGED <<inital_, count, starts>> /\ CallUnchanged

EraseBegins(t) ==
    /\ call[t].at = "erase"
    /\ call' = [call EXCEPT ![t].at = "erasing", ![t].size = count]
    /\ overlapped' = (overlapped \/ call[Other(t)].at \in {"erasing", "size"})
    /\ UNCHANGED <<inital_, count, starts>> /\ CallUnchanged

EraseEnds(t) ==
    /\ call[t].at = "erasing"
    /\ inital_' = inital_ \ {call[t].who}
    /\ count' = IF call[t].who \in inital_ THEN call[t].size - 1 ELSE call[t].size
    /\ Goes(t, "size")
    /\ UNCHANGED <<starts, overlapped>> /\ CallUnchanged

(* The test of size(), and AllInitialOK. *)
TestSize(t) ==
    /\ call[t].at = "size"
    /\ starts' = IF count = 0 THEN starts + 1 ELSE starts
    /\ Returns(t)
    /\ UNCHANGED <<inital_, count, overlapped>> /\ CallUnchanged

SetInitStep(t) == Find(t) \/ EraseBegins(t) \/ EraseEnds(t) \/ TestSize(t)

Next ==
    \/ \E s \in Service : Initial(s)
    \/ AccountOnConnect \/ AccountBreaks
    \/ DBOnConnect \/ DBAnswers \/ DBBreaks
    \/ PlayerResponse
    \/ \E t \in Thread : SetInitStep(t)

(* Both threads run; the peers accept a connection and answer at last. *)
Fairness ==
    /\ WF_vars(\E s \in Service : Initial(s))
    /\ WF_vars(AccountOnConnect) /\ WF_vars(DBOnConnect) /\ WF_vars(DBAnswers)
    /\ WF_vars(PlayerResponse)
    /\ \A t \in Thread : WF_vars(SetInitStep(t))

Spec == Init /\ [][Next]_vars /\ Fairness

-----------------------------------------------------------------------------
(* The account server has been connected, now or before a break. *)
AccountConnected == account = "up" \/ breaks["account"] > 0

(* The server listens only when the constructor has called every service,  *)
(* an answer with the players has been loaded and the account server has   *)
(* been connected, whatever the threads read of each other's erase.  The   *)
(* connection may have broken again by then, and an answer may be empty    *)
(* because the select failed.                                              *)
ReadyBeforeListen ==
    starts > 0 => temp = {} /\ loaded /\ AccountConnected /\ inital_ = {}

(* The start is sound: the set and its count stay within the services, and *)
(* nothing listens too early.                                              *)
StartInv == TypeOK /\ ReadyBeforeListen

(* As long as no two calls of SetInit overlap, the server starts listening *)
(* once, however often the two connections break and come back: a second   *)
(* start() would bind the port again.                                      *)
ListensOnce == ~overlapped => starts <= 1

(* The server listens at last, through lost requests and answers, or two   *)
(* calls of SetInit have overlapped, which may leave the count too high or *)
(* a service in the set.                                                   *)
Listens == <>(starts > 0 \/ overlapped)
=============================================================================
