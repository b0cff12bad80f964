----------------------------- MODULE SqlThread ------------------------------
(***************************************************************************)
(* Asynchronous statements of xlib: DBService (mysql/DBService.cpp) and    *)
(* its worker threads SqlThread (mysql/DBSqlThread.cpp).                   *)
(*                                                                         *)
(* The main thread asks for statements, calls Update() and finally deletes *)
(* the service; each worker runs ThreadFunction.  A section under a mutex  *)
(* is one step; what the code does outside of it is a step of its own: the *)
(* test of bExit, notify_all after the unlock, the statement itself, the   *)
(* callbacks.  A statement is known by its number, in the order of asking. *)
(* Failure of a statement changes only its text: case 1 falls through to   *)
(* case 0, so both call func.                                              *)
(***************************************************************************)
EXTENDS Naturals, Sequences

CONSTANTS
    N,          \* vecThread.size()
    Key,        \* the keys statements are asked for with
    MaxCmd      \* bound on statements

ASSUME SqlThreadAssumption == N \in Nat \ {0} /\ Key \subseteq Nat /\ MaxCmd \in Nat

Thread == 0..N - 1

VARIABLES
    keyOf,          \* history: the key of each statement
    querysql,       \* per worker, under its mutex
    bExit,          \* per worker, under no mutex
    pc, cur,        \* per worker: where ThreadFunction is, and commd
    result,         \* DBService::result, under DBService::mutex
    temp,           \* the local copy of Update()
    at, target,     \* where the main thread is, and the worker it deals with
    executed,       \* history: statements given to the database
    called          \* history: callbacks made

workerVars == <<querysql, bExit, pc, cur>>
mainVars == <<at, target>>
vars == <<keyOf, workerVars, result, temp, mainVars, executed, called>>

Init ==
    /\ keyOf = <<>>
    /\ querysql = [t \in Thread |-> <<>>]
    /\ bExit = [t \in Thread |-> FALSE]
    /\ pc = [t \in Thread |-> "loop"]
    /\ cur = [t \in Thread |-> 0]
    /\ result = <<>> /\ temp = <<>>
    /\ at = "run" /\ target = 0
    /\ executed = {} /\ called = {}

-----------------------------------------------------------------------------
(* The main thread.                                                        *)

(* Mutant: the workers take turns whatever the key. *)
RouteInTurn(k) == Len(keyOf) % N

(* key % vecThread.size() *)
Route(k) == k % N

(* Mutant: notify_all is forgotten. *)
AsynNoNotify(k) ==
    /\ at = "run" /\ Len(keyOf) < MaxCmd
    /\ keyOf' = Append(keyOf, k)
    /\ querysql' = [querysql EXCEPT ![Route(k)] = Append(@, Len(keyOf) + 1)]
    /\ target' = Route(k)
    /\ UNCHANGED <<bExit, pc, cur, result, temp, at, executed, called>>

(* asynQuery, asynExcute, from the main loop or from a callback: push_back *)
(* under the mutex; notify_all comes after the unlock.                     *)
Asyn(k) ==
    /\ at = "run" /\ Len(keyOf) < MaxCmd
    /\ keyOf' = Append(keyOf, k)
    /\ querysql' = [querysql EXCEPT ![Route(k)] = Append(@, Len(keyOf) + 1)]
    /\ at' = "notify" /\ target' = Route(k)
    /\ UNCHANGED <<bExit, pc, cur, result, temp, executed, called>>

(* variable.notify_all() *)
NotifyAll ==
    /\ at \in {"notify", "closeNotify"}
    /\ at' = IF at = "notify" THEN "run" ELSE "join"
    /\ pc' = [pc EXCEPT ![target] = IF @ = "wait" THEN "loop" ELSE @]
    /\ UNCHANGED <<keyOf, querysql, bExit, cur, result, temp, target, executed,
                   called>>

(* Update(): the results are copied and cleared under the mutex ... *)
Update ==
    /\ at = "run" /\ temp = <<>>
    /\ temp' = result /\ result' = <<>>
    /\ UNCHANGED <<keyOf, workerVars, mainVars, executed, called>>

(* ... and the callbacks are made without it. *)
Callback ==
    /\ at = "run" /\ temp # <<>>
    /\ called' = called \union {Head(temp)}
    /\ temp' = Tail(temp)
    /\ UNCHANGED <<keyOf, workerVars, result, mainVars, executed>>

(* ~DBService deletes the workers one after the other. *)
Delete ==
    /\ at = "run" /\ temp = <<>>
    /\ at' = "close" /\ target' = 0
    /\ UNCHANGED <<keyOf, workerVars, result, temp, executed, called>>

(* ~SqlThread: close() sets bExit and notifies, then the worker is joined. *)
Close ==
    /\ at = "close"
    /\ bExit' = [bExit EXCEPT ![target] = TRUE]
    /\ at' = "closeNotify"
    /\ UNCHANGED <<keyOf, querysql, pc, cur, result, temp, target, executed,
                   called>>

Join ==
    /\ at = "join" /\ pc[target] = "done"
    /\ at' = IF target + 1 < N THEN "close" ELSE "end"
    /\ target' = IF target + 1 < N THEN target + 1 ELSE target
    /\ UNCHANGED <<keyOf, workerVars, result, temp, executed, called>>

-----------------------------------------------------------------------------
(* A worker.                                                               *)

(* while (!bExit), read without the mutex. *)
CheckExit(t) ==
    /\ pc[t] = "loop"
    /\ pc' = [pc EXCEPT ![t] = IF bExit[t] THEN "drain" ELSE "lock"]
    /\ UNCHANGED <<keyOf, querysql, bExit, cur, result, temp, mainVars,
                   executed, called>>

(* commd = front, then pop_front. *)
TakeFront(t) ==
    /\ cur' = [cur EXCEPT ![t] = Head(querysql[t])]
    /\ querysql' = [querysql EXCEPT ![t] = Tail(@)]
    /\ pc' = [pc EXCEPT ![t] = "process"]

(* Under the mutex: wait, which gives the mutex back, or take. *)
LockQueue(t) ==
    /\ pc[t] = "lock"
    /\ \/ /\ querysql[t] = <<>>
          /\ pc' = [pc EXCEPT ![t] = "wait"]
          /\ UNCHANGED <<querysql, cur>>
       \/ querysql[t] # <<>> /\ TakeFront(t)
    /\ UNCHANGED <<keyOf, bExit, result, temp, mainVars, executed, called>>

(* A condition variable may wake without a notification. *)
SpuriousWake(t) ==
    /\ pc[t] = "wait"
    /\ pc' = [pc EXCEPT ![t] = "loop"]
    /\ UNCHANGED <<keyOf, querysql, bExit, cur, result, temp, mainVars,
                   executed, called>>

(* Mutant: the thread ends without looking at what is still queued. *)
DrainNothing(t) ==
    /\ pc[t] = "drain"
    /\ pc' = [pc EXCEPT ![t] = "done"]
    /\ UNCHANGED <<keyOf, querysql, bExit, cur, result, temp, mainVars,
                   executed, called>>

(* After the loop: the rest of the list, in order and without the mutex.   *)
(* The code walks the list and leaves it; nothing reads it any more.       *)
Drain(t) ==
    /\ pc[t] = "drain"
    /\ \/ /\ querysql[t] = <<>>
          /\ pc' = [pc EXCEPT ![t] = "done"]
          /\ UNCHANGED <<querysql, cur>>
       \/ querysql[t] # <<>> /\ TakeFront(t)
    /\ UNCHANGED <<keyOf, bExit, result, temp, mainVars, executed, called>>

ProcessSql(t) ==
    /\ pc[t] = "process"
    /\ executed' = executed \union {cur[t]}
    /\ pc' = [pc EXCEPT ![t] = "post"]
    /\ UNCHANGED <<keyOf, querysql, bExit, cur, result, temp, mainVars, called>>

(* Mutant: the newest result is put first. *)
OnGetResultFront(t) ==
    /\ pc[t] = "post"
    /\ result' = <<cur[t]>> \o result
    /\ pc' = [pc EXCEPT ![t] = "loop"]
    /\ UNCHANGED <<keyOf, querysql, bExit, cur, temp, mainVars, executed, called>>

(* func is DBService::OnGetResult.  bExit stays set, so a worker that was  *)
(* draining goes on draining.                                              *)
OnGetResult(t) ==
    /\ pc[t] = "post"
    /\ result' = Append(result, cur[t])
    /\ pc' = [pc EXCEPT ![t] = "loop"]
    /\ UNCHANGED <<keyOf, querysql, bExit, cur, temp, mainVars, executed, called>>

Worker(t) == CheckExit(t) \/ LockQueue(t) \/ Drain(t) \/ ProcessSql(t)
               \/ OnGetResult(t)

Next ==
    \/ \E k \in Key : Asyn(k)
    \/ NotifyAll \/ Update \/ Callback \/ Delete \/ Close \/ Join
    \/ \E t \in Thread : Worker(t) \/ SpuriousWake(t)

Spec == Init /\ [][Next]_vars

(* Threads are scheduled; the main loop calls Update() again and again     *)
(* (xx_game/Application.cpp:72-75) and goes through what it has begun.     *)
Fairness ==
    /\ \A t \in Thread : WF_vars(Worker(t))
    /\ WF_vars(NotifyAll \/ Update \/ Callback \/ Close \/ Join)

FairSpec == Spec /\ Fairness

-----------------------------------------------------------------------------
TypeOK ==
    /\ keyOf \in Seq(Key)
    /\ querysql \in [Thread -> Seq(Nat)]
    /\ bExit \in [Thread -> BOOLEAN]
    /\ pc \in [Thread -> {"loop", "lock", "wait", "process", "post", "drain",
                          "done"}]
    /\ cur \in [Thread -> Nat]
    /\ result \in Seq(Nat) /\ temp \in Seq(Nat)
    /\ at \in {"run", "notify", "close", "closeNotify", "join", "end"}
    /\ target \in Thread
    /\ executed \subseteq Nat /\ called \subseteq Nat

(* The threads, the queues and Update() together keep the promise of       *)
(* AsyncSql: order per key and once per statement, for the execution and   *)
(* for the callback, through the closing too.                              *)
Promise == INSTANCE AsyncSql

KeepsPromise == Promise!Spec

(* Once ~DBService has returned, every statement ever asked for has been   *)
(* executed: closing loses nothing that was queued.                        *)
DeletedAfterAll == at = "end" => executed = DOMAIN keyOf

(* While the service is not being deleted, every statement's callback is   *)
(* eventually made, although notify_all is called without the mutex.       *)
CalledBack ==
    \A i \in 1..MaxCmd :
        i \in DOMAIN keyOf ~> (i \in called \/ at \notin {"run", "notify"})

-----------------------------------------------------------------------------
(* The inductive invariant behind KeepsPromise and DeletedAfterAll.  Every *)
(* statement of a worker is, from the newest to the oldest, in querysql,   *)
(* in cur, in result, in temp or called, and along that way the numbers go *)
(* down.                                                                   *)
Elems(s) == {s[x] : x \in DOMAIN s}

Increasing(s) == \A x, y \in DOMAIN s : x < y => s[x] < s[y]

Owner(i) == Route(keyOf[i])

(* Increasing among the statements of one worker. *)
Sorted(s) ==
    \A x, y \in DOMAIN s : x < y /\ Owner(s[x]) = Owner(s[y]) => s[x] < s[y]

Below(S, T) == \A i \in S, j \in T : Owner(i) = Owner(j) => i < j

Running == {cur[t] : t \in {u \in Thread : pc[u] = "process"}}
Posting == {cur[t] : t \in {u \in Thread : pc[u] = "post"}}

QueueInv ==
    \A t \in Thread :
        /\ Increasing(querysql[t])
        /\ \A i \in Elems(querysql[t]) :
              i \in DOMAIN keyOf \ executed /\ Owner(i) = t

CurInv ==
    \A t \in Thread : pc[t] \in {"process", "post"} =>
        /\ cur[t] \in DOMAIN keyOf /\ Owner(cur[t]) = t
        /\ \A i \in Elems(querysql[t]) : cur[t] < i
        /\ pc[t] = "process" <=> cur[t] \notin executed

ExecutedInv ==
    /\ executed \subseteq DOMAIN keyOf
    /\ Below(executed, Running)
    /\ \A t \in Thread : Below(executed, Elems(querysql[t]))

NoneLost ==
    \A i \in DOMAIN keyOf :
        i \in executed \union Running \union Elems(querysql[Owner(i)])

ResultInv ==
    /\ called \union Elems(temp) \union Elems(result) \union Posting = executed
    /\ Sorted(temp) /\ Sorted(result)
    /\ Below(called, Elems(temp) \union Elems(result) \union Posting)
    /\ Below(Elems(temp), Elems(result) \union Posting)
    /\ Below(Elems(result), Posting)

CloseInv ==
    /\ at \in {"run", "notify"} => \A t \in Thread : ~bExit[t]
    /\ \A t \in Thread : pc[t] \in {"drain", "done"} => bExit[t]
    /\ \A t \in Thread : pc[t] = "done" => querysql[t] = <<>>
    /\ at \in {"close", "closeNotify", "join", "end"} =>
         \A t \in Thread : t < target \/ at = "end" => pc[t] = "done"

SqlInv == QueueInv /\ CurInv /\ ExecutedInv /\ NoneLost /\ ResultInv /\ CloseInv
=============================================================================
