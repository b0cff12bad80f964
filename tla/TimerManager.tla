---------------------------- MODULE TimerManager ----------------------------
(***************************************************************************)
(* The timers of the main loop (xlib/include/timer/TimerManager.h and      *)
(* Timer.h): a heap ordered by _next.  Update(), once in every turn of the *)
(* loop, takes the first timer as long as it is due or released, calls it  *)
(* and puts it back.  Callbacks may add and remove timers, their own too.  *)
(*                                                                         *)
(* The heap is the set of its timers: push_heap and pop_heap keep an       *)
(* earliest one in front and promise no more.  Times are whole numbers.    *)
(***************************************************************************)
EXTENDS Integers, FiniteSets

CONSTANTS
    Handle,             \* Timer objects
    NoTimer,            \* no callback is running
    Intervals,          \* intervals in use
    Day,                \* the interval of trigger timers
    MaxLoops,           \* bound: loop counts are -1 or 1..MaxLoops
    MaxTime, MaxStep    \* bounds: of _interval, and of one turn's time

TimerAssumption ==
    /\ NoTimer \notin Handle
    /\ Intervals \subseteq Nat \ {0} /\ Day \in Nat \ {0}
    /\ MaxLoops \in Nat /\ MaxTime \in Nat /\ MaxStep \in Nat

VARIABLES
    timer,              \* handle -> the timer: all that are not deleted
    Timers,             \* handles in the heap
    _interval,          \* the time of this turn
    busy,               \* Update() is under way
    running,            \* the timer whose callback is running
    due                 \* history: when the latest call was due, and whether
                        \* its timer had been released

vars == <<timer, Timers, _interval, busy, running, due>>

Loops == {-1} \union 1..MaxLoops
TimerRecord == [start : Int, interval : Intervals \union {Day}, next : Nat, loops : Int,
                count : Loops, bRelease : BOOLEAN]

TypeOK ==
    /\ DOMAIN timer \subseteq Handle
    /\ \A h \in DOMAIN timer : timer[h] \in TimerRecord
    /\ Timers \subseteq DOMAIN timer
    /\ _interval \in 0..MaxTime
    /\ busy \in BOOLEAN
    /\ DOMAIN timer = Timers \union (IF running = NoTimer THEN {} ELSE {running})
    /\ running \notin Timers

Init ==
    /\ timer = [h \in {} |-> 0]
    /\ Timers = {}
    /\ _interval = 0
    /\ busy = FALSE /\ running = NoTimer
    /\ due = [at |-> 0, released |-> FALSE]

(* The program is between two turns, or in a callback. *)
CodeRuns == ~busy \/ running # NoTimer

(* A new timer, first due in first from now. *)
Add(h, first, i, n) ==
    /\ CodeRuns /\ h \notin DOMAIN timer
    /\ timer' = [g \in DOMAIN timer \union {h} |->
                   IF g = h
                   THEN [start |-> _interval + first - i, interval |-> i,
                         next |-> _interval + first,
                         loops |-> n, count |-> n, bRelease |-> FALSE]
                   ELSE timer[g]]
    /\ Timers' = Timers \union {h}
    /\ UNCHANGED <<_interval, busy, running, due>>

(* With a loop count or without. *)
AddIntervalTimer(h, i, n) == Add(h, i, i, n)

(* At a time of day, which is at most a day ahead, and every day. *)
AddTriggerTimer(h, ahead, n) == Add(h, ahead, Day, n)

(* RemoveTimer.  Only a timer without a loop count has a handle. *)
RemoveTimer(h) ==
    /\ CodeRuns /\ h \in DOMAIN timer /\ timer[h].count = -1
    /\ timer' = [timer EXCEPT ![h].bRelease = TRUE]
    /\ UNCHANGED <<Timers, _interval, busy, running, due>>

-----------------------------------------------------------------------------
UpdateBegins(d) ==
    /\ ~busy /\ _interval + d <= MaxTime
    /\ busy' = TRUE
    /\ _interval' = _interval + d
    /\ UNCHANGED <<timer, Timers, running, due>>

(* Mutant: the comparator the other way round. *)
FrontIsLatest(h) ==
    h \in Timers /\ \A g \in Timers : timer[g].next <= timer[h].next

(* An earliest timer is in front. *)
Front(h) ==
    h \in Timers /\ \A g \in Timers : timer[h].next <= timer[g].next

Passed(h) ==
    _interval >= timer[h].next

Without(h) == [g \in DOMAIN timer \ {h} |-> timer[g]]

FrontReleased(h) ==
    /\ busy /\ running = NoTimer
    /\ Front(h) /\ timer[h].bRelease
    /\ Timers' = Timers \ {h}
    /\ timer' = Without(h)
    /\ UNCHANGED <<_interval, busy, running, due>>

(* Mutant: a released timer that is due is called once more. *)
FrontCalledAnyway(h) ==
    /\ busy /\ running = NoTimer
    /\ Front(h) /\ Passed(h)
    /\ Timers' = Timers \ {h}
    /\ timer' = [timer EXCEPT ![h].next = @ + timer[h].interval]
    /\ running' = h
    /\ due' = [at |-> timer[h].next, released |-> timer[h].bRelease]
    /\ UNCHANGED <<_interval, busy>>

(* Mutant: the timer stays in the heap while it is called. *)
FrontCalledInPlace(h) ==
    /\ busy /\ running = NoTimer
    /\ Front(h) /\ Passed(h) /\ ~timer[h].bRelease
    /\ timer' = [timer EXCEPT ![h].next = @ + timer[h].interval]
    /\ running' = h
    /\ due' = [at |-> timer[h].next, released |-> timer[h].bRelease]
    /\ UNCHANGED <<Timers, _interval, busy>>

(* Timer::update: Reset, and then the callback. *)
FrontCalled(h) ==
    /\ busy /\ running = NoTimer
    /\ Front(h) /\ Passed(h) /\ ~timer[h].bRelease
    /\ Timers' = Timers \ {h}
    /\ timer' = [timer EXCEPT ![h].next = @ + timer[h].interval]
    /\ running' = h
    /\ due' = [at |-> timer[h].next, released |-> timer[h].bRelease]
    /\ UNCHANGED <<_interval, busy>>

(* Mutant: _loop_count is tested before it is counted down. *)
CallReturnsOneMore ==
    /\ running # NoTimer
    /\ running' = NoTimer
    /\ IF timer[running].loops = 0
       THEN timer' = Without(running) /\ UNCHANGED Timers
       ELSE /\ timer' = [timer EXCEPT ![running].loops = @ - 1]
            /\ Timers' = Timers \union {running}
    /\ UNCHANGED <<_interval, busy, due>>

(* The callback is over: _loop_count, and back into the heap.  A timer     *)
(* without a loop count starts at -1; its count never comes to 0, and is   *)
(* left as it is here.                                                     *)
CallReturns ==
    /\ running # NoTimer
    /\ running' = NoTimer
    /\ IF timer[running].loops = 1
       THEN timer' = Without(running) /\ UNCHANGED Timers
       ELSE /\ timer' = [timer EXCEPT ![running].loops = IF @ = -1 THEN -1 ELSE @ - 1]
            /\ Timers' = Timers \union {running}
    /\ UNCHANGED <<_interval, busy, due>>

UpdateReturns ==
    /\ busy /\ running = NoTimer
    /\ Timers = {} \/ \E h \in Timers : Front(h) /\ ~Passed(h) /\ ~timer[h].bRelease
    /\ busy' = FALSE
    /\ UNCHANGED <<timer, Timers, _interval, running, due>>

UpdateStep == (\E h \in Handle : FrontReleased(h) \/ FrontCalled(h)) \/ CallReturns \/ UpdateReturns

Next ==
    \/ \E h \in Handle, i \in Intervals, n \in Loops : AddIntervalTimer(h, i, n)
    \/ \E h \in Handle, a \in 1..Day, n \in Loops : AddTriggerTimer(h, a, n)
    \/ \E h \in Handle : RemoveTimer(h)
    \/ \E d \in 0..MaxStep : UpdateBegins(d)
    \/ UpdateStep

Spec == Init /\ [][Next]_vars

-----------------------------------------------------------------------------
(* When Update() has returned, every timer that is not released has been   *)
(* called exactly once for each of its times that has come, the missed     *)
(* ones of a long turn made up: its next time is the first one in the      *)
(* future, and its loop count says how many went before.                   *)
UpToDate ==
    \A h \in Timers :
      LET t == timer[h]
          calls == (t.next - t.start) \div t.interval - 1
      IN  /\ t.count # -1 => t.loops = t.count - calls /\ t.loops > 0
          /\ ~busy /\ ~t.bRelease =>
               t.next > _interval /\ t.next - t.interval <= _interval

(* Calls are made in the order of the times they are due, over all timers, *)
(* all turns and whatever callbacks add or remove.                         *)
InDueOrder == [][due'.at >= due.at]_due

(* No timer is called once it has been removed, not even when a callback   *)
(* of the same turn removed it while it was due already.                   *)
NotAfterRemoval == ~due.released

(* The timers are sound: each is in the heap or being called, up to date   *)
(* after Update(), and silent once removed.                                *)
TimersInv == TypeOK /\ UpToDate /\ NotAfterRemoval
=============================================================================
