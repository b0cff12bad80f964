---------------------------- MODULE TimerLayering ---------------------------
(***************************************************************************)
(* The layered timers of xlib: CTimerLayering (xlib/src/timer/             *)
(* timerlayering.cpp).  A root wheel tv1_ of TVR_SIZE lists and four       *)
(* wheels tv2_ .. tv5_ of TVN_SIZE lists hold the timers by the digits of  *)
(* their expiry; the lists of the upper wheels are spread over the lower   *)
(* ones (__Cascade) when last_tick_ comes round to them.  Ticks are        *)
(* unsigned and wrap: the five digits make up a tick, as 8 + 4 * 6 = 32    *)
(* bits do in the code (TVR_SIZE = 2^8, TVN_SIZE = 2^6).                   *)
(*                                                                         *)
(* The clock runs on while Update() works.  OnTimer is a callback of the   *)
(* owner, which may add, adjust and remove timers, its own included.  A    *)
(* list is a set here: the order inside a list is left open.               *)
(***************************************************************************)
EXTENDS Integers, FiniteSets

CONSTANTS
    Timer,              \* the handles: STimerInfo objects of pool_
    TVR_SIZE, TVN_SIZE, \* the lists of tv1_ and of each of the other wheels
    Elapses,            \* the delays the owner asks for
    AdjustElapses,      \* the delays AdjustTimer is given: it does not test
                        \* them, so 0 may be among them
    Counts,             \* the counts the owner asks for
    Forever,            \* the count -1: 2^32 - 1 rounds as an unsigned
    Budget,             \* the argument of Update()
    Starts,             \* bound: the ticks the component may be created at
    MaxLag              \* bound: how far the clock runs ahead of last_tick_

(* The ticks a wheel k reaches; all five reach the range of a tick. *)
Span(k) ==
    CASE k = 1 -> TVR_SIZE
      [] k = 2 -> TVR_SIZE * TVN_SIZE
      [] k = 3 -> TVR_SIZE * TVN_SIZE * TVN_SIZE
      [] k = 4 -> TVR_SIZE * TVN_SIZE * TVN_SIZE * TVN_SIZE
      [] k = 5 -> TVR_SIZE * TVN_SIZE * TVN_SIZE * TVN_SIZE * TVN_SIZE

Ticks == Span(5)

(* AddTimer refuses a delay that is not positive; a delay that together    *)
(* with the lag reaches half the range of a tick would look like the past. *)
TimerAssumption ==
    /\ TVR_SIZE \in Nat \ {0, 1} /\ TVN_SIZE \in Nat \ {0, 1}
    /\ MaxLag \in Nat \ {0} /\ MaxLag < Ticks \div 2
    /\ \A e \in Elapses : e \in Nat /\ e > 0 /\ e + MaxLag < Ticks \div 2
    /\ \A e \in AdjustElapses : e \in Nat /\ e + MaxLag < Ticks \div 2
    /\ Starts \subseteq 0..Ticks - 1 /\ Budget \in Int
    /\ \A c \in Counts : c \in Nat \/ c = Forever
    /\ Forever \notin Nat

VARIABLES
    is_exact_,          \* given to the constructor
    now,                \* timeGetTime()
    last_tick_,
    where,              \* the list each timer is in
    expires, elapse, count,
    pc, tick, cur_tick, is_time_out     \* the locals of Update()

vars == <<is_exact_, now, last_tick_, where, expires, elapse, count, pc, tick,
          cur_tick, is_time_out>>
updateVars == <<pc, tick, cur_tick, is_time_out>>

(* Besides the lists <<wheel, index>>: not allocated, on the work list of  *)
(* Update(), detached while its callback runs.                             *)
Free == <<0, 0>>
Work == <<0, 1>>
Run  == <<0, 2>>

__TimerPending(t) == where[t] \notin {Free, Run}

-----------------------------------------------------------------------------
(* The digit of a tick that indexes wheel k. *)
Digit(n, k) == IF k = 1 THEN n % TVR_SIZE
                        ELSE (n \div Span(k - 1)) % TVN_SIZE

(* __AddTimer: the list of a timer that expires at e. *)
List(e, last) ==
    LET idx == (e - last) % Ticks
        wheel == CHOOSE k \in 1..5 : /\ idx < Span(k)
                                     /\ \A j \in 1..k - 1 : idx >= Span(j)
    IN  IF idx >= Ticks \div 2 THEN <<1, last % TVR_SIZE>>
                               ELSE <<wheel, Digit(e, wheel)>>

(* Put t into the list of its new expiry e. *)
Place(t, e) ==
    /\ expires' = [expires EXCEPT ![t] = e % Ticks]
    /\ where' = [where EXCEPT ![t] = List(e % Ticks, last_tick_)]

(* pool_.destroy: nothing is left of the timer. *)
Destroy(t) ==
    /\ where' = [where EXCEPT ![t] = Free]
    /\ expires' = [expires EXCEPT ![t] = 0]
    /\ elapse' = [elapse EXCEPT ![t] = 0]
    /\ count' = [count EXCEPT ![t] = 0]

TypeOK ==
    /\ is_exact_ \in BOOLEAN
    /\ now \in 0..Ticks - 1 /\ last_tick_ \in 0..Ticks - 1
    /\ where \in [Timer -> {Free, Work, Run}
                            \union ({1} \X (0..TVR_SIZE - 1))
                            \union ((2..5) \X (0..TVN_SIZE - 1))]
    /\ expires \in [Timer -> 0..Ticks - 1]
    /\ elapse \in [Timer -> {0} \union Elapses \union AdjustElapses]
    /\ \A t \in Timer : count[t] \in Nat \/ count[t] = Forever
    /\ pc \in {"idle", "loop", "work", "callback"}
    /\ tick \in 0..Ticks - 1 /\ cur_tick \in 0..Ticks - 1
    /\ is_time_out \in BOOLEAN
    /\ (pc = "callback") = (\E t \in Timer : where[t] = Run)
    /\ Cardinality({t \in Timer : where[t] = Run}) <= 1

Init ==
    /\ is_exact_ \in BOOLEAN
    /\ now \in Starts /\ last_tick_ = now
    /\ where = [t \in Timer |-> Free]
    /\ expires = [t \in Timer |-> 0]
    /\ elapse = [t \in Timer |-> 0]
    /\ count = [t \in Timer |-> 0]
    /\ pc = "idle" /\ tick = 0 /\ cur_tick = 0 /\ is_time_out = FALSE

(* timeGetTime() moves on. *)
ClockTick ==
    /\ (now - last_tick_) % Ticks < MaxLag
    /\ now' = (now + 1) % Ticks
    /\ UNCHANGED <<last_tick_, where, expires, elapse, count, updateVars>>

-----------------------------------------------------------------------------
(* The owner calls between two Update() or from its callback.              *)
OwnerMayCall == pc \in {"idle", "callback"}

AddTimer(t, e, c) ==
    /\ OwnerMayCall /\ where[t] = Free
    /\ Place(t, last_tick_ + e)
    /\ elapse' = [elapse EXCEPT ![t] = e]
    /\ count' = [count EXCEPT ![t] = c]
    /\ UNCHANGED <<now, last_tick_, updateVars>>

(* A timer that already waits for that tick is left alone, its delay and   *)
(* count too.  One whose callback runs is put into a list by Update().     *)
AdjustTimer(t, e, c) ==
    /\ OwnerMayCall /\ where[t] # Free
    /\ LET same == __TimerPending(t)
                   /\ expires[t] = (last_tick_ + e) % Ticks
       IN  IF same
           THEN UNCHANGED <<expires, where, elapse, count>>
           ELSE /\ IF __TimerPending(t)
                   THEN Place(t, last_tick_ + e)
                   ELSE /\ expires' = [expires EXCEPT
                                         ![t] = (last_tick_ + e) % Ticks]
                        /\ UNCHANGED where
                /\ elapse' = [elapse EXCEPT ![t] = e]
                /\ count' = [count EXCEPT ![t] = c]
    /\ UNCHANGED <<now, last_tick_, updateVars>>

(* Mutant: a timer is destroyed under its own callback. *)
RemoveTimerNow(t) ==
    /\ OwnerMayCall /\ where[t] # Free
    /\ Destroy(t)
    /\ UNCHANGED <<now, last_tick_, updateVars>>

(* A timer whose callback runs is only marked: Update() destroys it. *)
RemoveTimer(t) ==
    /\ OwnerMayCall /\ where[t] # Free
    /\ IF __TimerPending(t)
       THEN Destroy(t)
       ELSE /\ count' = [count EXCEPT ![t] = 0]
            /\ UNCHANGED <<where, expires, elapse>>
    /\ UNCHANGED <<now, last_tick_, updateVars>>

-----------------------------------------------------------------------------
(* Update(): __ExactUpdate or __NormalUpdate.                              *)
UpdateBegin ==
    /\ pc = "idle"
    /\ tick' = now /\ cur_tick' = now /\ is_time_out' = FALSE
    /\ pc' = "loop"
    /\ UNCHANGED <<now, last_tick_, where, expires, elapse, count>>

(* The loop runs up to the tick read at its start, or out of the budget.   *)
TicksLeft ==
    tick # last_tick_ /\ ~is_time_out

UpdateReturn ==
    /\ pc = "loop" /\ ~TicksLeft
    /\ pc' = "idle" /\ tick' = 0 /\ cur_tick' = 0 /\ is_time_out' = FALSE
    /\ UNCHANGED <<now, last_tick_, where, expires, elapse, count>>

(* Mutant: only tv2_ is ever spread. *)
CascadesOneWheel(k) == k = 2 /\ last_tick_ % TVR_SIZE = 0

(* The list of wheel k at last_tick_ is spread over the wheels below: when *)
(* all the digits below have come round to 0.                              *)
Cascades(k) ==
    \A j \in 1..k - 1 : Digit(last_tick_, j) = 0

(* The lists after the cascades of last_tick_. *)
__Cascade ==
    [t \in Timer |->
       IF \E k \in 2..5 : Cascades(k) /\ where[t] = <<k, Digit(last_tick_, k)>>
       THEN List(expires[t], last_tick_) ELSE where[t]]

(* One turn of the loop: the cascades, then the list of tv1_ becomes the   *)
(* work list.                                                              *)
TakeTick ==
    /\ pc = "loop" /\ TicksLeft
    /\ where' = [t \in Timer |->
                    IF __Cascade[t] = <<1, last_tick_ % TVR_SIZE>>
                    THEN Work ELSE __Cascade[t]]
    /\ pc' = "work"
    /\ UNCHANGED <<now, last_tick_, expires, elapse, count, tick, cur_tick,
                   is_time_out>>

TickDone ==
    /\ pc = "work" /\ \A t \in Timer : where[t] # Work
    /\ last_tick_' = (last_tick_ + 1) % Ticks
    /\ pc' = "loop"
    /\ UNCHANGED <<now, where, expires, elapse, count, tick, cur_tick,
                   is_time_out>>

(* A timer added with count 0 is destroyed without a callback. *)
DropEmpty(t) ==
    /\ pc = "work" /\ where[t] = Work /\ count[t] = 0
    /\ Destroy(t)
    /\ UNCHANGED <<now, last_tick_, updateVars>>

(* __NormalUpdate reads the clock before each callback when it is given a  *)
(* budget, and gives up once it is used.                                   *)
Watches == ~is_exact_ /\ Budget > 0
CurTick == IF Watches THEN now ELSE cur_tick
TimeOut == is_time_out \/ (Watches /\ (now - tick) % Ticks > Budget)

(* Over the budget: the timer is put back, for the tick it is now. *)
Defer(t) ==
    /\ pc = "work" /\ where[t] = Work /\ count[t] # 0 /\ TimeOut
    /\ Place(t, now)
    /\ cur_tick' = now /\ is_time_out' = TRUE
    /\ UNCHANGED <<now, last_tick_, elapse, count, pc, tick>>

CallBegin(t) ==
    /\ pc = "work" /\ where[t] = Work /\ count[t] # 0 /\ ~TimeOut
    /\ count' = [count EXCEPT ![t] = IF @ = Forever THEN @ ELSE @ - 1]
    /\ where' = [where EXCEPT ![t] = Run]
    /\ cur_tick' = CurTick
    /\ pc' = "callback"
    /\ UNCHANGED <<now, last_tick_, expires, elapse, tick, is_time_out>>

(* OnTimer has returned.  __ExactUpdate counts the next round from the     *)
(* clock, __NormalUpdate from cur_tick.                                    *)
CallReturn(t) ==
    /\ pc = "callback" /\ where[t] = Run
    /\ IF count[t] = 0
       THEN Destroy(t)
       ELSE /\ Place(t, (IF is_exact_ THEN now ELSE cur_tick) + elapse[t])
            /\ UNCHANGED <<elapse, count>>
    /\ pc' = "work"
    /\ UNCHANGED <<now, last_tick_, tick, cur_tick, is_time_out>>

-----------------------------------------------------------------------------
Owner ==
    \E t \in Timer :
        \/ \E e \in Elapses, c \in Counts : AddTimer(t, e, c)
        \/ \E e \in AdjustElapses, c \in Counts : AdjustTimer(t, e, c)
        \/ RemoveTimer(t)

Update ==
    \/ UpdateBegin \/ UpdateReturn \/ TakeTick \/ TickDone
    \/ \E t \in Timer : DropEmpty(t) \/ Defer(t) \/ CallBegin(t) \/ CallReturn(t)

Next == (ClockTick \/ Owner \/ Update) /\ UNCHANGED is_exact_

Spec == Init /\ [][Next]_vars

-----------------------------------------------------------------------------
Ahead(t) == (expires[t] - last_tick_) % Ticks

(* A timer comes on the work list of exactly its tick, and no timer that   *)
(* waits in a list has been passed over: whatever wheel AddTimer chose,    *)
(* however often __Cascade moved it, across the wrap of the tick.          *)
OnTime ==
    \A t \in Timer : __TimerPending(t) =>
        IF where[t] = Work THEN expires[t] = last_tick_
        ELSE /\ Ahead(t) < Ticks \div 2
             /\ pc \in {"work", "callback"} => expires[t] # last_tick_

(* The layers are sound: one callback runs at a time, of a timer that is   *)
(* not freed under it, and no timer is early or passed over.               *)
LayersInv == TypeOK /\ OnTime
=============================================================================
