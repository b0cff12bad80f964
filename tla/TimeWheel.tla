----------------------------- MODULE TimeWheel ------------------------------
(***************************************************************************)
(* The timer wheel of xlib (xlib/src/timer/TimeWheel.cpp): five wheels,    *)
(* from milliseconds to days, each with a hand.  A timer waits in the      *)
(* coarsest wheel in which it is not due in the slot of the hand and is    *)
(* handed down from wheel to wheel as the hands come to it.                *)
(*                                                                         *)
(* Levels 1 to 5 are msec, sec, min, hour and day.  One step of Update()   *)
(* is one hand movement (Tick), one timer taken from a slot (Take), or the *)
(* end of a callback.  Callbacks add and remove timers, so their beginning *)
(* and their end are two steps.                                            *)
(*                                                                         *)
(* The day hand never turns back to 0 and no day is tested against the     *)
(* size of day_wheel.  Where the code indexes day_wheel past its end the   *)
(* model says so ("outside") and stops: what the program does from there   *)
(* on is undefined.                                                        *)
(***************************************************************************)
EXTENDS Integers, Sequences, FiniteSets

CONSTANTS
    Timer, NoTimer,
    Ms,             \* 1000, the milliseconds of a second
    Size,           \* slots per level: msec_wheel.size(), 60, 60, 24, days
    MaxInt,         \* the largest int
    Delay,          \* the delays that are asked for, in milliseconds
    Count           \* how often; -1 for ever

Level == 1..5

ASSUME TimeWheelAssumption ==
    /\ NoTimer \notin Timer
    /\ Ms \in Nat \ {0} /\ MaxInt \in Nat
    /\ Size \in [Level -> Nat \ {0}] /\ Size[1] <= Ms
    /\ Delay \subseteq Nat /\ Count \subseteq {-1} \union (Nat \ {0})

VARIABLES
    point,          \* the hands
    msec_count,     \* ticks since Init
    wheel,          \* level -> slot -> list of timers
    at,             \* Timer::msec ... Timer::day
    interval, count, bRelease,
    status,         \* "new", "set" or "deleted"
    level, cur,     \* the wheel Update() is at (0: not in Update), and the
                    \* timer whose callback runs
    outside,        \* day_wheel was indexed past its end
    due, short      \* history: the tick at which the timer should fire
                    \* next, and whether it was asked for with less than a
                    \* tick

timerVars == <<at, interval, count, bRelease, status, due, short>>
vars == <<point, msec_count, wheel, timerVars, level, cur, outside>>

DayMs == Ms * Size[2] * Size[3] * Size[4]

Zero == [l \in Level |-> 0]

Init ==
    /\ point = Zero /\ msec_count = 0
    /\ wheel = [l \in Level |-> [i \in 0..Size[l] - 1 |-> <<>>]]
    /\ at = [t \in Timer |-> Zero] /\ interval = [t \in Timer |-> 0]
    /\ count = [t \in Timer |-> 0] /\ bRelease = {}
    /\ status = [t \in Timer |-> "new"]
    /\ level = 0 /\ cur = NoTimer /\ outside = FALSE
    /\ due = [t \in Timer |-> 0] /\ short = {}

-----------------------------------------------------------------------------
(* A delay as msec, sec, min, hour and day. *)
Fields(ms) ==
    [l \in Level |->
       CASE l = 1 -> ((ms % Ms) * Size[1]) \div Ms
         [] l = 2 -> (ms \div Ms) % Size[2]
         [] l = 3 -> (ms \div (Ms * Size[2])) % Size[3]
         [] l = 4 -> (ms \div (Ms * Size[2] * Size[3])) % Size[4]
         [] l = 5 -> ms \div DayMs]

(* Mutant: AddTime with > instead of >=. *)
CarryOneLate(from, add) ==
    LET carry[l \in 0..4] ==
          IF l = 0 THEN FALSE
          ELSE from[l] + add[l] + (IF carry[l - 1] THEN 1 ELSE 0) > Size[l]
    IN  carry

(* AddTime, from msec up to hour: whether level l is carried out of. *)
Carry(from, add) ==
    LET carry[l \in 0..4] ==
          IF l = 0 THEN FALSE
          ELSE from[l] + add[l] + (IF carry[l - 1] THEN 1 ELSE 0) >= Size[l]
    IN  carry

(* The time ms after "from"; the day counts from the day hand. *)
Later(from, ms) ==
    LET add == Fields(ms)
        carry == Carry(from, add)
        one(l) == IF carry[l] THEN 1 ELSE 0
    IN  [l \in Level |->
           IF l = 5 THEN point[5] + add[5] + one(4)
           ELSE from[l] + add[l] + one(l - 1) - one(l) * Size[l]]

(* GetTimerTick.  day * 86400000 is a product of ints. *)
GetTimerTick(x) ==
    LET wrap(n) == ((n + MaxInt + 1) % (2 * (MaxInt + 1))) - MaxInt - 1
        ms == wrap(x[5] * DayMs) + x[4] * Ms * Size[2] * Size[3]
                + x[3] * Ms * Size[2] + x[2] * Ms
    IN  (ms * Size[1]) \div Ms + x[1]

Highest(S) == CHOOSE l \in S : \A k \in S : k <= l

(* The coarsest level in which x is not in the slot of the hand. *)
LevelOf(x) == Highest({1} \union {l \in Level : x[l] # point[l]})

Push(w, l, i, t) == [w EXCEPT ![l][i] = Append(@, t)]

Ticks(ms) == (ms * Size[1]) \div Ms

(* AddTimer, between two Update()s or in a callback. *)
CreateTimer(t, diff, intv, n) ==
    LET x == Later(point, diff)
    IN  /\ level = 0 \/ cur # NoTimer
        /\ status[t] = "new"
        /\ x[5] < Size[5]
        /\ at' = [at EXCEPT ![t] = x]
        /\ wheel' = Push(wheel, LevelOf(x), x[LevelOf(x)], t)
        /\ interval' = [interval EXCEPT ![t] = intv]
        /\ count' = [count EXCEPT ![t] = n]
        /\ status' = [status EXCEPT ![t] = "set"]
        /\ due' = [due EXCEPT ![t] = msec_count + Ticks(diff)]
        /\ short' = IF Ticks(diff) = 0 THEN short \union {t} ELSE short
        /\ UNCHANGED <<point, msec_count, bRelease, level, cur>>

(* Mutant: the timer is deleted at once. *)
RemoveTimerDelete(t) ==
    /\ level = 0 \/ cur # NoTimer
    /\ status[t] = "set" /\ count[t] < 0 /\ t \notin bRelease
    /\ status' = [status EXCEPT ![t] = "deleted"]
    /\ UNCHANGED <<point, msec_count, wheel, at, interval, count, bRelease, due,
                   short, level, cur>>

(* Only the AddTimers that repeat for ever give the timer to the caller. *)
RemoveTimer(t) ==
    /\ level = 0 \/ cur # NoTimer
    /\ status[t] = "set" /\ count[t] < 0 /\ t \notin bRelease
    /\ bRelease' = bRelease \union {t}
    /\ UNCHANGED <<point, msec_count, wheel, at, interval, count, status, due,
                   short, level, cur>>

-----------------------------------------------------------------------------
(* Update(): the hands move on by one tick. *)
Tick ==
    LET moved == {l \in Level : \A k \in 1..l - 1 : point[k] = Size[k] - 1}
    IN  /\ level = 0
        /\ point[5] + 1 < Size[5] \/ 5 \notin moved
        /\ msec_count' = msec_count + 1
        /\ point' = [l \in Level |-> IF l \notin moved THEN point[l]
                                     ELSE (point[l] + 1) % Size[l]]
        /\ level' = Highest(moved)
        /\ UNCHANGED <<wheel, timerVars, cur>>

Slot == wheel[level][point[level]]

(* The slot of the hand is empty: on to the next finer wheel. *)
SlotDone ==
    /\ level # 0 /\ cur = NoTimer /\ Slot = <<>>
    /\ level' = level - 1
    /\ UNCHANGED <<point, msec_count, wheel, timerVars, cur>>

Rest == [wheel EXCEPT ![level][point[level]] = Tail(@)]

(* The levels below the one being emptied at which t is still to wait. *)
Finer(t) == {k \in 1..level - 1 : at[t][k] # 0}

(* Mutant: the fields are tested from the finest to the coarsest. *)
HandDownFinest ==
    /\ level > 1 /\ cur = NoTimer /\ Slot # <<>>
    /\ LET t == Head(Slot)
           k == CHOOSE j \in Finer(t) : \A i \in Finer(t) : j <= i
       IN  /\ Finer(t) # {}
           /\ wheel' = Push(Rest, k, at[t][k], t)
    /\ UNCHANGED <<point, msec_count, timerVars, level, cur>>

(* UpdateDayWheel ... UpdateSecWheel: not due yet, to a finer wheel. *)
HandDown ==
    /\ level > 1 /\ cur = NoTimer /\ Slot # <<>>
    /\ LET t == Head(Slot)
           k == Highest(Finer(t))
       IN  /\ Finer(t) # {}
           /\ wheel' = Push(Rest, k, at[t][k], t)
    /\ UNCHANGED <<point, msec_count, timerVars, level, cur>>

(* excuteTimer: a removed timer is deleted ... *)
DeleteRemoved ==
    /\ level # 0 /\ cur = NoTimer /\ Slot # <<>>
    /\ LET t == Head(Slot)
       IN  /\ Finer(t) = {} /\ t \in bRelease
           /\ status' = [status EXCEPT ![t] = "deleted"]
    /\ wheel' = Rest
    /\ UNCHANGED <<point, msec_count, at, interval, count, bRelease, due, short,
                   level, cur>>

(* ... any other is called back ... *)
Call ==
    /\ level # 0 /\ cur = NoTimer /\ Slot # <<>>
    /\ LET t == Head(Slot)
       IN  Finer(t) = {} /\ t \notin bRelease /\ cur' = t
    /\ wheel' = Rest
    /\ UNCHANGED <<point, msec_count, timerVars, level>>

(* ... and after the callback set again or deleted.  A count that is not   *)
(* above zero never comes down to zero; how far below it is does not       *)
(* matter.                                                                 *)
EndCall ==
    /\ cur # NoTimer
    /\ cur' = NoTimer
    /\ IF count[cur] = 1
       THEN /\ count' = [count EXCEPT ![cur] = 0]
            /\ status' = [status EXCEPT ![cur] = "deleted"]
            /\ UNCHANGED <<wheel, at, due>>
       ELSE LET x == Later(at[cur], interval[cur])
            IN  /\ GetTimerTick(x) <= msec_count \/ x[5] < Size[5]
                /\ count' = [count EXCEPT ![cur] = IF @ <= 0 THEN @ ELSE @ - 1]
                /\ at' = [at EXCEPT ![cur] = x]
                /\ wheel' = IF GetTimerTick(x) <= msec_count
                            THEN Push(wheel, 1, point[1], cur)
                            ELSE Push(wheel, LevelOf(x), x[LevelOf(x)], cur)
                /\ due' = [due EXCEPT ![cur] = @ + Ticks(interval[cur])]
                /\ UNCHANGED status
    /\ UNCHANGED <<point, msec_count, interval, bRelease, short, level>>

(* The AddTimers with an interval and the ones with a time of day, which   *)
(* do not turn a count of 0 away.                                          *)
AddTimer(t) ==
    \E d \in Delay :
        \/ \E n \in Count : CreateTimer(t, d, d, n)
        \/ /\ d > 0 /\ d <= DayMs
           /\ \E n \in Count \union {0} : CreateTimer(t, d, DayMs, n)

-----------------------------------------------------------------------------
(* CreateTimer, excuteTimer and UpdateDayWheel index day_wheel past its    *)
(* end.                                                                    *)
CreateOutside ==
    /\ level = 0 \/ cur # NoTimer
    /\ \E t \in Timer : status[t] = "new"
    /\ \E d \in Delay : Later(point, d)[5] >= Size[5]

EndCallOutside ==
    /\ cur # NoTimer /\ count[cur] # 1
    /\ LET x == Later(at[cur], interval[cur])
       IN  GetTimerTick(x) > msec_count /\ x[5] >= Size[5]

TickOutside ==
    /\ level = 0 /\ point[5] + 1 = Size[5]
    /\ \A k \in 1..4 : point[k] = Size[k] - 1

GoOutside ==
    /\ CreateOutside \/ EndCallOutside \/ TickOutside
    /\ outside' = TRUE
    /\ UNCHANGED <<point, msec_count, wheel, timerVars, level, cur>>

Inside ==
    \/ \E t \in Timer : AddTimer(t) \/ RemoveTimer(t)
    \/ Tick \/ SlotDone \/ HandDown \/ DeleteRemoved \/ Call \/ EndCall

Next ==
    /\ ~outside
    /\ \/ Inside /\ UNCHANGED outside
       \/ GoOutside

Spec == Init /\ [][Next]_vars

-----------------------------------------------------------------------------
TypeOK ==
    /\ point \in [Level -> Nat] /\ \A l \in Level : point[l] < Size[l]
    /\ msec_count \in Nat
    /\ \A l \in Level : wheel[l] \in [0..Size[l] - 1 -> Seq(Timer)]
    /\ \A t \in Timer : /\ at[t] \in [Level -> Nat]
                        /\ \A l \in 1..4 : at[t][l] < Size[l]
    /\ interval \in [Timer -> Nat] /\ count \in [Timer -> Int]
    /\ bRelease \subseteq Timer
    /\ status \in [Timer -> {"new", "set", "deleted"}]
    /\ level \in 0..5 /\ cur \in Timer \union {NoTimer} /\ outside \in BOOLEAN
    /\ due \in [Timer -> Nat] /\ short \subseteq Timer

(* A timer that is set is in exactly one slot of one wheel, or in its      *)
(* callback: handing down, setting again and removing neither lose nor     *)
(* double it, and a deleted timer is in none.                              *)
InOneSlot ==
    \A t \in Timer :
        LET found(l, i) == {<<l, i, n>> : n \in {m \in DOMAIN wheel[l][i] :
                                                     wheel[l][i][m] = t}}
            places == UNION {UNION {found(l, i) : i \in DOMAIN wheel[l]} :
                               l \in Level}
        IN  Cardinality(places) = IF status[t] = "set" /\ t # cur THEN 1 ELSE 0

(* The wheels are sound at every step, in the middle of Update() too: the  *)
(* fields of every timer, from the hour down, are slots of their wheels,   *)
(* and InOneSlot.                                                          *)
WheelInv == TypeOK /\ InOneSlot

(* A timer is called back exactly at its tick and then every interval, at  *)
(* any position of the hands and across every carry: no timer that is set  *)
(* is overdue when Update() returns, and none is called early.  Timers     *)
(* first asked for with less than a tick are not meant: they wait a turn   *)
(* of the finest wheel.                                                    *)
OnTime ==
    \A t \in Timer : status[t] = "set" /\ t \notin short =>
        /\ t = cur => due[t] = msec_count
        /\ t # cur => due[t] >= msec_count /\ (level = 0 => due[t] > msec_count)
=============================================================================
