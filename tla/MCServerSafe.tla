---------------------------- MODULE MCServerSafe ----------------------------
(***************************************************************************)
(* For TLC: the timers, the pool of coroutines and the web-socket reader.  *)
(* They share no state and no step, so one run takes each of them by       *)
(* itself: "part" names the one that moves, the others rest in their       *)
(* initial states.                                                         *)
(***************************************************************************)
EXTENDS TimeWheel, CoroutineManager, TLC

CONSTANTS
    Handle, Intervals, Day, MaxLoops, MaxTime, MaxStep,     \* of TimerManager
    TVR_SIZE, TVN_SIZE, Elapses, AdjustElapses, Counts,
    Forever, Budget, Starts, MaxLag,                        \* of TimerLayering
    Short, HeadLen, MaxPacks, MaxBody, MaxFrames, MaxFrame  \* of WebFrames

VARIABLES
    part,
    timer, Timers, _interval, busy, running, lastDue,
    is_exact_, now, last_tick_, where, expires, elapse, rounds, pc, tick,
    cur_tick, is_time_out,
    sizes, stream, noise, frames, wire, stage, low, high, total_data, packs,
    exact

heapVars == <<timer, Timers, _interval, busy, running, lastDue>>
layerVars == <<is_exact_, now, last_tick_, where, expires, elapse, rounds, pc,
               tick, cur_tick, is_time_out>>
webVars == <<sizes, stream, noise, frames, wire, stage, low, high, total_data,
             packs, exact>>

(* A tick of the wheel is two milliseconds and its day sixteen ticks. *)
MCSize == <<2, 2, 2, 2, 2>>
MCCount == {-1, 2}

Heap == INSTANCE TimerManager WITH due <- lastDue

(* The instance has digits of one bit, so that a tick has five; the        *)
(* component is created shortly before the ticks wrap.                     *)
Layer == INSTANCE TimerLayering WITH count <- rounds

Web == INSTANCE WebFrames

ASSUME SafePartsAssumption ==
    Heap!TimerAssumption /\ Layer!TimerAssumption /\ Web!FramesAssumption

PartsInit ==
    /\ part \in {"wheel", "pool", "heap", "layer", "web"}
    /\ Init /\ PoolInit /\ Heap!Init /\ Web!Init
    /\ Layer!Init /\ (part = "layer" \/ is_exact_)

PartsNext ==
    \/ part = "wheel" /\ Next
       /\ UNCHANGED <<part, poolVars, heapVars, layerVars, webVars>>
    \/ part = "pool" /\ PoolNext
       /\ UNCHANGED <<part, vars, heapVars, layerVars, webVars>>
    \/ part = "heap" /\ Heap!Next
       /\ UNCHANGED <<part, vars, poolVars, layerVars, webVars>>
    \/ part = "layer" /\ Layer!Next
       /\ UNCHANGED <<part, vars, poolVars, heapVars, webVars>>
    \/ part = "web" /\ Web!Next
       /\ UNCHANGED <<part, vars, poolVars, heapVars, layerVars>>

PartsSpec ==
    PartsInit
    /\ [][PartsNext]_<<part, vars, poolVars, heapVars, layerVars, webVars>>

Symmetry == Permutations(Timer) \union Permutations(Handle)

-----------------------------------------------------------------------------
(* Of TimerManager: when Update() has returned every timer has been called *)
(* once for each of its times that has come, and none after its removal.   *)
TimersInv == Heap!TimersInv

(* Of TimerManager: calls are made in the order of the times they are due. *)
InDueOrder == Heap!InDueOrder

(* Of TimerLayering: a timer is on the work list of its tick, none is      *)
(* passed over, and none is freed under its own callback.                  *)
LayersInv == Layer!LayersInv

(* Of WebFrames: as long as every payload was read as a whole and with its *)
(* length, packs come out of the frames whole, in order and without delay, *)
(* and only noise breaks the connection.                                   *)
FramesInv == Web!FramesInv
=============================================================================
