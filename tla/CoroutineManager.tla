-------------------------- MODULE CoroutineManager --------------------------
(***************************************************************************)
(* The pool of coroutines of the game server (hh/CoroutineManager.cpp) as  *)
(* PlayerManager::LoginGame (hh/PlayerMgr.cpp) uses it.  A log-in takes an *)
(* item with Alloc, builds its coroutine in it and runs it to its end      *)
(* within the handler; the body gives the item back with Free as its last  *)
(* step, and not on its early returns.  update(), in the main loop,        *)
(* destroys the coroutines given back and puts their items into the pool.  *)
(*                                                                         *)
(* Alloc pops two items and enters the first one under both of its ids;    *)
(* the second item is lost and the first id is never used again.           *)
(***************************************************************************)
EXTENDS Naturals, Sequences, FiniteSets

CONSTANTS
    PoolSize,           \* 64 items at start
    RefillAt            \* 512: the size of _used from which the pool refills

(* The pool is far smaller than the size of _used that lets it refill. *)
ASSUME PoolAssumption ==
    /\ PoolSize \in Nat
    /\ RefillAt \in Nat /\ RefillAt > 2 * PoolSize

VARIABLES
    _pool, _frees,      \* lists of items
    _used,              \* id -> item
    _dbid,
    alive,              \* items whose coroutine is built and not destroyed
    broken,             \* Alloc has popped from an empty list
    completed, early    \* history: log-ins that reached Free, and the others

poolVars == <<_pool, _frees, _used, _dbid, alive, broken, completed, early>>

PoolInit ==
    /\ _pool = [i \in 1..PoolSize |-> i]
    /\ _frees = <<>>
    /\ _used = [i \in {} |-> 0]
    /\ _dbid = 0
    /\ alive = {}
    /\ broken = FALSE
    /\ completed = 0 /\ early = 0

(* _used with the two ids of an Alloc. *)
UsedWith(item) ==
    [i \in DOMAIN _used \union {_dbid + 1, _dbid + 2} |->
       IF i > _dbid THEN item ELSE _used[i]]

(* The pool between the two pops of Alloc: refilled when it is empty and   *)
(* many ids are in use.                                                    *)
AfterFirstPop ==
    LET n == Cardinality(DOMAIN _used) + 1
    IN  IF Len(_pool) = 1 /\ n >= RefillAt
        THEN [i \in 1..n |-> _dbid + PoolSize + i]
        ELSE Tail(_pool)

CanAlloc == _pool # <<>> /\ AfterFirstPop # <<>>

(* Alloc on too few items: front() or pop_front() of an empty list. *)
AllocFails ==
    /\ ~broken /\ ~CanAlloc
    /\ broken' = TRUE
    /\ UNCHANGED <<_pool, _frees, _used, _dbid, alive, completed, early>>

Erase(f, i) == [j \in DOMAIN f \ {i} |-> f[j]]

(* Mutant: Free puts the item into the pool at once. *)
LoginGamePoolsAtOnce(done) ==
    /\ ~broken /\ CanAlloc
    /\ _dbid' = _dbid + 2
    /\ alive' = alive \union {Head(_pool)}
    /\ IF done
       THEN /\ _used' = Erase(UsedWith(Head(_pool)), _dbid + 2)
            /\ _pool' = Append(Tail(AfterFirstPop), Head(_pool))
            /\ completed' = completed + 1 /\ UNCHANGED <<early, _frees>>
       ELSE /\ _used' = UsedWith(Head(_pool))
            /\ _pool' = Tail(AfterFirstPop)
            /\ early' = early + 1 /\ UNCHANGED <<completed, _frees>>
    /\ UNCHANGED broken

(* LoginGame: Alloc, RegistFunc, and the coroutine run to its end, which   *)
(* is the Free or an early return.                                         *)
LoginGame(done) ==
    /\ ~broken /\ CanAlloc
    /\ _pool' = Tail(AfterFirstPop)
    /\ _dbid' = _dbid + 2
    /\ alive' = alive \union {Head(_pool)}
    /\ IF done
       THEN /\ _used' = Erase(UsedWith(Head(_pool)), _dbid + 2)
            /\ _frees' = Append(_frees, Head(_pool))
            /\ completed' = completed + 1 /\ UNCHANGED early
       ELSE /\ _used' = UsedWith(Head(_pool))
            /\ early' = early + 1 /\ UNCHANGED <<completed, _frees>>
    /\ UNCHANGED broken

(* Mutant: update() without _frees.clear(). *)
UpdateKeepsFrees ==
    /\ ~broken /\ _frees # <<>>
    /\ alive' = alive \ {_frees[i] : i \in DOMAIN _frees}
    /\ _pool' = _pool \o _frees
    /\ UNCHANGED <<_frees, _used, _dbid, broken, completed, early>>

Update ==
    /\ ~broken /\ _frees # <<>>
    /\ alive' = alive \ {_frees[i] : i \in DOMAIN _frees}
    /\ _pool' = _pool \o _frees
    /\ _frees' = <<>>
    /\ UNCHANGED <<_used, _dbid, broken, completed, early>>

PoolNext == (\E done \in BOOLEAN : LoginGame(done)) \/ AllocFails \/ Update

PoolSpec == PoolInit /\ [][PoolNext]_poolVars

-----------------------------------------------------------------------------
(* An item is in the pool at most once and never while its coroutine       *)
(* exists, so RegistFunc never builds a coroutine over one that runs or    *)
(* waits to be destroyed: Free, called by the coroutine itself, must leave *)
(* both to update().                                                       *)
ReusedAfterDestroyed ==
    /\ \A i \in DOMAIN _pool : _pool[i] \notin alive
    /\ \A i, j \in DOMAIN _pool : _pool[i] = _pool[j] => i = j

(* Where the items are: every log-in costs one for good and an early       *)
(* return costs two, and nothing else is lost or doubled.  So Alloc fails  *)
(* when, and only when, completed + 2 * early log-ins, and those not yet   *)
(* given back, have used up all but one of the items.                      *)
Conserved ==
    /\ Len(_pool) + Len(_frees) + completed + 2 * early = PoolSize
    /\ broken => completed + 2 * early + Len(_frees) >= PoolSize - 1
=============================================================================
