# TLA+ verification of the game servers in `src/hh`

The repository holds a small multiplayer game server and the library it is built
on. This directory holds TLA+ models of the parts in which several threads,
several connections or several processes meet, and of the algorithms on which the
others rest, the TLC configurations that check them, and TLAPS proofs about twelve
of them. Paths below are relative to the repository root.

## 1. The system

Four programs and one library:

| part | where | what it does |
|---|---|---|
| game server | `src/hh/hh` | accepts clients, logs players in, runs the game |
| account server | `src/hh/Account` | knows the accounts and their passwords |
| database server | `src/hh/DataBase` | stores the characters |
| second shell | `src/hh/xx_game` | another main loop, with Lua, around the library |
| xlib | `src/hh/xlib` | network service, SQL threads, log service, timers |

A client connects to the game server. Its packs are read by io threads of
`NetService` and handled on the main thread. `PlayerManager` sends account
requests through `AccountNetClient` to the account server, matches the answers to
the connections that asked, and keeps sessions and online players. Statements
for the database go to worker threads (`DBService`, `SqlThread`) and come back
as callbacks. Timers come from `TimeWheel`; log lines go through
`CCircularQueue` to a writing thread.

### Inventory

| component | state | operations | interacts with | what is hard | what makes it correct |
|---|---|---|---|---|---|
| `NetService`, `NetConnect` | three vectors (new, packs, broken), a read chain per connection, the socket and its `bClose` | accept, read handlers (plain and web-socket), `update`, `CloseSocket`, `stop` | observers on the main thread | io threads against `update` and `stop`; nothing orders the three vectors | each connection reported once, closed only when broken, packs in order, quiet soon after the break |
| `PlayerManager` | `m_AllPlayer` (sessions), `m_AllPlayerID`, `m_AccPlayer`, `_unique_player` | `LoginGame`, `CreatePlayer`, `loadPlayer`, `OnDisConnect` | `Player`, `MapManager`, `AccountNetClient`, `DBNetClient` | two connections with one player; answers after a disconnect | sessions belong to who gave the password; state, connection, space and index of a player agree |
| `AccountNetClient` | `m_pLogin`, `m_Creating`, a counter | check, create, the two answers | `NetClient`, `PlayerManager` | a link that fails with requests in it | an answer reaches who asked |
| `LoginManager` | `_accMap`, `_unique_acc`, queued inserts | load, create, check, `Update` | MySQL through `MysqlStmt` | a restart loses the queue | ids and names unique |
| `DBService`, `SqlThread` | a list per worker, one result list, `bExit` | `asynQuery`, `asynExcute`, `Update`, the destructor | callbacks on the main thread | mutexes, a condition variable, closing | order per key, nothing lost |
| `CCircularQueue`, `LogService` | a ring of nodes, `m_count` | `Offer`, `Get`, `Poll` | every thread that logs | two threads without a lock | messages in order, none stuck |
| `TimeWheel` | five wheels and their hands | add, remove, `Update` | callbacks | carries, handing down, callbacks that change the wheels | every timer at exactly its tick |
| `NetClient` | `conn_status`, `m_pConnect`, `m_pConnectTemp`, a reconnect timer | connect, the io handlers, `update`, reconnect | io thread | status and pointer are written by the io thread and read twice by `update`, without a lock | a lost link is always replaced |
| `TimerManager` | a heap of timers | add (interval or time of day), remove, `Update` | `NetClient`, callbacks | removal and addition in a callback, a turn that comes late | called once for each time that has come, in order |
| `CTimerLayering` | five wheels of lists, a work list and a run list, a tick that wraps | add, adjust, remove, `Update` (exact and normal) | callbacks | cascades, the wrap, removal of the timer that is running | no timer is passed over or freed under its callback |
| `CoroutineManager` | `_pool`, `_used`, `_frees` | `Alloc`, `RegistFunc`, `Free`, `update` | `LoginGame` | two items are taken per log-in and one comes back | no item handed out while its coroutine exists |
| `MysqlStmt` | a queue per prepared statement, all on the main thread | prepare, submit, `Update` | account and database server | a queue that has run dry keeps a null entry; statements overtake each other | each query runs once, in its turn |
| `Initialer` | the set of services not ready and its size | `mgr_Initial`, `SetInit` | io thread, main thread, both clients | a `std::set` without a lock; connections that break during start-up | listens when all is ready, and does listen |
| aoi (`Public/aoi`), `MapManager` | sorted coordinate lists, triggers, references | enter, move, resize, leave, search | `Player` | a move passes many boundaries on three axes, and exactly one pass decides | who is near is seen, who left is forgotten |
| web-socket frames | length, collected payload, packs | header, extended length, payload, cut | `NetService` | frames and packs have different borders | packs come out whole and in order |
| `DataBase`, `ServerMgr`, game rules, tables | rows, processes, numbers | sequential | | | |

Vendored code (skynet, Lua, jemalloc, zlib, json, protobuf, Visual Leak
Detector), the older copies of the library (`src/Share`, `src/hh/libgame`) and
the tools are left aside. `PROJECT.json` lists every component with its status,
and every hazard with the line where it bites.

## 2. Modules

| module | models | run |
|---|---|---|
| `NetService` | `xlib/src/netserver/NetService.cpp` | `MCNetService`, `MCServerLive` |
| `NetServiceProofs` | theorems about `NetService` | |
| `PlayerMgr` | `hh/PlayerMgr.cpp`, `hh/AccountNetClient.cpp`, log-in and log-out of `hh/Player.cpp` | through `GameLogin` |
| `Login` | `Account/Login.cpp` | through `GameLogin` |
| `GameLogin` | `PlayerMgr` and `Login` joined by a link that may fail | `MCGameLogin` |
| `GameLoginProofs` | theorems about `GameLogin` | |
| `AsyncSql` | abstract: what asynchronous statements promise | |
| `SqlThread` | `xlib/src/mysql/DBService.cpp`, `DBSqlThread.cpp` | `MCSqlThread` |
| `SqlThreadProofs` | theorems about `SqlThread`, refinement of `AsyncSql` included | |
| `CircularQueue` | `xlib/include/CircularQueue.h` as `LogService.cpp` uses it | `MCCircularQueue` |
| `CircularQueueProofs` | theorems about `CircularQueue` | |
| `TimeWheel` | `xlib/src/timer/TimeWheel.cpp` | `MCServerSafe` |
| `TimerManager` | `xlib/include/timer/TimerManager.h`, `Timer.h` | `MCServerSafe` |
| `TimerLayering` | `xlib/src/timer/timerlayering.cpp` | `MCServerSafe` |
| `CoroutineManager` | `hh/CoroutineManager.cpp` as `PlayerMgr.cpp` uses it | `MCServerSafe` |
| `WebFrames` | the web-socket half of `NetService.cpp` | `MCServerSafe` |
| `ServerSafeProofs` | theorems about `TimerManager`, `WebFrames`, `TimerLayering`, `TimeWheel` and `CoroutineManager` | |
| `NetClient` | `xlib/src/netserver/NetClient.cpp` | `MCServerLive` |
| `NetClientProofs` | theorems about `NetClient` | |
| `Initialer` | `hh/Initialer.cpp`, start-up of the two clients | `MCServerLive` |
| `MysqlStmt` | `xlib/src/mysql/MysqlStmt.cpp` | `MCServerLive` |
| `ServerLiveProofs` | theorems about `Initialer` and `MysqlStmt` | |
| `AoiArea` | abstract: what the area of interest promises | |
| `Aoi` | `Public/aoi`, `hh/MapManager.cpp`; refines `AoiArea` | `MCAoi` |
| `AoiProofs` | theorems about `Aoi` | |

Definitions keep the names of the source. A definition marked "Mutant" is a
plausible mistake in the definition that follows it; replacing the one by the
other must break the property that `PROJECT.json` names, which shows that the
property depends on that piece of code.

### NetService

One step is a push to a vector, a copy-and-clear of one, a read handler, or one
iteration of a loop of `update()`. The state of a read chain (`reader`) says
which read is under way; a chain ends by calling `_OnBreak` or by finding its
socket reset. Bytes are left out: a handler learns whether its read failed,
whether the header was lawful and whether a pack is complete. In `stop()` a step
is one turn of a loop, a clear, deleting the acceptor or stopping the pool: io
threads push between any two of them, since `stop()` takes no mutex.
`StopClosesQueued`: what was queued when `stop()` began is closed all the same
(`leftover` is history). The constructor of `NetConnect` asks for
`remote_endpoint()`, which throws when the peer has reset the connection before
the accept handler runs; the io threads catch nothing, so this ends the process
(`OnAcceptThrows`, phase "terminated").

At this commit `Application::OnDisConnect` of the game server takes one argument
where xlib's `NetObserver` passes two; the model follows xlib.

### PlayerMgr, Login, GameLogin

All handlers run on the main threads of their programs, so an action is one
handler from beginning to end. What is not under their control is the order. A
session is kept as two functions on connections (`accid`, `player`), a player as
its `state`, `m_pConnect` and how often it is in Space 0 (`entities`). Requests
and answers travel in two sequences. A lost link empties the requests and any
suffix of the answers: those already read are still fired. A restart of the
account server loses its queued inserts and reads the table again. A connection
is "up", then "late" (its `OnDisConnect` has been called; the next `update()`
may still fire packs, see `QuietAfterDisConnect` of `NetService`), then "gone".

`LoginGame` runs its body in a coroutine that ends within the handler. The pool
it comes from is a module of its own (`CoroutineManager`): here the pool has not
run out. `by`, `told`, `proven` and `failed` are history; `failed` says that the
link or the account server has failed once, and `CreateAnswerOwn` and
`CheckAnswered` are stated for as long as it has not.

### SqlThread and AsyncSql

A section under a mutex is one step; the test of `bExit`, `notify_all` after the
unlock, the statement itself and each callback are steps of their own. Statements
are numbered in the order of asking. `AsyncSql` says what a caller may rely on:
per key, execution and callbacks in the order of asking, each once. `SqlThread`
implements it with the same three variables (`keyOf`, `executed`, `called`).

### CircularQueue

Each read or write of memory that both threads use is a step; `++m_count` and
`--m_count` are two. The steps of a thread are taken in program order and seen
by the other in that order: the build is MSVC for x86, where stores are not
reordered with stores nor loads with loads, and `m_count` is volatile. A
compiler that reordered the plain accesses would allow more behaviours.

### TimeWheel

Levels 1 to 5 are the five wheels. `Later` adds a delay field by field with
carry, as `AddTime` does; `due` is history and adds the same delay as one number
of ticks. `OnTime` compares the two. A callback is two steps, so that it can add
and remove timers between being called and being set again. Sizes and the length
of a second are constants, so that TLC can go through whole days. The day hand
never turns back, and no day is tested against the size of `day_wheel`: where the
code indexes it past its end (`CreateOutside`, `EndCallOutside`, `TickOutside`) the
model goes to `outside` and ends.

### TimerManager

The heap is a set of timers with an earliest element (`Front`, any of those with
the earliest time). `Update()` is a loop of callbacks; a callback may add and
remove timers, its own included. `due` is history: when the latest call was due.
`TimersInv` says that when `Update()` has returned every timer has been called
once for each of its times that has come, and none after its removal;
`InDueOrder` says that calls are made in the order of the times they are due,
over all timers and turns.

### TimerLayering

A tick has five digits, one with `TVR_SIZE` values and four with `TVN_SIZE` (256 and
64 in the code, 2 and 2 in the instance), and wraps. `where` is the list a timer is in. The lists of one slot
are sets: no property depends on the order. Both forms of `Update` are in the
model (`is_exact_`). `LayersInv` says that a timer is in the list its tick
belongs to, that none is passed over, and that none is freed under its callback.

### CoroutineManager

`LoginGame` is the only user. Its `Alloc` pops two items from the pool of 64 and
uses one; `Free` at the end of the body gives that one back and the early returns
give back none. The pool refills only when 512 ids are in use, which it can never
reach. `Conserved` says exactly this, and with it after which log-ins `Alloc`
pops from an empty list. `ReusedAfterDestroyed`: an item is in the pool only once
and never while its coroutine exists.

### NetClient

Each read and write of `conn_status` and `m_pConnectTemp` is a step. `update()`
reads the status twice; in between the io thread may report another connect or
break, and `Drop` overwrites what it wrote. `NeverGivesUp` is the safety half of
reconnecting, `Reconnects` the liveness half.

### Initialer

`mgr_Initial` calls every service; the clients' connects come from the io thread,
the list of players from the main thread. `SetInit` is taken apart into its
calls of the set (`call` per thread), and an erase into two steps. Connections
may break; the code asks for the list of players again on each connect. When two
`SetInit` overlap the port may be bound twice or not at all (a lost decrement of
the size); `overlapped` is history, and `ListensOnce` and `Listens` say that
nothing else leads there. `StartInv`: the server listens only when every service
has been called, an answer with players has been loaded and the account server
has been connected, now or before a break; overlapping calls do not change that.

### MysqlStmt

All queues belong to the main thread. `Update()` runs the first query of every
statement's queue; a queue that has run dry keeps one null entry, which the next
query replaces. `StmtInv`: every query is in the queue of its statement, once,
until it has run in the turn its place there gives it, whatever the other
statements do. A select without parameters that cannot be prepared is given up
(`PrepareFails`); with parameters, the caller writes through a null pointer
(section 5), and the model ends with the process.

### WebFrames

A client cuts its packs (a head and a body) into frames as it likes, and may send
noise. A byte is a token that says which byte of which pack it is; a head has
`HeadLen` of them, the first for `begflag`, the last for `datasize` and `endflag`, and
may be cut anywhere. `low` and `high` are the two parts of a frame's length as the
handlers write them. A read returns any part of a payload that has come, as
`async_read_some` does, and the rest of the buffer counts as read. `exact` is
history: every payload so far came as a whole and was read with the length of its
own frame. `FramesInv` says that as long as this is so the packs that come out are
a prefix of those that went in, all of them that are complete have come out, and
only noise breaks the connection; section 5 says what happens otherwise.

### Aoi and AoiArea

`space` is one record, because a request passes it through many `update()` calls,
one for each node that moves, and each of them tells the nodes that are passed
one after the other (`Tell`). Floats are integers, and `FLT_MAX` a number to which
adding a range changes nothing. `AoiAssumption` keeps positions and boundaries
within `FLT_MAX`: radii are positive and hystereses not negative. A radius that
with its hysteresis is above 512 leaves the triggers as they are
(`RadiusTooLarge`). `inside` and `repeated` are history: for whom a trigger has
called `onEnter` and not yet `onLeave`, and whether one was ever called twice in a
row; `InsideExact` speaks of both.
`AoiArea` knows no list: each entity sees who is in the inner range and, of those
it saw, who is still in the outer one. `Aoi` refines it (`AreaSpec`) when no
coordinate falls on an edge and nobody leaves in sight of another; the two
findings below are what happens otherwise.

### MCServerLive and MCServerSafe

Several parts are independent of each other: no shared variable and no shared
step. These modules put them side by side; `part`, chosen in the initial state,
names the one that moves while the others rest. Each behaviour is a behaviour of
one part, so what is checked is what separate runs would check. One module holds
the parts with liveness properties, with the fairness of each part gated by
`part`, the other those with safety properties only.

## 3. Runs

| run | instance | shows |
|---|---|---|
| `net_safety` | two connections, two packs each | `ReportedOnce`, `LiveNotClosed`, `PacksInOrder`, `QuietAfterDisConnect`, `StopClosesQueued` |
| `login_safety` | two connections, two accounts, three characters, three checks, failing link, restarts | `SessionProven`, `SessionOwnsPlayer`, `OnlineByOwner`, `PlayersAgree` (state, space and index of a player), `PlayerIdsUnique` |
| `login_answers` | two creations and a check, failing link, restarts, fair | `AccountRowsUnique`; until the first failure `CreateAnswerOwn`, `CheckAnswered` |
| `sql` | two workers, three keys, four statements, fair | `DeletedAfterAll`, `SqlInv`, `KeepsPromise` (refinement), `CalledBack` |
| `queue_safety` | five messages | `RingIntact`, `TakenInOrder` |
| `queue_stuck` | three messages | violates `NothingStuck` |
| `aoi_refines` | two entities on a grid, two pairs of radii and one above the limit | `InsideExact`, `AreaSpec` (refinement) |
| `aoi_game` | three players, the radius and the step of the game | `Consistent`, `SearchExact` |
| `aoi_ghost` | two players, one logs out in sight | violates `NoGhost` |
| `aoi_edge` | two players, the radius and the step of the game | violates `InsideSeen` |
| `server_live` | four parts, fair | `NetClient`: `NeverGivesUp`, `Reconnects`; `Initialer`: `StartInv`, `ListensOnce`, `Listens`; `MysqlStmt`: `StmtInv`, `AllRun`; `NetService`: `Reported` |
| `server_safe` | five parts | `TimeWheel`: `WheelInv`, `OnTime`; `CoroutineManager`: `ReusedAfterDestroyed`, `Conserved`; `TimerManager`: `TimersInv`, `InDueOrder`; `LayersInv`; `FramesInv` |

**Bounds.** Two connections are what an interaction between connections takes
here: no code looks at three. Two packs let one be fired before and one after a
break. Three checks allow a connection to be checked twice while another is
under way; three characters let each account have one and one be switched to. In
the SQL run two of three keys share a worker, so order within a key, within a
worker and across workers differ; four statements let one be in each place
(queue, worker, result, copy). Five messages make the ring grow, shrink to
empty, wrap and grow again.

Of `server_live`: four connections and two connects under way let a late connect
complete while an earlier connection is adopted and a third breaks; two plain
services and two breaks let either connection break before and after its
`SetInit`; four queries on two statements fill both lists and go round more than
once.

Of `server_safe`: the wheel has two slots per level, a tick of two milliseconds
and a day of sixteen ticks; a timer runs every 23 ms, eleven ticks and a part of
one, or after that every day, and two days pass, so every hand carries. With
`Delay = {1, 22}`, where a timer is called again within its slot, the same
properties hold; that takes twice as long and is not the default. Two heap
timers with intervals of 1 and 3 and turns up to 4 late let several calls fall due in one turn. The
layered ticks have five bits and start shortly before they wrap; a delay of 9
goes through a cascade. The pool of 13 runs out after a few log-ins. Three packs,
with heads of two bytes and bodies of at most one, in up to three frames put borders of
frames inside heads, before bodies and between packs. Lengths wrap at 4 and
payloads go up to 5 bytes, so a short frame may follow a long one, and every read
may return a part.

Of the aoi runs: the grid {0, 5, 10} with radii 3 and 8 has no point on an edge,
and its steps go along one, two and three axes; the game's step is (2, 2, 0) and
its radii 5 and 6, and of the positions a player may start at (`Vector3` is not
initialized) `aoi_game` takes two, such that some steps end on an edge, and
`aoi_edge` two of which one is on the edge of the other's area on one axis.

Symmetry is used over connections, timers and entities in runs without
liveness. Deadlock checking is off wherever a bound on requests, packs, messages
or time lets a model come to rest, as a server with nothing to do does; it is on
in the aoi runs.

**Fairness.** io threads and workers are scheduled by the operating system (weak
fairness per handler). The main loop calls `update()` for ever (game server and
account server; `DBService::Update` is called by `xx_game/Application.cpp:72-75`).
Strong fairness stands for the world outside where a statement needs it: a peer
that is asked again and again accepts (`ConnectSucceeds`), the reconnect timer
comes (`ReConnect`), and the end of a stream is read at last (`ReadEof`). Nothing
is assumed of clients, of the link, of restarts, or of spurious wake-ups.

**Findings.**

- `CircularQueue.h:20` says that one thread may take while one puts. The messages
  indeed arrive complete and in order, but the two threads change `m_count`
  without a lock. `queue_stuck` shows an update lost: `m_count` is 0 while a
  message is in the ring, and `Get` reports an empty queue until something else
  is offered.
- `RangeTrigger.cpp:47` says that the `xx` of a deleted node is set to `-FLT_MAX`
  so that it leaves every area. `EntityCoordinateNode::xx()`
  (`EntityCoordinateNode.cpp:307`) still answers with the entity's position, nothing
  moves, and no trigger hears of it. `aoi_ghost`: a player who logs out in sight
  of another stays in the other's list.
- `RangeTrigger.cpp:112` says that leaving the decision to a later axis if that
  one changed gives exactly one enter or leave. For an entity exactly on the
  upper bound of the later axis "changed" (`:113` for z, `:124` for y) goes by the
  direction on the first axis, and no pass follows. `aoi_edge`: with the game's own
  radius 5 and step (2, 2, 0), one player at (0, 0, 0), another who logs in at
  (6, 5, 0), and one step of the first; the other, now at a difference of
  (4, 3, 0), is not seen.

## 4. Proofs

The theorems hold for every value of the constants that satisfies the named
assumption of the component's module; TLC evaluates the same assumptions in the
runs. Each rests on an inductive invariant, which TLC checked on the instances
of the runs before it was proved.

### SqlThread (`SqlThreadProofs`)

For every number of workers, every set of keys and every bound on statements
(`SqlThreadAssumption`: at least one worker, keys are natural numbers):

- `TypeCorrect`: the type invariant.
- `Invariant`: `SqlInv` always holds.
- `NothingLost`: when the destructor has returned, everything asked for has been
  executed.
- `Implements`: `SqlThread` implements `AsyncSql`.

`KeepsPromise` speaks of what has happened; to know that the next step keeps the
order one has to know where the statements are. `SqlInv` says that on the way
`querysql` - `cur` - `result` - `temp` - `called` the numbers of one worker's
statements go down, that every statement is somewhere on it, and that what is
executed is exactly what has passed `cur`. Each way of moving a statement has its
lemma (`AsynFlow`, `TakeFlow`, `ProcessFlow`, `PostFlow`, `UpdateFlow`,
`CallbackFlow`); steps that move none are `QuietFlow`. The closing part
(`CloseInv`, lemma `CloseStep`) adds that nothing is asked for once a `bExit` is
set and that a finished worker has an empty list.

### NetService (`NetServiceProofs`)

For any set of connections and any number of packs (`MaxPackAssumption`):

- `TypeCorrect`, `Once` (`ReportedOnce`) and `LiveStaysOpen` (`LiveNotClosed`),
  from `NetServiceInv`: a connection not yet reported is in at most one of the two
  vectors of its kind, at most once, and only while its chain is in a state that
  put it there.
- `PacksStayInOrder` (`PacksInOrder`) and the action property `QuietOnceDrained`
  (`QuietAfterDisConnect`), from `PackInv`. That packs are in order is not enough
  to take another step: the copy of `NetPackVector` must find
  `NetPackVectorTemp` empty, and a connection counts as drained only because its
  chain of reads had ended when the vector was copied, so that neither vector
  holds a pack of it. `InOrder` restates the order of one connection's packs in a
  sequence shared by all, with lemmas for appending, taking and copying.
- `StopClosesAll` (`StopClosesQueued`), from `StopInv`: in each phase of `stop()`,
  whoever was queued when it began is closed or still waits in a vector, at a place
  the loop has not come to. Pushes go behind these places and only a clear empties
  a vector, after the loop has gone through all of it that was there.

### GameLogin (`GameLoginProofs`)

For any connections, accounts and characters, any number of checks and creations,
any failures of the link and restarts (`PlayerMgrAssumption`,
`GameLoginAssumption`), eight theorems from the invariant `GameInv`
(`GameInvariant`). Its parts build on each other:

- `PlayerInv`: `PlayersAgree` and `PlayerIdsUnique` with types, and with every id
  in use below `_unique_player`. `PlayersStayInStep`, `PlayerIdsStayUnique`.
- `ServerInv`: ids of rows, queued inserts included, are below `_unique_acc`, and
  their names are in `_accMap`; a restart that loses the queue keeps that.
  `AccountRowsStayUnique`.
- `AnswersMatch`: a check request or answer on its way carries a number whose
  entry in `m_pLogin`, if there is one, is the connection that asked; an answer
  that grants names an account whose password that connection gave. This is what
  makes answers after a disconnect harmless, since a number is never used again.
- `OwnerInv`: `SessionProven`, `SessionOwnsPlayer`, `OnlineByOwner`, each needing
  the others and `AnswersMatch`. `OnlyProvenSessions`, `SessionsOwnTheirPlayer`,
  `OnlyOwnersOnline`.
- `FirstAsker`: until the first failure, the first creation request of a name on
  its way, or the first answer to it, is that of the connection in `m_Creating`.
  `CreateAnswersReachAsker`.

### CircularQueue (`CircularQueueProofs`)

For any number of messages (`CircularQueueAssumption`): `MessagesInOrder`
(`TakenInOrder`) and `RingStaysWhole` (`RingIntact`). `RingIntact` says what one
finds walking from the head; alone it does not say that a node inserted behind
the end closes the ring again. `QueueInv` states that there is a cycle: an
enumeration of all nodes in which each one's `next` is the one after it, the
messages pending are in its first nodes, and `PutStage` says how far the putting
thread has come with a new node. `Counters` adds what each thread may rely on
although `m_count` may be wrong. `walk` is a recursive function; `WalkExists` shows
that it exists (a least counterexample), after which the cycle and the walk are
compared place by place.

### Initialer and MysqlStmt (`ServerLiveProofs`)

For any set of services and number of breaks, any statements and queries
(`PartsAssumption`):

- `ListensReady` (`StartInv`) and `StartsOnce` (`ListensOnce`), from `StartIInv`. A
  service leaves the set only by its own `SetInit`, so `InTime` says what must have
  happened when it is called or gone. `NotBelow`: overlapping calls leave the count
  too high and never too low, so that an empty count means an empty set.
  `Alone`: without an overlap the count is exact and one thread at most is between
  `erase` and the test.
- `QueriesInTurn` (`StmtInv`), from `StmtIInv`: `PlacedIn` says that the list of a
  statement is the lone null entry or holds its queries that have not run, in
  order, each where its turn says, also in the middle of `Update()`.

### TimerManager, WebFrames, TimerLayering and TimeWheel (`ServerSafeProofs`)

`SafePartsAssumption` and `TimeWheelAssumption` (constants are natural numbers, a
16-bit length is not empty, no wheel is empty):

- `TimersUpToDate` (`TimersInv`) and the action property `CalledInDueOrder`
  (`InDueOrder`), for any timers, intervals and late turns, from `HeapInv`: every
  timer is at one of its times, as far from its start as its loop count says,
  never more than one interval ahead and never before the latest call; the timer
  that is being called is one step further than its count.
- `FramesReadRight` (`FramesInv`), for any number of packs and frames, any length of
  a head and of a payload, and reads that return any part, from `WebInv` while
  `exact` holds. Its hypothesis `MaxBody < Short` (bodies below 65536 bytes) is one
  the code needs, since `NetPack` narrows the length. What the reader does after a
  payload that was not read exactly is not stated (section 5). `WebLine` puts
  together the byte taken last, `total_data`, `wire`, `stream` and the byte that
  comes next. `Linked` says that any two neighbours in it, heads of frames apart,
  follow each other in the client's stream: sending cuts the line differently,
  reading moves a border in it, taking a pack drops its beginning, and `Linked`
  survives all three. `Cut` says that the wire consists of whole frames.
  `PackInFront` then concludes, by a least counterexample, that a head is followed
  by its body.
- `LayersSound` (`LayersInv`), for any sizes of the wheels, delays, counts, budget and
  starting tick, as long as a delay and the lag of `Update()` together stay below
  half the range of a tick. Its hypothesis, that `AdjustTimer` is not given the delay
  0, is one the code needs (section 5). From `LayerInv`: a timer of wheel k is in the
  list of its digit and within the reach of the wheel, and its list is still to be
  spread (`Coming`): the block of wheel k - 1 that `last_tick_` is in ends before
  the expiry, or only begins at this tick and the cascade of this tick is still to
  come. `Clocks` orders the four clocks of `Update()`, so that whatever it puts back
  lies ahead. Division is reasoned about in its own lemmas (`OneQuotient`,
  `SameBlock`, `NextRest`, `SameRest`, `ZeroDigit`); the sizes are constants rather
  than powers of two because the prover knows nothing of exponents.
- `WheelSound` (`WheelInv`), for any sizes of the wheels, from `WheelKept`: a timer
  that is set and not in its callback has exactly one `Entry` in the wheels (`Once`),
  any other has none (`Nowhere`). Putting and taking are lemmas about entries
  (`PushedOnce`, `TakenOnce`).
- `WheelOnTime` (`OnTime`), from `WheelTimed`. `Value` is what five fields are worth in
  ticks: the fields of a delay are worth its ticks (`FieldsWorth`), `AddTime` adds
  them across every carry (`LaterWorth`), and a movement of the hands is worth one
  (`TickWorth`). `OnTime` is not inductive; `OnItsWay` adds where a timer may wait:
  in the slot of its field, and there ahead of the hand and level with the hands of
  the coarser wheels (`Ahead`), or level with this hand too and `Update()` has yet to
  come to the slot (`AtHand`). `TickReaches` shows that a hand that moves meets its
  timers and passes none. The theorem speaks of runs in which no timer is set for a
  day whose milliseconds do not fit an int (`DaysFit`): `GetTimerTick` overflows
  there, from day 25 on. Both wheels of the repository have 30 days
  (`hh/Application.cpp:32`, `HttpClient/Client.cpp:67`), so for them the theorem covers
  runs in which no timer is set for one of the last days. Both theorems speak of
  the time until `day_wheel` is indexed past its end (`outside`).

### NetClient (`NetClientProofs`)

For any set of connections and any number of connects under way
(`NetClientAssumption`):

- `TypeCorrect`, and `ClientNeverGivesUp` (`NeverGivesUp`). Alone it is not
  inductive: while `update()` stands between its reads, the status it read may
  be all that is left. `StatusSet` adds that the status is still set when
  `update()` has decided to act on it.

### CoroutineManager (`ServerSafeProofs`)

For any size of the pool, as long as the refill asks for more than twice as many
ids in use (`PoolAssumption`; 64 and 512 in the code):

- `PoolConserved` (`Conserved`), from `CountInv`, which adds to it the shape of the
  state and how many ids the log-ins have left in `_used`; lemma `NoRefill`
  concludes from it that the refill is never taken.
- `PoolReuse` (`ReusedAfterDestroyed`), from `ItemInv`: no item is twice in the pool
  and the list of items given back, and none in the pool is alive.

### Aoi (`AoiProofs`)

For any set of entities, any positions, steps and radii that stay within
`FLT_MAX` (`AoiAssumption`), in sight of each other and on the edges of areas or
not:

- `AoiConsistent` (`Consistent`). Between two requests every list is in order, but
  within a request it is not: an entity that moved puts itself and its four
  boundaries out of place, and they come back one by one while triggers are told.
  `Placed(w, S, D, M)` says how far: the nodes of `S` are linked, each once, in the
  order of the coordinates the lists know, and these are the real ones but for the
  nodes of `D`. A request is a chain of lemmas that make `S` or `D` larger or
  smaller (`InsertPlaced`, `MorePlaced`, `UpdatePlaced`, `SetBoundaryPlaced`,
  `RemovePlaced`); `AoiInv` is `Placed` with no node out of place, and that every
  boundary fits the floats. Under `UpdatePlaced` lies `MoveOnMoves`: the place where
  the two loops of `update()` stop is one where the list is in order again
  (`StopsAt`, `ShiftOrdered`), and telling the passes touches no list (`TellTold`).
  References and witnesses agree (`Agree`) after every single pass, whatever the
  trigger decides, so this holds also where the decision is wrong (`aoi_edge`).
- `AoiSearchExact` (`SearchExact`), from `AoiInv`: the entities of a list are in the
  order of their positions (`ListOfEntities`), the one `findNearestNode` stops at
  parts them at the position asked for (`NearestParts`), and so the walk both ways
  to the first that is too far meets all that are near (`WalkClose`).

### Method

The induction theorems of the library cannot be used with these provers; where
an argument goes over a sequence or a number it is made with a least
counterexample (`LeastExists`, `LargestExists`, from `WFMin`). Lemmas about
sequences are stated place by place.

### Only model-checked

- Liveness: `CalledBack`, `CheckAnswered`, `Reported`, `Reconnects`, `Listens`,
  `AllRun`. The prover treats neither fairness nor ENABLED.
- `InsideExact`, `InsideSeen` and the refinement `AreaSpec` of aoi. In general they
  are false: `aoi_edge` shows an entity on an edge that is never seen, and
  `aoi_ghost` one that left and is still seen. `InsideExact` and `AreaSpec` hold on
  a grid without a point on an edge, which says nothing for all values of the
  constants; `InsideSeen` fails for the radius and the step of the game. A theorem
  would need a condition on every pair of positions and radii that the code does
  not keep.

## 5. Known behaviours that no run states

The models have, or the code shows, these behaviours. Nothing in the repository
promises otherwise, so there is no statement to refute; as properties they do
not hold.

- `NetService.cpp:515`: a read of a part of a frame is taken for the whole, and
  `:468`: a short length keeps the high half of an earlier one. Bytes that were not
  read are then taken for packs, or a lawful client is broken off; the model does
  this too, once `exact` is false. `NetService.cpp:304`:
  `Send` writes from a local buffer with `async_write_some`, so a partial write
  loses the rest. `NetPack.h:53` narrows the size of a pack.
- `NetClient.cpp:101`, `:139`: with two connects under way, a break or a failure of
  one makes `update()` drop the other, healthy connection. It reconnects.
- `DBSqlThread.cpp:43`: `bExit` is set without the mutex; a worker that has tested
  it and not yet waited misses the only notification, and the destructor waits
  for ever.
- `TimeWheel.cpp:94`: a first delay of less than a slot falls into the slot the
  hand has just left; `:183`: `day * 86400000` overflows from day 25 on. `day_point`
  only grows: a wheel made for `day_count` days (30 in both programs) indexes
  `day_wheel` out of range when a timer is set for a later day (`:113`), sets itself
  again for one (`:247`), or the last midnight passes (`:352`). The model ends there
  (`outside`), so the theorems about the wheel say nothing of a server that runs for
  longer.
- `NetService.cpp:246`: `remote_endpoint()` throws for a peer that has reset its
  connection before the accept handler runs; nothing catches it, and the process
  ends. `:43-53`: a connection that an io thread pushes between the end of a loop of
  `stop()` and the clear is neither reported nor closed.
- `DBPlayer.cpp:36-37`, `Login.cpp:81-83`: `PrepareQuery` answers `NULL` when a statement
  cannot be prepared, and the callers use it untested. Only the select of all
  players (`DBPlayer.cpp:60`) prepares nothing itself and is dropped silently.
- `Initialer.cpp:42`: two `SetInit` that overlap start the service twice or never.
- `AccountNetClient.cpp:43`, `:66`: after the link has failed, the answer to a
  creation may go to the earlier asker of that name, and the entry of a check whose
  answer was lost stays.
- `timerlayering.cpp:109`: `AdjustTimer` does not test its delay, as `AddTimer` does.
  Called with 0 from a callback it puts the timer into the list that has just been
  taken, and the timer comes up a turn of `tv1_` late; `LayersInv` fails as soon as
  `AdjustElapses` holds 0.
- `PlayerMgr.cpp:254`: switching the character logs the old one out and leaves its
  id in the index.
- `DBPlayer.cpp:49`: the update of a player has no condition and writes every row;
  `:65`: a select that failed is answered with an empty list of players.
- `MysqlStmt.cpp:882`: a select whose rows cannot be stored is not reported to its
  caller; `:555`: the loop of `Close` that frees a queue counts up the iterator of
  the outer loop.
- `LogService.cpp:30`: the destructor closes the file before the thread has
  stopped.

## 6. Plan

1. Done: `NetService`, `SqlThread`, `NetClient`, `CoroutineManager`, `GameLogin` (with
   `PlayerMgr` and `Login`), `CircularQueue`, `Initialer`, `MysqlStmt`, `TimerManager`,
   `WebFrames`, `TimerLayering` and `TimeWheel` with proofs of all their safety
   properties; `Aoi` with its refinement, and proofs of what holds at the edges too.
2. Proofs left: of `Aoi`, that a pass of a boundary away from any edge decides
   rightly.
3. Composition left: `NetClient` in place of `LinkLost` and `LinkMade` in
   `GameLogin`.

## 7. Not modelled

Of about 312000 lines under `src`, some 98 per cent are third-party (v8 headers,
skynet, Lua, jemalloc, zlib, json, protobuf, Visual Leak Detector), generated
(protobuf, tables), or older copies of the same library. The servers' own state
changes are in a few thousand lines; the map covers about 3800 of them, in fifteen
files (the network service, the timers, aoi among them) more than half of all
lines.

- MySQL, sockets and files themselves; the text of the web-socket handshake,
  masking, and bytes that are sent.
- The rules of the game: `FightManager` is unfinished and does not compile;
  `INode` and `IComponent` have no user; the shop and dialogue handlers check a
  table and answer; the select of `ObjectModule` is never answered
  (`DBObject.cpp:56`).
- The inserts and updates of the `DataBase` server, which are one statement each;
  its list of players is part of `Initialer` and `PlayerMgr`.
- `xx_game` and `ServerMgr`: a main loop and process control.
- `libgame`, `Share`: libraries no program here links; much of `libgame` is
  templates nothing instantiates. `xlib` path finding, word filter, ranking and
  `mysql2`: sequential, or without a caller.
- Of aoi: a radius of 0, detaching a witness and `resetAOIEntities`, without a
  caller. Of `NetClient`: the list of packs to resend, which no caller asks for.
- Torn reads of a `std::vector`, a `std::set` or a `shared_ptr` that two threads
  use without a lock: the models interleave whole operations.
