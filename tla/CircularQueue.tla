--------------------------- MODULE CircularQueue ----------------------------
(***************************************************************************)
(* CCircularQueue (xlib/include/CircularQueue.h) as the log service uses   *)
(* it (xlib/src/log/LogService.cpp): LogMessage offers under m_Mutex, so   *)
(* one thread puts at a time, and ThreadProc takes without any lock.       *)
(*                                                                         *)
(* The queue is a ring of nodes that grows when full.  Each read or write  *)
(* of memory that both threads use is one step; ++m_count and --m_count    *)
(* are a read and a write, volatile making neither atomic.  Messages are   *)
(* numbered in the order they are offered.                                 *)
(***************************************************************************)
EXTENDS Naturals, Sequences

CONSTANT MaxMsg                 \* bound on messages

ASSUME CircularQueueAssumption == MaxMsg \in Nat \ {0}

Node == 1..MaxMsg + 1           \* an Offer creates at most one node

VARIABLES
    next, data,                 \* the nodes (0: not yet set)
    m_head, m_end, m_count, m_countNode,
    putter, up,                 \* where Offer is; m_count as ++ read it
    taker, down,                \* where ThreadProc is; m_count as -- read it
    offered,                    \* history: how many messages were put
    taken                       \* history: the messages written to the file

ringVars == <<next, data, m_head, m_end, m_countNode>>
putVars == <<putter, up, offered>>
takeVars == <<taker, down, taken>>
vars == <<ringVars, m_count, putVars, takeVars>>

(* The constructor: one node that is its own successor. *)
Init ==
    /\ next = [n \in Node |-> IF n = 1 THEN 1 ELSE 0]
    /\ data = [n \in Node |-> 0]
    /\ m_head = 1 /\ m_end = 1 /\ m_count = 0 /\ m_countNode = 1
    /\ putter = "idle" /\ up = 0 /\ offered = 0
    /\ taker = "idle" /\ down = 0 /\ taken = <<>>

-----------------------------------------------------------------------------
(* Offer.                                                                  *)

(* m_end->GetNext() == m_head: all nodes but one hold a message. *)
OfferTest ==
    /\ putter = "idle" /\ offered < MaxMsg
    /\ putter' = IF next[m_end] = m_head THEN "add" ELSE "data"
    /\ UNCHANGED <<ringVars, m_count, up, offered, takeVars>>

(* AddNode: CreateNode and m_end->next = pNode ... *)
AddNode ==
    /\ putter = "add"
    /\ m_countNode' = m_countNode + 1
    /\ next' = [next EXCEPT ![m_end] = m_countNode + 1]
    /\ putter' = "close"
    /\ UNCHANGED <<data, m_head, m_end, m_count, up, offered, takeVars>>

(* Mutant: the new node is its own successor. *)
AddNodeToItself ==
    /\ putter = "close"
    /\ next' = [next EXCEPT ![m_countNode] = m_countNode]
    /\ putter' = "data"
    /\ UNCHANGED <<data, m_head, m_end, m_countNode, m_count, up, offered, takeVars>>

(* ... then pNode->next = m_head, which may have moved since the test. *)
AddNodeNext ==
    /\ putter = "close"
    /\ next' = [next EXCEPT ![m_countNode] = m_head]
    /\ putter' = "data"
    /\ UNCHANGED <<data, m_head, m_end, m_countNode, m_count, up, offered, takeVars>>

StoreData ==
    /\ putter = "data"
    /\ data' = [data EXCEPT ![m_end] = offered + 1]
    /\ putter' = "end"
    /\ UNCHANGED <<next, m_head, m_end, m_countNode, m_count, up, offered, takeVars>>

MoveEnd ==
    /\ putter = "end"
    /\ m_end' = next[m_end]
    /\ offered' = offered + 1
    /\ putter' = "count"
    /\ UNCHANGED <<next, data, m_head, m_countNode, m_count, up, takeVars>>

(* ++m_count *)
CountUpRead ==
    /\ putter = "count"
    /\ up' = m_count
    /\ putter' = "write"
    /\ UNCHANGED <<ringVars, m_count, offered, takeVars>>

CountUpWrite ==
    /\ putter = "write"
    /\ m_count' = up + 1
    /\ putter' = "idle"
    /\ UNCHANGED <<ringVars, up, offered, takeVars>>

-----------------------------------------------------------------------------
(* ThreadProc: Get, then Poll.  Each tests m_head == m_end first and       *)
(* m_count == 0 second; nothing to take sends the thread to sleep.         *)

(* Mutant: m_count is not tested. *)
CountedAlways == TRUE

Counted == m_count # 0

(* Mutant: Get and Poll rely on m_count alone. *)
TestEndsNot(from, to) ==
    /\ taker = from
    /\ taker' = to
    /\ UNCHANGED <<ringVars, m_count, down, taken, putVars>>

TestEnds(from, to) ==
    /\ taker = from
    /\ taker' = IF m_head = m_end THEN "idle" ELSE to
    /\ UNCHANGED <<ringVars, m_count, down, taken, putVars>>

TestCount(from, to) ==
    /\ taker = from
    /\ taker' = IF Counted THEN to ELSE "idle"
    /\ UNCHANGED <<ringVars, m_count, down, taken, putVars>>

Get == TestEnds("idle", "getCount") \/ TestCount("getCount", "poll")

(* --m_count *)
CountDownRead ==
    /\ taker = "down"
    /\ down' = m_count
    /\ taker' = "downWrite"
    /\ UNCHANGED <<ringVars, m_count, taken, putVars>>

CountDownWrite ==
    /\ taker = "downWrite"
    /\ m_count' = down - 1
    /\ taker' = "data"
    /\ UNCHANGED <<ringVars, down, taken, putVars>>

ReadData ==
    /\ taker = "data"
    /\ taken' = Append(taken, data[m_head])
    /\ taker' = "head"
    /\ UNCHANGED <<ringVars, m_count, down, putVars>>

MoveHead ==
    /\ taker = "head"
    /\ m_head' = next[m_head]
    /\ taker' = "idle"
    /\ UNCHANGED <<next, data, m_end, m_countNode, m_count, down, taken, putVars>>

Poll ==
    \/ TestEnds("poll", "pollCount") \/ TestCount("pollCount", "down")
    \/ CountDownRead \/ CountDownWrite \/ ReadData \/ MoveHead

Offer ==
    \/ OfferTest \/ AddNode \/ AddNodeNext \/ StoreData \/ MoveEnd
    \/ CountUpRead \/ CountUpWrite

Next == Offer \/ Get \/ Poll

Spec == Init /\ [][Next]_vars

-----------------------------------------------------------------------------
(* m_count is a size_t: a decrement below zero would make it huge. *)
TypeOK ==
    /\ next \in [Node -> Node \union {0}] /\ data \in [Node -> 0..MaxMsg]
    /\ m_head \in Node /\ m_end \in Node
    /\ m_countNode \in Node /\ m_count \in Nat
    /\ putter \in {"idle", "add", "close", "data", "end", "count", "write"}
    /\ taker \in {"idle", "getCount", "poll", "pollCount", "down", "downWrite",
                  "data", "head"}
    /\ up \in Nat /\ down \in Nat
    /\ offered \in 0..MaxMsg /\ taken \in Seq(0..MaxMsg)

(* What ThreadProc takes is what LogMessage put, in order, each once and   *)
(* never a node that is being filled.                                      *)
TakenInOrder == \A i \in DOMAIN taken : taken[i] = i

(* How many messages have left the ring: one that was read is in it until  *)
(* m_head moves on.                                                        *)
Gone == IF taker = "head" THEN Len(taken) - 1 ELSE Len(taken)

(* The nodes met by following next from m_head. *)
walk[k \in 0..MaxMsg] == IF k = 0 THEN m_head ELSE next[walk[k - 1]]

(* Although the ring is relinked while the taker walks it, following next  *)
(* from m_head meets exactly the messages not yet taken and then m_end.    *)
PendingIntact ==
    /\ \A k \in 0..offered - Gone - 1 : data[walk[k]] = Gone + k + 1
    /\ walk[offered - Gone] = m_end

(* The ring is whole at every step of either thread, while it grows too.   *)
RingIntact == TypeOK /\ PendingIntact

(* "One thread takes and one puts" (CircularQueue.h:20): with neither at   *)
(* work, a queue that holds messages is not seen as empty by Get.          *)
NothingStuck ==
    putter = "idle" /\ taker = "idle" /\ m_head # m_end => m_count # 0
=============================================================================
