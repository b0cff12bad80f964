------------------------ MODULE CircularQueueProofs -------------------------
(***************************************************************************)
(* Proofs about CircularQueue: ThreadProc takes every message once and in  *)
(* order, and the ring is whole at every step of both threads, whatever    *)
(* their interleaving and however often the ring grows under the taker.    *)
(***************************************************************************)
EXTENDS CircularQueue, WellFoundedInduction, TLAPS

(* A set of natural numbers that is not empty has a least element. *)
LEMMA LeastExists ==
    ASSUME NEW S \in SUBSET Nat, S # {}
    PROVE  \E m \in S : \A x \in S : m <= x
<1> DEFINE R == OpToRel(<, Nat)
<1>1. IsWellFoundedOn(R, Nat)
  BY NatLessThanWellFounded
<1>2. PICK m \in S : \A x \in S : <<x, m>> \notin R
  <2> HIDE DEF R
  <2> QED
    BY <1>1, WFMin
<1>3. ASSUME NEW x \in S PROVE m <= x
  <2>1. ~(x < m)
    BY <1>2 DEF OpToRel
  <2> QED
    BY <2>1
<1> QED
  BY <1>3

(* f follows g from a, n times. *)
IsWalk(f, n, a, g) == f = [k \in 0..n |-> IF k = 0 THEN a ELSE g[f[k - 1]]]

LEMMA WalkExists ==
    ASSUME NEW n \in Nat, NEW a, NEW g
    PROVE  \E f : IsWalk(f, n, a, g)
<1> DEFINE Is(f, i) == IsWalk(f, i, a, g)
           Bad == {i \in Nat : ~\E f : Is(f, i)}
<1>1. SUFFICES ASSUME Bad # {} PROVE FALSE
  OBVIOUS
<1>2. PICK m \in Bad : \A x \in Bad : m <= x
  <2> HIDE DEF Bad
  <2>1. Bad \in SUBSET Nat
    BY DEF Bad
  <2> QED
    BY <1>1, <2>1, LeastExists
<1>3. m # 0
  <2>1. Is([k \in 0..0 |-> a], 0)
    BY DEF IsWalk
  <2> QED
    BY <1>2, <2>1
<1>4. PICK f : Is(f, m - 1)
  <2>1. m - 1 \in Nat /\ ~(m <= m - 1)
    BY <1>2, <1>3
  <2> HIDE DEF Is
  <2> QED
    BY <1>2, <2>1
<1>5. PICK h : h = [k \in 0..m |-> IF k = m THEN g[f[m - 1]] ELSE f[k]]
  OBVIOUS
<1>6. ASSUME NEW k \in 0..m PROVE h[k] = IF k = 0 THEN a ELSE g[h[k - 1]]
  <2>0. m \in Nat /\ m # 0 /\ m - 1 \in 0..m - 1
    BY <1>2, <1>3
  <2>1. CASE k = m
    BY <1>5, <2>0, <2>1
  <2>2. CASE k # m
    <3>1. k \in 0..m - 1 /\ h[k] = f[k] /\ (k # 0 => k - 1 \in 0..m - 1 /\ h[k - 1] = f[k - 1])
      BY <1>5, <2>0, <2>2
    <3>2. f[k] = IF k = 0 THEN a ELSE g[f[k - 1]]
      BY <1>4, <3>1 DEF IsWalk
    <3> QED
      BY <3>1, <3>2
  <2> QED
    BY <2>1, <2>2
<1>7. Is(h, m)
  BY <1>5, <1>6 DEF IsWalk
<1> QED
  BY <1>2, <1>7

(* Walking from m_head, step by step. *)
LEMMA WalkSteps ==
    /\ walk[0] = m_head
    /\ \A k \in 1..MaxMsg : walk[k] = next[walk[k - 1]]
<1>0. MaxMsg \in Nat
  BY CircularQueueAssumption
<1>1. \E f : f = [k \in 0..MaxMsg |-> IF k = 0 THEN m_head ELSE next[f[k - 1]]]
  <2>1. \E f : IsWalk(f, MaxMsg, m_head, next)
    BY <1>0, WalkExists
  <2> QED
    BY <2>1 DEF IsWalk
<1>2. walk = [k \in 0..MaxMsg |-> IF k = 0 THEN m_head ELSE next[walk[k - 1]]]
  BY <1>1 DEF walk
<1>3. 0 \in 0..MaxMsg /\ \A k \in 1..MaxMsg : k \in 0..MaxMsg /\ k # 0
  BY <1>0
<1>4. \A k \in 0..MaxMsg : walk[k] = IF k = 0 THEN m_head ELSE next[walk[k - 1]]
  <2>1. PICK w : w = walk
    OBVIOUS
  <2>2. w = [k \in 0..MaxMsg |-> IF k = 0 THEN m_head ELSE next[w[k - 1]]]
    BY <1>2, <2>1
  <2>3. \A k \in 0..MaxMsg : w[k] = IF k = 0 THEN m_head ELSE next[w[k - 1]]
    BY <2>2
  <2> QED
    BY <2>1, <2>3
<1> QED
  BY <1>3, <1>4

-----------------------------------------------------------------------------
(* The inductive invariant.  The ring is a cycle c of L nodes that begins  *)
(* at m_head and passes m_end after the pending messages.  While AddNode   *)
(* is half done it is open: the nodes the taker has left since Offer found *)
(* it full have dropped out, and the new node is the one after m_end.      *)

Pending == offered - Gone

Cycle(c, L) ==
    /\ c \in [0..L - 1 -> 1..m_countNode]
    /\ \A i, j \in 0..L - 1 : c[i] = c[j] => i = j
    /\ Pending \in 0..L - 1 /\ c[0] = m_head /\ c[Pending] = m_end
    /\ \A k \in 0..L - 2 : next[c[k]] = c[k + 1]
    /\ \A k \in 0..Pending - 1 : data[c[k]] = Gone + k + 1

(* Where Offer is: the ring is closed, there is room for one more node     *)
(* after m_end, and the message is stored.                                 *)
PutStage(c, L) ==
    /\ putter # "close" => next[c[L - 1]] = m_head
    /\ putter = "close" => L = Pending + 2 /\ c[L - 1] = m_countNode
    /\ putter \in {"data", "end"} => Pending < L - 1
    /\ putter = "end" => data[m_end] = offered + 1

(* The counters: what each thread may rely on although the other one runs. *)
Counters ==
    /\ Gone \in Nat /\ Pending \in Nat /\ (taker # "idle" => Pending > 0)
    /\ m_countNode <= offered + (IF putter \in {"close", "data", "end"} THEN 2 ELSE 1)
    /\ putter \in {"add", "close", "data", "end"} => offered < MaxMsg
    /\ taker = "down" => m_count > 0
    /\ taker = "downWrite" => down > 0

QueueInv ==
    /\ TypeOK /\ Counters /\ TakenInOrder
    /\ \E L \in Nat \ {0} : \E c : Cycle(c, L) /\ PutStage(c, L)

LEMMA QueueInit == Init => QueueInv
<1> SUFFICES ASSUME Init PROVE QueueInv
  OBVIOUS
<1>0. MaxMsg \in Nat \ {0} /\ 1 \in Node
  BY CircularQueueAssumption DEF Node
<1>1. Gone = 0 /\ Pending = 0 /\ offered = 0 /\ m_head = 1 /\ m_end = 1 /\ next[1] = 1
      /\ m_countNode = 1 /\ putter = "idle" /\ taker = "idle" /\ taken = <<>>
  <2>1. /\ offered = 0 /\ m_head = 1 /\ m_end = 1 /\ m_countNode = 1
        /\ putter = "idle" /\ taker = "idle" /\ taken = <<>>
    BY DEF Init
  <2>2. next[1] = 1
    BY <1>0 DEF Init
  <2>3. Gone = 0 /\ Pending = 0
    <3>1. Len(taken) = 0
      BY <2>1
    <3>2. Gone = Len(taken)
      BY <2>1 DEF Gone
    <3> QED
      BY <2>1, <3>1, <3>2 DEF Pending
  <2> QED
    BY <2>1, <2>2, <2>3
<1>2. TypeOK
  BY <1>0 DEF Init, TypeOK, Node
<1>3. Counters /\ TakenInOrder
  BY <1>0, <1>1 DEF Counters, TakenInOrder
<1>4. Cycle([k \in 0..0 |-> 1], 1) /\ PutStage([k \in 0..0 |-> 1], 1)
  BY <1>1 DEF Cycle, PutStage
<1> QED
  BY <1>2, <1>3, <1>4 DEF QueueInv

(* A step of the taker that leaves the ring, and what is pending in it. *)
LEMMA TakerTests ==
    ASSUME QueueInv, UNCHANGED <<ringVars, putVars>>,
           Gone' = Gone, TakenInOrder', TypeOK',
           taker' # "idle" => Pending > 0,
           taker' = "down" => m_count' > 0, taker' = "downWrite" => down' > 0
    PROVE  QueueInv'
<1>0. /\ next' = next /\ data' = data /\ m_head' = m_head /\ m_end' = m_end
      /\ m_countNode' = m_countNode /\ putter' = putter /\ up' = up
      /\ offered' = offered
  BY DEF ringVars, putVars
<1>1. Pending' = Pending
  BY <1>0 DEF Pending
<1>2. Counters'
  BY <1>0, <1>1 DEF QueueInv, Counters
<1>3L. PICK L \in Nat \ {0} : \E c : Cycle(c, L) /\ PutStage(c, L)
  BY DEF QueueInv
<1>3. PICK c : Cycle(c, L) /\ PutStage(c, L)
  BY <1>3L
<1>4. Cycle(c, L)' /\ PutStage(c, L)'
  BY <1>0, <1>1, <1>3 DEF Cycle, PutStage
<1> QED
  BY <1>2, <1>4 DEF QueueInv

(* m_head and m_end differ as long as a message is pending, and only then. *)
LEMMA EmptyAtEnd == ASSUME QueueInv PROVE m_head = m_end <=> Pending = 0
<1>1L. PICK L \in Nat \ {0} : \E c : Cycle(c, L)
  BY DEF QueueInv
<1>1. PICK c : Cycle(c, L)
  BY <1>1L
<1>2. 0 \in 0..L - 1 /\ Pending \in 0..L - 1
  BY <1>1 DEF Cycle
<1> QED
  BY <1>1, <1>2 DEF Cycle

LEMMA TestEndsStep ==
    ASSUME QueueInv, NEW from, NEW to \in {"getCount", "pollCount"},
           from \in {"idle", "poll"}, TestEnds(from, to)
    PROVE  QueueInv'
<1>1. UNCHANGED <<ringVars, putVars>> /\ m_count' = m_count /\ down' = down
      /\ taken' = taken /\ taker = from
  BY DEF TestEnds
<1>2. taker' \in {"idle", to} /\ (taker' # "idle" => m_head # m_end)
  BY DEF TestEnds
<1>3. Gone' = Gone /\ TakenInOrder'
  BY <1>1, <1>2 DEF Gone, QueueInv, TakenInOrder
<1>4. TypeOK'
  BY <1>1, <1>2 DEF QueueInv, TypeOK, ringVars, putVars, Node
<1>5. taker' # "idle" => Pending > 0
  BY <1>2, EmptyAtEnd DEF QueueInv, Counters
<1> QED
  BY <1>1, <1>2, <1>3, <1>4, <1>5, TakerTests

LEMMA TestCountStep ==
    ASSUME QueueInv, NEW from, NEW to \in {"poll", "down"},
           from \in {"getCount", "pollCount"}, TestCount(from, to)
    PROVE  QueueInv'
<1>1. UNCHANGED <<ringVars, putVars>> /\ m_count' = m_count /\ down' = down
      /\ taken' = taken /\ taker = from
  BY DEF TestCount
<1>2. taker' \in {"idle", to} /\ (taker' # "idle" => m_count # 0)
  BY DEF TestCount, Counted
<1>3. Gone' = Gone /\ TakenInOrder'
  BY <1>1, <1>2 DEF Gone, QueueInv, TakenInOrder
<1>4. TypeOK'
  BY <1>1, <1>2 DEF QueueInv, TypeOK, ringVars, putVars, Node
<1>5. Pending > 0
  BY <1>1 DEF QueueInv, Counters
<1>6. taker' = "down" => m_count' > 0
  BY <1>1, <1>2 DEF QueueInv, TypeOK
<1> QED
  BY <1>1, <1>2, <1>3, <1>4, <1>5, <1>6, TakerTests

LEMMA CountDownStep ==
    ASSUME QueueInv, CountDownRead \/ CountDownWrite
    PROVE  QueueInv'
<1>1. UNCHANGED <<ringVars, putVars>> /\ taken' = taken /\ m_count \in Nat
      /\ taker \in {"down", "downWrite"} /\ taker' \in {"downWrite", "data"}
  BY DEF CountDownRead, CountDownWrite, QueueInv, TypeOK
<1>2. Gone' = Gone /\ TakenInOrder'
  BY <1>1 DEF Gone, QueueInv, TakenInOrder
<1>3. m_count' \in Nat /\ down' \in Nat /\ (taker' = "downWrite" => down' > 0)
  BY DEF CountDownRead, CountDownWrite, QueueInv, TypeOK, Counters
<1>4. TypeOK'
  BY <1>1, <1>3 DEF QueueInv, TypeOK, ringVars, putVars, Node
<1>5. Pending > 0
  BY <1>1 DEF QueueInv, Counters
<1> QED
  BY <1>1, <1>2, <1>3, <1>4, <1>5, TakerTests

(* The message ThreadProc reads is the next one, and complete. *)
LEMMA ReadDataStep == ASSUME QueueInv, ReadData PROVE QueueInv'
<1>1. /\ UNCHANGED <<ringVars, putVars>> /\ m_count' = m_count /\ down' = down
      /\ taken' = Append(taken, data[m_head]) /\ taker = "data" /\ taker' = "head"
  BY DEF ReadData
<1>2. taken \in Seq(0..MaxMsg) /\ data[m_head] \in 0..MaxMsg
  BY DEF QueueInv, TypeOK
<1>3. Pending > 0 /\ Gone = Len(taken) /\ Gone \in Nat
  BY <1>1 DEF QueueInv, Counters, Gone
<1>4. data[m_head] = Len(taken) + 1
  <2>1L. PICK L \in Nat \ {0} : \E c : Cycle(c, L)
    BY DEF QueueInv
  <2>1. PICK c : Cycle(c, L)
    BY <2>1L
  <2>2. 0 \in 0..Pending - 1
    BY <1>3, <2>1 DEF Cycle
  <2>3. data[c[0]] = Gone + 0 + 1 /\ c[0] = m_head
    BY <2>1, <2>2 DEF Cycle
  <2> QED
    BY <1>3, <2>3
<1>5. /\ taken' \in Seq(0..MaxMsg) /\ Len(taken') = Len(taken) + 1
      /\ DOMAIN taken = 1..Len(taken) /\ DOMAIN taken' = 1..Len(taken) + 1
      /\ \A i \in 1..Len(taken) : taken'[i] = taken[i]
      /\ taken'[Len(taken) + 1] = Len(taken) + 1
  BY <1>1, <1>2, <1>4
<1>6. TakenInOrder'
  BY <1>3, <1>5 DEF QueueInv, TakenInOrder
<1>7. Gone' = Gone
  BY <1>1, <1>3, <1>5 DEF Gone
<1>8. TypeOK'
  BY <1>1, <1>5 DEF QueueInv, TypeOK, ringVars, putVars, Node
<1> QED
  BY <1>1, <1>3, <1>6, <1>7, <1>8, TakerTests

(* m_head moves on: the cycle begins one node further, and its last node   *)
(* is the one that was the first, unless the ring is open.                 *)
LEMMA MoveHeadStep == ASSUME QueueInv, MoveHead PROVE QueueInv'
<1>0. /\ taker = "head" /\ taker' = "idle" /\ m_head' = next[m_head]
      /\ next' = next /\ data' = data /\ m_end' = m_end
      /\ m_countNode' = m_countNode /\ m_count' = m_count /\ down' = down
      /\ taken' = taken /\ putter' = putter /\ up' = up /\ offered' = offered
  BY DEF MoveHead, putVars
<1>1. PICK p : p = Pending
  OBVIOUS
<1>2. PICK n : n = Gone
  OBVIOUS
<1>3. /\ n \in Nat /\ p \in Nat /\ p > 0 /\ n = Len(taken) - 1 /\ p = offered - n
      /\ offered \in 0..MaxMsg /\ MaxMsg \in Nat /\ Len(taken) \in Nat
  BY <1>0, <1>1, <1>2, CircularQueueAssumption
     DEF QueueInv, Counters, Gone, Pending, TypeOK
<1>4. Gone' = n + 1 /\ Pending' = p - 1
  BY <1>0, <1>3 DEF Gone, Pending
<1>5L. PICK L \in Nat \ {0} : \E c : Cycle(c, L) /\ PutStage(c, L)
  BY DEF QueueInv
<1>5. PICK c : Cycle(c, L) /\ PutStage(c, L)
  BY <1>5L
<1>6. /\ c \in [0..L - 1 -> 1..m_countNode]
      /\ \A i, j \in 0..L - 1 : c[i] = c[j] => i = j
      /\ p \in 0..L - 1 /\ c[0] = m_head /\ c[p] = m_end
      /\ \A k \in 0..L - 2 : next[c[k]] = c[k + 1]
      /\ \A k \in 0..p - 1 : data[c[k]] = n + k + 1
  BY <1>1, <1>2, <1>5 DEF Cycle
<1>7. L > 1 /\ 0 \in 0..L - 2 /\ 1 \in 0..L - 1
  BY <1>3, <1>6
<1>8. m_head' = c[1] /\ c[1] \in 1..m_countNode /\ m_countNode \in Node
  BY <1>0, <1>6, <1>7 DEF QueueInv, TypeOK
<1>9. TypeOK'
  <2>1. m_head' \in Node
    BY <1>8, CircularQueueAssumption DEF Node
  <2> QED
    BY <1>0, <2>1 DEF QueueInv, TypeOK, Node
<1>10. Counters' /\ TakenInOrder'
  BY <1>0, <1>3, <1>4 DEF QueueInv, Counters, TakenInOrder
<1>11. \E K \in Nat \ {0} : \E d : Cycle(d, K)' /\ PutStage(d, K)'
  <2>1. CASE putter = "close"
    <3>0. L = p + 2 /\ c[L - 1] = m_countNode
      BY <1>1, <1>5, <2>1 DEF PutStage
    <3>1. PICK K : K = L - 1
      OBVIOUS
    <3>2. PICK d : d = [k \in 0..K - 1 |-> c[k + 1]]
      OBVIOUS
    <3>3. K \in Nat \ {0} /\ \A k \in 0..K - 1 : k + 1 \in 0..L - 1 /\ d[k] = c[k + 1]
      BY <1>7, <3>1, <3>2
    <3>4. d \in [0..K - 1 -> 1..m_countNode]
      BY <1>6, <3>2, <3>3
    <3>5. ASSUME NEW i \in 0..K - 1, NEW j \in 0..K - 1, d[i] = d[j] PROVE i = j
      BY <1>6, <3>3, <3>5
    <3>6. d[0] = c[1] /\ p - 1 \in 0..K - 1 /\ d[p - 1] = m_end /\ d[K - 1] = c[L - 1]
      <4>1. /\ 0 \in 0..K - 1 /\ 0 + 1 = 1 /\ p - 1 \in 0..K - 1 /\ (p - 1) + 1 = p
            /\ K - 1 \in 0..K - 1 /\ (K - 1) + 1 = L - 1
        BY <1>3, <1>7, <3>0, <3>1
      <4> QED
        BY <1>6, <3>3, <4>1
    <3>7. ASSUME NEW k \in 0..K - 2 PROVE next[d[k]] = d[k + 1]
      <4>1. k + 1 \in 0..L - 2 /\ k \in 0..K - 1 /\ k + 1 \in 0..K - 1
        BY <1>7, <3>1
      <4> QED
        BY <1>6, <3>3, <4>1
    <3>8. ASSUME NEW k \in 0..p - 2 PROVE data[d[k]] = n + 1 + k + 1
      <4>1. k + 1 \in 0..p - 1 /\ k \in 0..K - 1
        BY <1>3, <3>0, <3>1
      <4>2. data[d[k]] = n + (k + 1) + 1
        BY <1>6, <3>3, <4>1
      <4> QED
        BY <1>3, <4>2
    <3>9. Cycle(d, K)'
      BY <1>0, <1>3, <1>4, <1>8, <3>4, <3>5, <3>6, <3>7, <3>8 DEF Cycle
    <3>10. K = p + 1 /\ d[K - 1] = m_countNode
      BY <1>3, <3>0, <3>1, <3>6
    <3>11. PutStage(d, K)'
      BY <1>0, <1>3, <1>4, <2>1, <3>10 DEF PutStage
    <3> QED
      BY <3>3, <3>9, <3>11
  <2>2. CASE putter # "close"
    <3>0. next[c[L - 1]] = m_head
      BY <1>5, <2>2 DEF PutStage
    <3>2. PICK d : d = [k \in 0..L - 1 |-> IF k = L - 1 THEN c[0] ELSE c[k + 1]]
      OBVIOUS
    <3>3. /\ \A k \in 0..L - 2 : k \in 0..L - 1 /\ k + 1 \in 0..L - 1 /\ d[k] = c[k + 1]
          /\ L - 1 \in 0..L - 1 /\ d[L - 1] = c[0]
          /\ \A k \in 0..L - 1 : k = L - 1 \/ k \in 0..L - 2
      BY <1>7, <3>2
    <3>4. d \in [0..L - 1 -> 1..m_countNode]
      BY <1>6, <3>2, <3>3
    <3>5. ASSUME NEW i \in 0..L - 1, NEW j \in 0..L - 1, d[i] = d[j] PROVE i = j
      <4>1. CASE i = L - 1 /\ j = L - 1
        BY <4>1
      <4>2. CASE i \in 0..L - 2 /\ j \in 0..L - 2
        <5>1. c[i + 1] = c[j + 1] /\ i + 1 \in 0..L - 1 /\ j + 1 \in 0..L - 1
          BY <3>3, <3>5, <4>2
        <5>2. i + 1 = j + 1
          BY <1>6, <5>1
        <5> QED
          BY <5>2
      <4>3. ASSUME NEW k \in 0..L - 2 PROVE d[k] # d[L - 1]
        <5>1. d[k] = c[k + 1] /\ d[L - 1] = c[0] /\ k + 1 \in 0..L - 1
              /\ 0 \in 0..L - 1 /\ k + 1 # 0
          BY <1>7, <3>3
        <5> QED
          BY <1>6, <5>1
      <4> QED
        BY <3>3, <3>5, <4>1, <4>2, <4>3
    <3>6. d[0] = c[1] /\ p - 1 \in 0..L - 1 /\ d[p - 1] = m_end
      <4>1. 0 \in 0..L - 2 /\ 0 + 1 = 1 /\ p - 1 \in 0..L - 2 /\ (p - 1) + 1 = p
        BY <1>3, <1>6, <1>7
      <4> QED
        BY <1>6, <3>3, <4>1
    <3>7. ASSUME NEW k \in 0..L - 2 PROVE next[d[k]] = d[k + 1]
      <4>1. CASE k = L - 2
        <5>1. d[k] = c[L - 1] /\ d[k + 1] = c[0]
          BY <1>7, <3>3, <4>1
        <5> QED
          BY <1>6, <3>0, <5>1
      <4>2. CASE k # L - 2
        <5>1. k + 1 \in 0..L - 2
          BY <1>7, <4>2
        <5> QED
          BY <1>6, <3>3, <5>1
      <4> QED
        BY <4>1, <4>2
    <3>8. ASSUME NEW k \in 0..p - 2 PROVE data[d[k]] = n + 1 + k + 1
      <4>1. k + 1 \in 0..p - 1 /\ k \in 0..L - 2
        BY <1>3, <1>6
      <4>2. data[d[k]] = n + (k + 1) + 1
        BY <1>6, <3>3, <4>1
      <4> QED
        BY <1>3, <4>2
    <3>9. Cycle(d, L)'
      BY <1>0, <1>3, <1>4, <1>8, <3>4, <3>5, <3>6, <3>7, <3>8 DEF Cycle
    <3>10. next[d[L - 1]] = c[1]
      BY <1>6, <1>7, <3>3
    <3>11. PutStage(d, L)'
      BY <1>0, <1>1, <1>3, <1>4, <1>5, <1>8, <2>2, <3>10 DEF PutStage
    <3> QED
      BY <3>9, <3>11
  <2> QED
    BY <2>1, <2>2
<1> QED
  BY <1>9, <1>10, <1>11 DEF QueueInv

(* A step of the putter that leaves the ring and what is pending in it. *)
LEMMA PutterTests ==
    ASSUME QueueInv, UNCHANGED <<ringVars, takeVars>>, offered' = offered,
           m_count' \in Nat, m_count' >= m_count \/ m_count' > 0, up' \in Nat,
           putter \notin {"close", "data", "end"},
           putter' \in {"idle", "add", "data", "write"},
           putter' \in {"add", "data"} => offered < MaxMsg,
           putter' = "data" => next[m_end] # m_head
    PROVE  QueueInv'
<1>0. /\ next' = next /\ data' = data /\ m_head' = m_head /\ m_end' = m_end
      /\ m_countNode' = m_countNode /\ taker' = taker /\ down' = down
      /\ taken' = taken
  BY DEF ringVars, takeVars
<1>1. Gone' = Gone /\ Pending' = Pending
  BY <1>0 DEF Gone, Pending
<1>2. TypeOK' /\ TakenInOrder'
  BY <1>0 DEF QueueInv, TypeOK, Node, TakenInOrder
<1>3. Counters'
  <2>1. m_countNode <= offered + 1 /\ m_countNode <= offered + 2
    BY DEF QueueInv, Counters, TypeOK, Node
  <2>2. taker' = "down" => m_count' > 0
    BY <1>0 DEF QueueInv, Counters, TypeOK
  <2> QED
    BY <1>0, <1>1, <2>1, <2>2 DEF QueueInv, Counters
<1>4L. PICK L \in Nat \ {0} : \E c : Cycle(c, L) /\ PutStage(c, L)
  BY DEF QueueInv
<1>4. PICK c : Cycle(c, L) /\ PutStage(c, L)
  BY <1>4L
<1>5. putter' = "data" => Pending < L - 1
  <2>1. next[c[L - 1]] = m_head /\ Pending \in 0..L - 1 /\ c[Pending] = m_end
    BY <1>4 DEF Cycle, PutStage
  <2>2. Pending = L - 1 => next[m_end] = m_head
    BY <2>1
  <2> QED
    BY <2>1, <2>2
<1>6. Cycle(c, L)' /\ PutStage(c, L)'
  BY <1>0, <1>1, <1>4, <1>5 DEF Cycle, PutStage
<1> QED
  BY <1>2, <1>3, <1>6 DEF QueueInv

(* CreateNode: the new node follows m_end; what the taker has left since   *)
(* the test drops out of the ring.                                         *)
LEMMA AddNodeStep == ASSUME QueueInv, AddNode PROVE QueueInv'
<1>0. /\ putter = "add" /\ putter' = "close" /\ m_countNode' = m_countNode + 1
      /\ next' = [next EXCEPT ![m_end] = m_countNode + 1]
      /\ data' = data /\ m_head' = m_head /\ m_end' = m_end /\ m_count' = m_count
      /\ up' = up /\ offered' = offered /\ taker' = taker /\ down' = down
      /\ taken' = taken
  BY DEF AddNode, takeVars
<1>1. Gone' = Gone /\ Pending' = Pending
  BY <1>0 DEF Gone, Pending
<1>2. PICK p, n : p = Pending /\ n = m_countNode
  OBVIOUS
<1>3. /\ p \in Nat /\ offered \in Nat /\ MaxMsg \in Nat /\ offered < MaxMsg
      /\ n \in Node /\ n \in Nat /\ n <= offered + 1 /\ n + 1 \in Node /\ m_end \in Node
      /\ next \in [Node -> Node \union {0}]
  BY <1>0, <1>2, CircularQueueAssumption DEF QueueInv, Counters, TypeOK, Node
<1>4. TypeOK' /\ TakenInOrder'
  BY <1>0, <1>2, <1>3 DEF QueueInv, TypeOK, Node, TakenInOrder
<1>5. Counters'
  BY <1>0, <1>1, <1>2, <1>3 DEF QueueInv, Counters
<1>6L. PICK L \in Nat \ {0} : \E c : Cycle(c, L) /\ PutStage(c, L)
  BY DEF QueueInv
<1>6. PICK c : Cycle(c, L) /\ PutStage(c, L)
  BY <1>6L
<1>7. /\ c \in [0..L - 1 -> 1..n]
      /\ \A i, j \in 0..L - 1 : c[i] = c[j] => i = j
      /\ p \in 0..L - 1 /\ c[0] = m_head /\ c[p] = m_end
      /\ \A k \in 0..L - 2 : next[c[k]] = c[k + 1]
      /\ \A k \in 0..p - 1 : data[c[k]] = Gone + k + 1
  BY <1>2, <1>6 DEF Cycle
<1>8. PICK d : d = [k \in 0..p + 1 |-> IF k = p + 1 THEN n + 1 ELSE c[k]]
  OBVIOUS
<1>9. /\ \A k \in 0..p : k \in 0..p + 1 /\ k \in 0..L - 1 /\ d[k] = c[k] /\ c[k] \in 1..n
      /\ p + 1 \in 0..p + 1 /\ d[p + 1] = n + 1
      /\ \A k \in 0..p + 1 : k = p + 1 \/ k \in 0..p
  BY <1>3, <1>7, <1>8
<1>10. d \in [0..p + 1 -> 1..n + 1]
  <2>1. \A k \in 0..p + 1 : d[k] \in 1..n + 1
    BY <1>3, <1>9
  <2> QED
    BY <1>8, <2>1
<1>11. ASSUME NEW i \in 0..p + 1, NEW j \in 0..p + 1, d[i] = d[j] PROVE i = j
  <2>1. CASE i \in 0..p /\ j \in 0..p
    BY <1>7, <1>9, <1>11, <2>1
  <2>2. \A k \in 0..p : d[k] # d[p + 1]
    BY <1>3, <1>9
  <2> QED
    BY <1>9, <1>11, <2>1, <2>2
<1>12. d[0] = m_head /\ d[p] = m_end /\ p \in 0..p + 1
  BY <1>3, <1>7, <1>9
<1>13. ASSUME NEW k \in 0..p PROVE next'[d[k]] = d[k + 1]
  <2>1. CASE k = p
    BY <1>0, <1>2, <1>3, <1>7, <1>9, <2>1
  <2>2. CASE k # p
    <3>1. k \in 0..L - 2 /\ k + 1 \in 0..p /\ k \in 0..L - 1
      BY <1>3, <1>7, <2>2
    <3>2. c[k] # m_end /\ next[c[k]] = c[k + 1] /\ c[k] \in Node
      BY <1>3, <1>7, <1>9, <2>2, <3>1 DEF Node
    <3> QED
      BY <1>0, <1>3, <1>9, <3>1, <3>2
  <2> QED
    BY <2>1, <2>2
<1>14. ASSUME NEW k \in 0..p - 1 PROVE data'[d[k]] = Gone' + k + 1
  <2>1. k \in 0..p
    BY <1>3
  <2> QED
    BY <1>0, <1>1, <1>7, <1>9, <2>1
<1>15. PICK K : K = p + 2
  OBVIOUS
<1>16. K \in Nat \ {0} /\ K - 1 = p + 1 /\ K - 2 = p
  BY <1>3, <1>15
<1>17. Cycle(d, K)'
  BY <1>0, <1>1, <1>2, <1>10, <1>11, <1>12, <1>13, <1>14, <1>16 DEF Cycle
<1>18. PutStage(d, K)'
  BY <1>0, <1>1, <1>2, <1>9, <1>15, <1>16 DEF PutStage
<1> QED
  BY <1>4, <1>5, <1>16, <1>17, <1>18 DEF QueueInv

(* The ring is closed at the node m_head has come to. *)
LEMMA AddNodeNextStep == ASSUME QueueInv, AddNodeNext PROVE QueueInv'
<1>0. /\ putter = "close" /\ putter' = "data"
      /\ next' = [next EXCEPT ![m_countNode] = m_head]
      /\ data' = data /\ m_head' = m_head /\ m_end' = m_end /\ m_count' = m_count
      /\ m_countNode' = m_countNode
      /\ up' = up /\ offered' = offered /\ taker' = taker /\ down' = down
      /\ taken' = taken
  BY DEF AddNodeNext, takeVars
<1>1. Gone' = Gone /\ Pending' = Pending
  BY <1>0 DEF Gone, Pending
<1>2. TypeOK' /\ TakenInOrder'
  BY <1>0 DEF QueueInv, TypeOK, Node, TakenInOrder
<1>3. Counters'
  BY <1>0, <1>1 DEF QueueInv, Counters
<1>4L. PICK L \in Nat \ {0} : \E c : Cycle(c, L) /\ PutStage(c, L)
  BY DEF QueueInv
<1>4. PICK c : Cycle(c, L) /\ PutStage(c, L)
  BY <1>4L
<1>5. /\ next \in [Node -> Node \union {0}] /\ m_countNode \in Node
      /\ c \in [0..L - 1 -> 1..m_countNode] /\ 1..m_countNode \subseteq Node
      /\ L - 1 \in 0..L - 1 /\ c[L - 1] = m_countNode
      /\ L = Pending + 2 /\ Pending \in Nat
  <2>1. next \in [Node -> Node \union {0}] /\ m_countNode \in Node /\ Pending \in Nat
    BY DEF QueueInv, TypeOK, Counters
  <2>2. 1..m_countNode \subseteq Node
    BY <2>1, CircularQueueAssumption DEF Node
  <2>3. c \in [0..L - 1 -> 1..m_countNode] /\ c[L - 1] = m_countNode /\ L = Pending + 2
    BY <1>0, <1>4 DEF Cycle, PutStage
  <2> QED
    BY <2>1, <2>2, <2>3
<1>6. next'[c[L - 1]] = m_head
  BY <1>0, <1>5
<1>7. ASSUME NEW k \in 0..L - 2 PROVE next'[c[k]] = c[k + 1]
  <2>1. k \in 0..L - 1 /\ k # L - 1
    OBVIOUS
  <2>2. c[k] # m_countNode /\ c[k] \in Node /\ next[c[k]] = c[k + 1]
    BY <1>4, <1>5, <2>1 DEF Cycle
  <2> QED
    BY <1>0, <1>5, <2>2
<1>8. Cycle(c, L)'
  BY <1>0, <1>1, <1>4, <1>7 DEF Cycle
<1>9. PutStage(c, L)'
  BY <1>0, <1>1, <1>5, <1>6 DEF PutStage
<1> QED
  BY <1>2, <1>3, <1>8, <1>9 DEF QueueInv

LEMMA StoreDataStep == ASSUME QueueInv, StoreData PROVE QueueInv'
<1>0. /\ putter = "data" /\ putter' = "end"
      /\ data' = [data EXCEPT ![m_end] = offered + 1]
      /\ next' = next /\ m_head' = m_head /\ m_end' = m_end /\ m_count' = m_count
      /\ m_countNode' = m_countNode
      /\ up' = up /\ offered' = offered /\ taker' = taker /\ down' = down
      /\ taken' = taken
  BY DEF StoreData, takeVars
<1>1. Gone' = Gone /\ Pending' = Pending
  BY <1>0 DEF Gone, Pending
<1>2. /\ offered + 1 \in 0..MaxMsg /\ data \in [Node -> 0..MaxMsg] /\ m_end \in Node
      /\ m_countNode \in Node
  BY <1>0, CircularQueueAssumption DEF QueueInv, Counters, TypeOK
<1>3. TypeOK' /\ TakenInOrder'
  BY <1>0, <1>2 DEF QueueInv, TypeOK, Node, TakenInOrder
<1>4. Counters'
  BY <1>0, <1>1 DEF QueueInv, Counters
<1>5L. PICK L \in Nat \ {0} : \E c : Cycle(c, L) /\ PutStage(c, L)
  BY DEF QueueInv
<1>5. PICK c : Cycle(c, L) /\ PutStage(c, L)
  BY <1>5L
<1>6. Pending < L - 1 /\ Pending \in 0..L - 1 /\ next[c[L - 1]] = m_head
      /\ data'[m_end] = offered + 1
  BY <1>0, <1>2, <1>5 DEF PutStage, Cycle
<1>7. ASSUME NEW k \in 0..Pending - 1 PROVE data'[c[k]] = Gone + k + 1
  <2>1. k \in 0..L - 1 /\ k # Pending
    BY <1>6
  <2>2. c[k] # m_end /\ data[c[k]] = Gone + k + 1 /\ c[k] \in 1..m_countNode
    BY <1>5, <1>6, <2>1 DEF Cycle
  <2>3. c[k] \in Node
    BY <1>2, <2>2, CircularQueueAssumption DEF Node
  <2> QED
    BY <1>0, <1>2, <2>2, <2>3
<1>8. Cycle(c, L)'
  BY <1>0, <1>1, <1>5, <1>7 DEF Cycle
<1>9. PutStage(c, L)'
  BY <1>0, <1>1, <1>6 DEF PutStage
<1> QED
  BY <1>3, <1>4, <1>8, <1>9 DEF QueueInv

(* With m_end past its node the message is pending. *)
LEMMA MoveEndStep == ASSUME QueueInv, MoveEnd PROVE QueueInv'
<1>0. /\ putter = "end" /\ putter' = "count" /\ m_end' = next[m_end]
      /\ offered' = offered + 1
      /\ next' = next /\ data' = data /\ m_head' = m_head /\ m_count' = m_count
      /\ m_countNode' = m_countNode
      /\ up' = up /\ taker' = taker /\ down' = down /\ taken' = taken
  BY DEF MoveEnd, takeVars
<1>1. PICK p, n : p = Pending /\ n = Gone
  OBVIOUS
<1>2. /\ p \in Nat /\ n \in Nat /\ offered \in 0..MaxMsg /\ MaxMsg \in Nat
      /\ offered < MaxMsg /\ p = offered - n /\ m_countNode <= offered + 2
      /\ m_countNode \in Node
  BY <1>0, <1>1, CircularQueueAssumption DEF QueueInv, Counters, TypeOK, Pending
<1>3. Gone' = n /\ Pending' = p + 1
  BY <1>0, <1>1, <1>2 DEF Gone, Pending
<1>4L. PICK L \in Nat \ {0} : \E c : Cycle(c, L) /\ PutStage(c, L)
  BY DEF QueueInv
<1>4. PICK c : Cycle(c, L) /\ PutStage(c, L)
  BY <1>4L
<1>5. /\ c \in [0..L - 1 -> 1..m_countNode]
      /\ \A i, j \in 0..L - 1 : c[i] = c[j] => i = j
      /\ p \in 0..L - 1 /\ c[0] = m_head /\ c[p] = m_end
      /\ \A k \in 0..L - 2 : next[c[k]] = c[k + 1]
      /\ \A k \in 0..p - 1 : data[c[k]] = n + k + 1
      /\ p < L - 1 /\ next[c[L - 1]] = m_head /\ data[m_end] = offered + 1
  BY <1>0, <1>1, <1>4 DEF Cycle, PutStage
<1>6. p \in 0..L - 2 /\ p + 1 \in 0..L - 1 /\ m_end' = c[p + 1]
  BY <1>0, <1>2, <1>5
<1>7. m_end' \in Node
  BY <1>2, <1>5, <1>6, CircularQueueAssumption DEF Node
<1>8. TypeOK' /\ TakenInOrder'
  BY <1>0, <1>2, <1>7 DEF QueueInv, TypeOK, Node, TakenInOrder
<1>9. Counters'
  BY <1>0, <1>1, <1>2, <1>3 DEF QueueInv, Counters, Node
<1>10. ASSUME NEW k \in 0..p PROVE data[c[k]] = n + k + 1
  <2>1. k = p \/ k \in 0..p - 1
    BY <1>2
  <2>2. data[c[p]] = offered + 1 /\ offered + 1 = n + p + 1
    BY <1>2, <1>5
  <2> QED
    BY <1>5, <2>1, <2>2
<1>11. \A k \in 0..p + 1 - 1 : data[c[k]] = n + k + 1
  BY <1>2, <1>10
<1>12. Cycle(c, L)'
  BY <1>0, <1>3, <1>5, <1>6, <1>11 DEF Cycle
<1>13. PutStage(c, L)'
  BY <1>0, <1>5 DEF PutStage
<1> QED
  BY <1>8, <1>9, <1>12, <1>13 DEF QueueInv

LEMMA OfferStep == ASSUME QueueInv, Offer PROVE QueueInv'
<1>0. m_count \in Nat /\ up \in Nat
  BY DEF QueueInv, TypeOK
<1>1. CASE OfferTest
  <2>1. /\ UNCHANGED <<ringVars, takeVars>> /\ offered' = offered
        /\ m_count' = m_count /\ up' = up /\ putter = "idle" /\ offered < MaxMsg
        /\ putter' \in {"add", "data"} /\ (putter' = "data" => next[m_end] # m_head)
    BY <1>1 DEF OfferTest
  <2> QED
    BY <1>0, <2>1, PutterTests
<1>2. CASE CountUpRead
  <2>1. /\ UNCHANGED <<ringVars, takeVars>> /\ offered' = offered
        /\ m_count' = m_count /\ up' = m_count /\ putter = "count" /\ putter' = "write"
    BY <1>2 DEF CountUpRead
  <2> QED
    BY <1>0, <2>1, PutterTests
<1>3. CASE CountUpWrite
  <2>1. /\ UNCHANGED <<ringVars, takeVars>> /\ offered' = offered
        /\ m_count' = up + 1 /\ up' = up /\ putter = "write" /\ putter' = "idle"
    BY <1>3 DEF CountUpWrite
  <2>2. m_count' \in Nat /\ m_count' > 0
    BY <1>0, <2>1
  <2> QED
    BY <1>0, <2>1, <2>2, PutterTests
<1> QED
  BY <1>1, <1>2, <1>3, AddNodeStep, AddNodeNextStep, StoreDataStep, MoveEndStep
     DEF Offer

LEMMA TakeStep == ASSUME QueueInv, Get \/ Poll PROVE QueueInv'
<1>1. CASE TestEnds("idle", "getCount") \/ TestEnds("poll", "pollCount")
  BY <1>1, TestEndsStep
<1>2. CASE TestCount("getCount", "poll") \/ TestCount("pollCount", "down")
  BY <1>2, TestCountStep
<1> QED
  BY <1>1, <1>2, CountDownStep, ReadDataStep, MoveHeadStep DEF Get, Poll

LEMMA QueueKept == Spec => []QueueInv
<1>1. Init => QueueInv
  BY QueueInit
<1>2. QueueInv /\ [Next]_vars => QueueInv'
  <2> SUFFICES ASSUME QueueInv, [Next]_vars PROVE QueueInv'
    OBVIOUS
  <2>1. CASE Next
    BY <2>1, OfferStep, TakeStep DEF Next
  <2>2. CASE UNCHANGED vars
    <3>1. /\ UNCHANGED <<ringVars, putVars>> /\ m_count' = m_count
          /\ taker' = taker /\ down' = down /\ taken' = taken
      BY <2>2 DEF vars, takeVars
    <3>2. Gone' = Gone /\ TakenInOrder'
      BY <3>1 DEF Gone, QueueInv, TakenInOrder
    <3>3. TypeOK'
      BY <3>1 DEF QueueInv, TypeOK, ringVars, putVars, Node
    <3> QED
      BY <3>1, <3>2, <3>3, TakerTests DEF QueueInv, Counters
  <2> QED
    BY <2>1, <2>2
<1> QED
  BY <1>1, <1>2, PTL DEF Spec

(* What ThreadProc writes is what LogMessage offered, each message once    *)
(* and in order, without a lock between them.                              *)
THEOREM MessagesInOrder == Spec => []TakenInOrder
<1>1. QueueInv => TakenInOrder
  BY DEF QueueInv
<1> QED
  BY <1>1, QueueKept, PTL

(* Following next from m_head meets every pending message and then m_end,  *)
(* at every step of Offer, of AddNode and of Poll, for any number of       *)
(* messages; no counter leaves its range, m_count least of all.            *)
THEOREM RingStaysWhole == Spec => []RingIntact
<1>1. ASSUME QueueInv PROVE RingIntact
  <2>1. PICK p, n : p = Pending /\ n = Gone
    OBVIOUS
  <2>2. /\ p \in Nat /\ n \in Nat /\ offered \in 0..MaxMsg /\ MaxMsg \in Nat
        /\ p = offered - n
    BY <1>1, <2>1, CircularQueueAssumption DEF QueueInv, Counters, TypeOK, Pending
  <2>3. p <= MaxMsg
    BY <2>2
  <2>4L. PICK L \in Nat \ {0} : \E c : Cycle(c, L)
    BY <1>1 DEF QueueInv
  <2>4. PICK c : Cycle(c, L)
    BY <2>4L
  <2>5. /\ p \in 0..L - 1 /\ c[0] = m_head /\ c[p] = m_end
        /\ \A k \in 0..L - 2 : next[c[k]] = c[k + 1]
        /\ \A k \in 0..p - 1 : data[c[k]] = n + k + 1
    BY <2>1, <2>4 DEF Cycle
  <2>6. \A k \in 0..p : walk[k] = c[k]
    <3> DEFINE Bad == {k \in 0..p : walk[k] # c[k]}
    <3>1. SUFFICES ASSUME Bad # {} PROVE FALSE
      OBVIOUS
    <3>2. PICK m \in Bad : \A x \in Bad : m <= x
      <4>1. Bad \in SUBSET Nat
        BY <2>2
      <4> HIDE DEF Bad
      <4> QED
        BY <3>1, <4>1, LeastExists
    <3>3. m \in 0..p /\ m # 0 /\ walk[m] # c[m]
      BY <2>5, <3>2, WalkSteps
    <3>4. m - 1 \in 0..p /\ m - 1 \in 0..L - 2 /\ ~(m <= m - 1) /\ m \in 1..MaxMsg
      BY <2>2, <2>3, <2>5, <3>3
    <3>5. walk[m - 1] = c[m - 1]
      BY <3>2, <3>4
    <3>6. next[c[m - 1]] = c[(m - 1) + 1] /\ (m - 1) + 1 = m
      BY <2>5, <3>3, <3>4
    <3> QED
      BY <3>3, <3>4, <3>5, <3>6, WalkSteps
  <2>7. \A k \in 0..p - 1 : data[walk[k]] = n + k + 1
    BY <2>2, <2>5, <2>6
  <2>8. walk[p] = m_end
    BY <2>2, <2>5, <2>6
  <2> QED
    BY <1>1, <2>1, <2>7, <2>8 DEF QueueInv, RingIntact, PendingIntact, Pending
<1>2. QueueInv => RingIntact
  BY <1>1
<1> QED
  BY <1>2, QueueKept, PTL
=============================================================================
