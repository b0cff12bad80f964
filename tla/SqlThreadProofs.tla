-------------------------- MODULE SqlThreadProofs ---------------------------
(***************************************************************************)
(* SqlThread implements AsyncSql, and closing loses no statement, for any  *)
(* number of worker threads, any keys and any number of statements.        *)
(***************************************************************************)
EXTENDS SqlThread, TLAPS

(* A key is routed to one of the workers: key % vecThread.size(). *)
LEMMA RouteType == \A k \in Key : Route(k) \in Thread
  BY SqlThreadAssumption DEF Route, Thread

-----------------------------------------------------------------------------
(* push_back, pop_front and the sets of queued statements.                 *)

(* push_back adds exactly the new statement. *)
LEMMA AppendElems ==
    ASSUME NEW s \in Seq(Nat), NEW n \in Nat
    PROVE  Append(s, n) \in Seq(Nat) /\ Elems(Append(s, n)) = Elems(s) \union {n}
<1>1. DOMAIN Append(s, n) = 1..Len(s) + 1 /\ DOMAIN s = 1..Len(s) /\ Len(s) \in Nat
  OBVIOUS
<1>2. \A x \in 1..Len(s) : Append(s, n)[x] = s[x]
  OBVIOUS
<1>3. Append(s, n)[Len(s) + 1] = n
  OBVIOUS
<1>4. Append(s, n) \in Seq(Nat)
  OBVIOUS
<1> HIDE DEF Elems
<1>5. ASSUME NEW e PROVE e \in Elems(Append(s, n)) <=> e \in Elems(s) \union {n}
  BY <1>1, <1>2, <1>3 DEF Elems
<1> QED
  BY <1>4, <1>5

(* pop_front removes the front and nothing else. *)
LEMMA TailElems ==
    ASSUME NEW s \in Seq(Nat), s # <<>>
    PROVE  /\ Head(s) \in Nat /\ Tail(s) \in Seq(Nat)
           /\ Elems(s) = {Head(s)} \union Elems(Tail(s))
<1>1. /\ Len(s) \in Nat \ {0} /\ DOMAIN s = 1..Len(s)
      /\ Tail(s) \in Seq(Nat) /\ DOMAIN Tail(s) = 1..Len(s) - 1
      /\ Head(s) = s[1] /\ Head(s) \in Nat
  OBVIOUS
<1>2. \A x \in 1..Len(s) - 1 : Tail(s)[x] = s[x + 1]
  OBVIOUS
<1>3. ASSUME NEW e \in Elems(s) PROVE e \in {Head(s)} \union Elems(Tail(s))
  <2>1. PICK x \in 1..Len(s) : e = s[x]
    BY <1>1 DEF Elems
  <2>2. CASE x = 1
    BY <2>1, <2>2, <1>1
  <2>3. CASE x # 1
    <3>1. x - 1 \in 1..Len(s) - 1 /\ Tail(s)[x - 1] = e
      BY <1>1, <1>2, <2>1, <2>3
    <3> QED
      BY <3>1, <1>1 DEF Elems
  <2> QED
    BY <2>2, <2>3
<1>4. ASSUME NEW e \in {Head(s)} \union Elems(Tail(s)) PROVE e \in Elems(s)
  <2>1. CASE e = Head(s)
    BY <2>1, <1>1 DEF Elems
  <2>2. CASE e \in Elems(Tail(s))
    <3>1. PICK x \in 1..Len(s) - 1 : e = s[x + 1]
      BY <2>2, <1>1, <1>2 DEF Elems
    <3>2. x + 1 \in 1..Len(s)
      BY <1>1
    <3> QED
      BY <3>1, <3>2, <1>1 DEF Elems
  <2> QED
    BY <2>1, <2>2
<1> QED
  BY <1>1, <1>3, <1>4

(* An empty list holds no statement. *)
LEMMA EmptyElems == Elems(<<>>) = {}
  BY DEF Elems

(* A list stays in order when something larger is pushed. *)
LEMMA IncreasingAppend ==
    ASSUME NEW s \in Seq(Nat), NEW n \in Nat, Increasing(s),
           \A i \in Elems(s) : i < n
    PROVE  Increasing(Append(s, n))
<1>1. DOMAIN Append(s, n) = 1..Len(s) + 1 /\ DOMAIN s = 1..Len(s) /\ Len(s) \in Nat
  OBVIOUS
<1>2. \A x \in 1..Len(s) : Append(s, n)[x] = s[x] /\ s[x] < n
  BY <1>1 DEF Elems
<1>3. Append(s, n)[Len(s) + 1] = n
  OBVIOUS
<1> SUFFICES ASSUME NEW x \in 1..Len(s) + 1, NEW y \in 1..Len(s) + 1, x < y
             PROVE  Append(s, n)[x] < Append(s, n)[y]
  BY <1>1 DEF Increasing
<1>4. x \in 1..Len(s)
  BY <1>1
<1>5. CASE y = Len(s) + 1
  BY <1>2, <1>3, <1>4, <1>5
<1>6. CASE y # Len(s) + 1
  <2>1. y \in 1..Len(s)
    BY <1>1, <1>6
  <2>2. s[x] < s[y]
    BY <1>1, <1>4, <2>1 DEF Increasing
  <2> QED
    BY <1>2, <1>4, <2>1, <2>2
<1> QED
  BY <1>5, <1>6

(* The front of a list in order is the smallest, and the rest is in order. *)
LEMMA IncreasingTail ==
    ASSUME NEW s \in Seq(Nat), s # <<>>, Increasing(s)
    PROVE  Increasing(Tail(s)) /\ \A i \in Elems(Tail(s)) : Head(s) < i
<1>1. /\ Len(s) \in Nat \ {0} /\ DOMAIN s = 1..Len(s)
      /\ Tail(s) \in Seq(Nat) /\ DOMAIN Tail(s) = 1..Len(s) - 1
      /\ Head(s) = s[1] /\ Head(s) \in Nat
  OBVIOUS
<1>2. \A x \in 1..Len(s) - 1 : Tail(s)[x] = s[x + 1] /\ x + 1 \in 1..Len(s)
  BY <1>1
<1>3. \A x \in 1..Len(s), y \in 1..Len(s) : x < y => s[x] < s[y]
  BY <1>1 DEF Increasing
<1>4. ASSUME NEW x \in 1..Len(s) - 1, NEW y \in 1..Len(s) - 1, x < y
      PROVE  Tail(s)[x] < Tail(s)[y]
  <2>1. x + 1 < y + 1
    BY <1>1, <1>4
  <2> QED
    BY <1>2, <1>3, <2>1
<1>5. ASSUME NEW i \in Elems(Tail(s)) PROVE Head(s) < i
  <2>1. PICK x \in 1..Len(s) - 1 : i = s[x + 1]
    BY <1>1, <1>2 DEF Elems
  <2>2. 1 < x + 1 /\ x + 1 \in 1..Len(s) /\ 1 \in 1..Len(s)
    BY <1>1
  <2> QED
    BY <1>1, <1>3, <2>1, <2>2
<1> QED
  BY <1>1, <1>4, <1>5 DEF Increasing

(* The same two facts for the lists of results, which are in order among   *)
(* the statements of each worker only.                                     *)
LEMMA SortedAppend ==
    ASSUME NEW s \in Seq(Nat), NEW n \in Nat, Sorted(s), Below(Elems(s), {n})
    PROVE  Sorted(Append(s, n))
<1>1. DOMAIN Append(s, n) = 1..Len(s) + 1 /\ DOMAIN s = 1..Len(s) /\ Len(s) \in Nat
  OBVIOUS
<1>2. \A x \in 1..Len(s) : /\ Append(s, n)[x] = s[x]
                            /\ Owner(s[x]) = Owner(n) => s[x] < n
  BY <1>1 DEF Elems, Below
<1>3. Append(s, n)[Len(s) + 1] = n
  OBVIOUS
<1> SUFFICES ASSUME NEW x \in 1..Len(s) + 1, NEW y \in 1..Len(s) + 1, x < y,
                    Owner(Append(s, n)[x]) = Owner(Append(s, n)[y])
             PROVE  Append(s, n)[x] < Append(s, n)[y]
  BY <1>1 DEF Sorted
<1>4. x \in 1..Len(s)
  BY <1>1
<1>5. CASE y = Len(s) + 1
  BY <1>2, <1>3, <1>4, <1>5
<1>6. CASE y # Len(s) + 1
  <2>1. y \in 1..Len(s)
    BY <1>1, <1>6
  <2>2. s[x] < s[y]
    BY <1>1, <1>2, <1>4, <2>1 DEF Sorted
  <2> QED
    BY <1>2, <1>4, <2>1, <2>2
<1> QED
  BY <1>5, <1>6

(* The front of such a list is the smallest of its worker. *)
LEMMA SortedTail ==
    ASSUME NEW s \in Seq(Nat), s # <<>>, Sorted(s)
    PROVE  Sorted(Tail(s)) /\ Below({Head(s)}, Elems(Tail(s)))
<1>1. /\ Len(s) \in Nat \ {0} /\ DOMAIN s = 1..Len(s)
      /\ Tail(s) \in Seq(Nat) /\ DOMAIN Tail(s) = 1..Len(s) - 1
      /\ Head(s) = s[1] /\ Head(s) \in Nat
  OBVIOUS
<1>2. \A x \in 1..Len(s) - 1 : Tail(s)[x] = s[x + 1] /\ x + 1 \in 1..Len(s)
  BY <1>1
<1>3. \A x \in 1..Len(s), y \in 1..Len(s) :
        x < y /\ Owner(s[x]) = Owner(s[y]) => s[x] < s[y]
  BY <1>1 DEF Sorted
<1>4. ASSUME NEW x \in 1..Len(s) - 1, NEW y \in 1..Len(s) - 1, x < y,
             Owner(Tail(s)[x]) = Owner(Tail(s)[y])
      PROVE  Tail(s)[x] < Tail(s)[y]
  <2>1. x + 1 < y + 1
    BY <1>1, <1>4
  <2> QED
    BY <1>2, <1>3, <1>4, <2>1
<1>5. ASSUME NEW i \in Elems(Tail(s)), Owner(Head(s)) = Owner(i)
      PROVE  Head(s) < i
  <2>1. PICK x \in 1..Len(s) - 1 : i = s[x + 1]
    BY <1>1, <1>2 DEF Elems
  <2>2. 1 < x + 1 /\ x + 1 \in 1..Len(s) /\ 1 \in 1..Len(s)
    BY <1>1
  <2> QED
    BY <1>1, <1>3, <1>5, <2>1, <2>2
<1> QED
  BY <1>1, <1>4, <1>5 DEF Sorted, Below

-----------------------------------------------------------------------------
(* Types.                                                                  *)

(* Every step keeps the queues lists of numbers and the main thread on a   *)
(* worker that exists.                                                     *)
LEMMA TypeStep == TypeOK /\ [Next]_vars => TypeOK'
<1> SUFFICES ASSUME TypeOK, [Next]_vars PROVE TypeOK'
  OBVIOUS
<1> USE DEF TypeOK, workerVars, mainVars
<1>1. ASSUME NEW k \in Key, Asyn(k) PROVE TypeOK'
  <2>1. Route(k) \in Thread /\ Len(keyOf) + 1 \in Nat
    BY RouteType
  <2>2. querysql' \in [Thread -> Seq(Nat)]
    <3>1. Append(querysql[Route(k)], Len(keyOf) + 1) \in Seq(Nat)
      BY <2>1
    <3> QED
      BY <1>1, <2>1, <3>1 DEF Asyn
  <2>3. keyOf' \in Seq(Key)
    BY <1>1 DEF Asyn
  <2> QED
    BY <1>1, <2>1, <2>2, <2>3 DEF Asyn
<1>2. CASE NotifyAll
  BY <1>2 DEF NotifyAll
<1>3. CASE Update
  BY <1>3 DEF Update
<1>4. CASE Callback
  <2>1. Head(temp) \in Nat /\ Tail(temp) \in Seq(Nat)
    BY <1>4, TailElems DEF Callback
  <2> QED
    BY <1>4, <2>1 DEF Callback
<1>5. CASE Delete
  BY <1>5, SqlThreadAssumption DEF Delete, Thread
<1>6. CASE Close
  BY <1>6 DEF Close
<1>7. CASE Join
  <2>1. target' \in Thread
    BY <1>7, SqlThreadAssumption DEF Join, Thread
  <2> QED
    BY <1>7, <2>1 DEF Join
<1>8. ASSUME NEW t \in Thread, CheckExit(t) \/ SpuriousWake(t) PROVE TypeOK'
  BY <1>8 DEF CheckExit, SpuriousWake
<1>9. ASSUME NEW t \in Thread, LockQueue(t) \/ Drain(t) PROVE TypeOK'
  <2>1. CASE querysql[t] # <<>> /\ TakeFront(t)
    <3>1. Head(querysql[t]) \in Nat /\ Tail(querysql[t]) \in Seq(Nat)
      BY <2>1, TailElems
    <3> QED
      BY <1>9, <2>1, <3>1 DEF LockQueue, Drain, TakeFront
  <2>2. CASE UNCHANGED <<querysql, cur>>
    BY <1>9, <2>2 DEF LockQueue, Drain, TakeFront
  <2> QED
    BY <1>9, <2>1, <2>2 DEF LockQueue, Drain
<1>10. ASSUME NEW t \in Thread, ProcessSql(t) PROVE TypeOK'
  BY <1>10 DEF ProcessSql
<1>11. ASSUME NEW t \in Thread, OnGetResult(t) PROVE TypeOK'
  <2>1. Append(result, cur[t]) \in Seq(Nat)
    OBVIOUS
  <2> QED
    BY <1>11, <2>1 DEF OnGetResult
<1>12. CASE UNCHANGED vars
  BY <1>12 DEF vars
<1> QED
  BY <1>1, <1>2, <1>3, <1>4, <1>5, <1>6, <1>7, <1>8, <1>9, <1>10, <1>11, <1>12
     DEF Next, Worker

-----------------------------------------------------------------------------
(* The way of a statement: querysql, cur, result, temp, called.            *)
FlowInv == QueueInv /\ CurInv /\ ExecutedInv /\ NoneLost /\ ResultInv

(* A step that moves no statement (a wake-up, a test of bExit, closing)    *)
(* keeps the order.                                                        *)
LEMMA QuietFlow ==
    ASSUME FlowInv, UNCHANGED <<keyOf, querysql, cur, result, temp, executed, called>>,
           \A t \in Thread : /\ pc'[t] = "process" <=> pc[t] = "process"
                             /\ pc'[t] = "post" <=> pc[t] = "post"
    PROVE  FlowInv'
<1>1. Running' = Running /\ Posting' = Posting
  BY DEF Running, Posting
<1>2. QueueInv'
  BY DEF FlowInv, QueueInv, Elems, Increasing, Owner
<1>3. CurInv'
  BY DEF FlowInv, CurInv, Elems, Owner
<1>4. ExecutedInv'
  BY <1>1 DEF FlowInv, ExecutedInv, Elems, Below, Owner
<1>5. NoneLost'
  BY <1>1 DEF FlowInv, NoneLost, Elems, Owner
<1>6. ResultInv'
  BY <1>1 DEF FlowInv, ResultInv, Elems, Below, Sorted, Owner
<1> QED
  BY <1>2, <1>3, <1>4, <1>5, <1>6 DEF FlowInv

(* pop_front: the front goes from querysql to cur. *)
LEMMA TakeFlow ==
    ASSUME TypeOK, FlowInv, NEW t \in Thread, LockQueue(t) \/ Drain(t),
           querysql[t] # <<>>, TakeFront(t)
    PROVE  FlowInv'
<1> DEFINE h == Head(querysql[t])
<1>1. /\ UNCHANGED <<keyOf, result, temp, executed, called>>
      /\ pc[t] \in {"lock", "drain"}
      /\ cur' = [cur EXCEPT ![t] = h]
      /\ querysql' = [querysql EXCEPT ![t] = Tail(@)]
      /\ pc' = [pc EXCEPT ![t] = "process"]
  BY DEF LockQueue, Drain, TakeFront
<1>2. /\ querysql[t] \in Seq(Nat) /\ Increasing(querysql[t])
      /\ querysql'[t] = Tail(querysql[t])
      /\ \A u \in Thread \ {t} : querysql'[u] = querysql[u]
      /\ cur'[t] = h /\ \A u \in Thread \ {t} : cur'[u] = cur[u]
      /\ pc'[t] = "process" /\ \A u \in Thread \ {t} : pc'[u] = pc[u]
  BY <1>1 DEF TypeOK, FlowInv, QueueInv
<1>3. /\ h \in Nat /\ Elems(querysql[t]) = {h} \union Elems(Tail(querysql[t]))
      /\ Increasing(Tail(querysql[t]))
      /\ \A i \in Elems(Tail(querysql[t])) : h < i
  BY <1>2, TailElems, IncreasingTail
<1> HIDE DEF h
<1>4. h \in DOMAIN keyOf \ executed /\ Owner(h) = t
  BY <1>3 DEF FlowInv, QueueInv
<1>5. Running' = Running \union {h} /\ Posting' = Posting
  <2>1. ASSUME NEW i PROVE i \in Running' <=> i \in Running \union {h}
    BY <1>1, <1>2 DEF Running
  <2>2. ASSUME NEW i PROVE i \in Posting' <=> i \in Posting
    BY <1>1, <1>2 DEF Posting
  <2> QED
    BY <2>1, <2>2
<1>6. \A u \in Thread : Elems(querysql'[u]) \subseteq Elems(querysql[u])
  BY <1>2, <1>3
<1>7. QueueInv'
  <2> SUFFICES ASSUME NEW u \in Thread
               PROVE  /\ Increasing(querysql'[u])
                      /\ \A i \in Elems(querysql'[u]) :
                            i \in DOMAIN keyOf \ executed /\ Owner(i) = u
    BY <1>1 DEF QueueInv, Elems, Increasing, Owner
  <2>1. Increasing(querysql'[u])
    BY <1>2, <1>3 DEF FlowInv, QueueInv
  <2> QED
    BY <2>1, <1>6 DEF FlowInv, QueueInv
<1>8. CurInv'
  <2> SUFFICES ASSUME NEW u \in Thread, pc'[u] \in {"process", "post"}
               PROVE  /\ cur'[u] \in DOMAIN keyOf /\ Owner(cur'[u]) = u
                      /\ \A i \in Elems(querysql'[u]) : cur'[u] < i
                      /\ pc'[u] = "process" <=> cur'[u] \notin executed
    BY <1>1 DEF CurInv, Elems, Owner
  <2>1. CASE u = t
    BY <1>2, <1>3, <1>4, <2>1
  <2>2. CASE u # t
    BY <1>2, <2>2 DEF FlowInv, CurInv
  <2> QED
    BY <2>1, <2>2
<1>9. ExecutedInv'
  <2>1. Below(executed, {h})
    BY <1>3 DEF FlowInv, ExecutedInv, Below
  <2>2. Below(executed, Running')
    BY <1>5, <2>1 DEF FlowInv, ExecutedInv, Below
  <2>3. \A u \in Thread : Below(executed, Elems(querysql'[u]))
    BY <1>6 DEF FlowInv, ExecutedInv, Below
  <2> QED
    BY <1>1, <2>2, <2>3 DEF FlowInv, ExecutedInv, Below, Elems, Owner
<1>10. NoneLost'
  <2> SUFFICES ASSUME NEW i \in DOMAIN keyOf
               PROVE  i \in executed \union Running' \union Elems(querysql'[Owner(i)])
    BY <1>1 DEF NoneLost, Elems, Owner
  <2>1. i \in executed \union Running \union Elems(querysql[Owner(i)])
    BY DEF FlowInv, NoneLost
  <2>2. CASE Owner(i) = t
    BY <1>2, <1>3, <1>5, <2>1, <2>2
  <2>3. CASE Owner(i) # t
    <3>1. Owner(i) \in Thread
      BY RouteType DEF Owner, TypeOK
    <3> QED
      BY <1>2, <1>5, <2>1, <2>3, <3>1
  <2> QED
    BY <2>2, <2>3
<1>11. ResultInv'
  BY <1>1, <1>5 DEF FlowInv, ResultInv, Elems, Below, Sorted, Owner
<1> QED
  BY <1>7, <1>8, <1>9, <1>10, <1>11 DEF FlowInv

(* ProcessSql: cur is executed; it was the oldest not executed one of its  *)
(* worker.                                                                 *)
LEMMA ProcessFlow ==
    ASSUME TypeOK, FlowInv, NEW t \in Thread, ProcessSql(t)
    PROVE  FlowInv'
<1> DEFINE c == cur[t]
<1>1. /\ UNCHANGED <<keyOf, querysql, cur, result, temp, called>>
      /\ pc[t] = "process" /\ executed' = executed \union {c}
      /\ pc'[t] = "post" /\ \A u \in Thread \ {t} : pc'[u] = pc[u]
  BY DEF ProcessSql, TypeOK
<1>2. /\ c \in DOMAIN keyOf \ executed /\ Owner(c) = t /\ c \in Running
      /\ c \in Nat /\ \A i \in Elems(querysql[t]) : c < i
  BY <1>1 DEF FlowInv, CurInv, Running, TypeOK
<1>3. \A u \in Thread : pc[u] = "process" /\ u # t => cur[u] # c
  BY <1>1, <1>2 DEF FlowInv, CurInv
<1> HIDE DEF c
<1>4. Running' = Running \ {c} /\ Posting' = Posting \union {c}
  <2>1. ASSUME NEW i PROVE i \in Running' <=> i \in Running \ {c}
    BY <1>1, <1>3 DEF Running, c
  <2>2. ASSUME NEW i PROVE i \in Posting' <=> i \in Posting \union {c}
    BY <1>1 DEF Posting, c
  <2> QED
    BY <2>1, <2>2
<1>5. Below(executed, {c})
  BY <1>2 DEF FlowInv, ExecutedInv, Below
<1>6. \A u \in Thread : c \notin Elems(querysql[u])
  BY <1>2 DEF FlowInv, QueueInv
<1>7. QueueInv'
  BY <1>1, <1>6 DEF FlowInv, QueueInv, Elems, Increasing, Owner
<1>8. CurInv'
  <2> SUFFICES ASSUME NEW u \in Thread, pc'[u] \in {"process", "post"}
               PROVE  /\ cur[u] \in DOMAIN keyOf /\ Owner(cur[u]) = u
                      /\ \A i \in Elems(querysql[u]) : cur[u] < i
                      /\ pc'[u] = "process" <=> cur[u] \notin executed'
    BY <1>1 DEF CurInv, Elems, Owner
  <2>1. CASE u = t
    BY <1>1, <1>2, <2>1 DEF c
  <2>2. CASE u # t
    <3>1. /\ cur[u] \in DOMAIN keyOf /\ Owner(cur[u]) = u
          /\ \A i \in Elems(querysql[u]) : cur[u] < i
          /\ pc[u] = "process" <=> cur[u] \notin executed
      BY <1>1, <2>2 DEF FlowInv, CurInv
    <3> QED
      BY <1>1, <1>2, <2>2, <3>1
  <2> QED
    BY <2>1, <2>2
<1>9. ExecutedInv'
  <2>1. Below({c}, Running')
    <3> SUFFICES ASSUME NEW i \in Running', Owner(i) = Owner(c) PROVE FALSE
      BY DEF Below
    <3>1. PICK u \in Thread : pc[u] = "process" /\ cur[u] = i
      BY <1>4 DEF Running
    <3>2. u = t
      BY <1>2, <3>1 DEF FlowInv, CurInv
    <3> QED
      BY <1>4, <3>1, <3>2 DEF c
  <2>2. Below(executed', Running')
    BY <1>1, <1>4, <2>1 DEF FlowInv, ExecutedInv, Below
  <2>3. \A u \in Thread : Below(executed', Elems(querysql[u]))
    <3> SUFFICES ASSUME NEW u \in Thread, NEW i \in executed',
                        NEW j \in Elems(querysql[u]), Owner(i) = Owner(j)
                 PROVE  i < j
      BY DEF Below
    <3>1. CASE i = c
      BY <1>2, <3>1 DEF FlowInv, QueueInv
    <3>2. CASE i # c
      BY <1>1, <3>2 DEF FlowInv, ExecutedInv, Below
    <3> QED
      BY <3>1, <3>2
  <2>4. executed' \subseteq DOMAIN keyOf
    BY <1>1, <1>2 DEF FlowInv, ExecutedInv
  <2> QED
    BY <1>1, <2>2, <2>3, <2>4 DEF ExecutedInv, Below, Elems, Owner
<1>10. NoneLost'
  BY <1>1, <1>4 DEF FlowInv, NoneLost, Elems, Owner
<1>11. ResultInv'
  <2> DEFINE done == called \union Elems(temp) \union Elems(result)
  <2>1. done \union Posting = executed
    BY DEF FlowInv, ResultInv
  <2>2. Below(done, {c})
    BY <1>5, <2>1 DEF Below
  <2>3. done \union Posting' = executed'
    BY <1>1, <1>4, <2>1
  <2>4. /\ Below(called, Elems(temp) \union Elems(result) \union Posting')
        /\ Below(Elems(temp), Elems(result) \union Posting')
        /\ Below(Elems(result), Posting')
    BY <1>4, <2>2 DEF FlowInv, ResultInv, Below
  <2>5. Sorted(temp) /\ Sorted(result)
    BY DEF FlowInv, ResultInv
  <2> QED
    BY <1>1, <2>3, <2>4, <2>5 DEF ResultInv, Elems, Below, Sorted, Owner
<1> QED
  BY <1>7, <1>8, <1>9, <1>10, <1>11 DEF FlowInv

(* OnGetResult: cur goes to the end of result, above all of its worker     *)
(* that are there.                                                         *)
LEMMA PostFlow ==
    ASSUME TypeOK, FlowInv, NEW t \in Thread, OnGetResult(t)
    PROVE  FlowInv'
<1> DEFINE c == cur[t]
<1>1. /\ UNCHANGED <<keyOf, querysql, cur, temp, executed, called>>
      /\ pc[t] = "post" /\ result' = Append(result, c)
      /\ pc'[t] = "loop" /\ \A u \in Thread \ {t} : pc'[u] = pc[u]
  BY DEF OnGetResult, TypeOK
<1>2. c \in DOMAIN keyOf /\ Owner(c) = t /\ c \in Posting /\ c \in Nat
  BY <1>1 DEF FlowInv, CurInv, Posting, TypeOK
<1>3. \A u \in Thread : pc[u] = "post" /\ u # t => cur[u] # c
  BY <1>1, <1>2 DEF FlowInv, CurInv
<1> HIDE DEF c
<1>4. Running' = Running /\ Posting' = Posting \ {c}
  <2>1. ASSUME NEW i PROVE i \in Running' <=> i \in Running
    BY <1>1 DEF Running
  <2>2. ASSUME NEW i PROVE i \in Posting' <=> i \in Posting \ {c}
    BY <1>1, <1>3 DEF Posting, c
  <2> QED
    BY <2>1, <2>2
<1>5. Elems(Append(result, c)) = Elems(result) \union {c}
  BY <1>2, AppendElems DEF TypeOK
<1>6. QueueInv'
  BY <1>1 DEF FlowInv, QueueInv, Elems, Increasing, Owner
<1>7. CurInv'
  BY <1>1 DEF FlowInv, CurInv, Elems, Owner
<1>8. ExecutedInv'
  BY <1>1, <1>4 DEF FlowInv, ExecutedInv, Below, Elems, Owner
<1>9. NoneLost'
  BY <1>1, <1>4 DEF FlowInv, NoneLost, Elems, Owner
<1>10. ResultInv'
  <2>1. Sorted(Append(result, c))
    <3>1. Below(Elems(result), {c})
      BY <1>2 DEF FlowInv, ResultInv, Below
    <3> QED
      BY <1>2, <3>1, SortedAppend DEF FlowInv, ResultInv, TypeOK
  <2>2. Below({c}, Posting')
    <3> SUFFICES ASSUME NEW i \in Posting', Owner(i) = Owner(c) PROVE FALSE
      BY DEF Below
    <3>1. PICK u \in Thread : pc[u] = "post" /\ cur[u] = i
      BY <1>4 DEF Posting
    <3>2. u = t
      BY <1>2, <3>1 DEF FlowInv, CurInv
    <3> QED
      BY <1>4, <3>1, <3>2 DEF c
  <2>3. /\ Below(called, Elems(temp) \union Elems(result') \union Posting')
        /\ Below(Elems(temp), Elems(result') \union Posting')
        /\ Below(Elems(result'), Posting')
    BY <1>1, <1>2, <1>4, <1>5, <2>2 DEF FlowInv, ResultInv, Below
  <2>4. called \union Elems(temp) \union Elems(result') \union Posting' = executed
    BY <1>1, <1>2, <1>4, <1>5 DEF FlowInv, ResultInv
  <2>5. Sorted(temp) /\ Sorted(result')
    BY <1>1, <2>1 DEF FlowInv, ResultInv
  <2> QED
    BY <1>1, <2>3, <2>4, <2>5 DEF ResultInv, Elems, Below, Sorted, Owner
<1> QED
  BY <1>6, <1>7, <1>8, <1>9, <1>10 DEF FlowInv

(* push_back: the new statement is above all others. *)
LEMMA AsynFlow ==
    ASSUME TypeOK, FlowInv, NEW k \in Key, Asyn(k)
    PROVE  FlowInv'
<1> DEFINE n == Len(keyOf) + 1
           t == Route(k)
<1>1. /\ UNCHANGED <<pc, cur, result, temp, executed, called>>
      /\ keyOf' = Append(keyOf, k)
      /\ querysql' = [querysql EXCEPT ![t] = Append(@, n)]
  BY DEF Asyn
<1>2. t \in Thread
  BY RouteType
<1>3. /\ keyOf \in Seq(Key) /\ DOMAIN keyOf = 1..Len(keyOf) /\ Len(keyOf) \in Nat
      /\ n \in Nat /\ n \notin DOMAIN keyOf
      /\ \A i \in DOMAIN keyOf : i \in Nat /\ i < n
  BY DEF TypeOK
<1>4. /\ DOMAIN keyOf' = DOMAIN keyOf \union {n}
      /\ \A i \in DOMAIN keyOf : keyOf'[i] = keyOf[i]
      /\ keyOf'[n] = k
  <2>1. DOMAIN keyOf' = 1..Len(keyOf) + 1
    BY <1>1, <1>3
  <2>2. 1..Len(keyOf) + 1 = 1..Len(keyOf) \union {n}
    BY <1>3
  <2> QED
    BY <1>1, <1>3, <2>1, <2>2
<1>5. /\ querysql[t] \in Seq(Nat)
      /\ querysql'[t] = Append(querysql[t], n)
      /\ \A u \in Thread \ {t} : querysql'[u] = querysql[u]
  BY <1>1, <1>2 DEF TypeOK
<1> HIDE DEF n, t
<1>7. /\ Elems(querysql'[t]) = Elems(querysql[t]) \union {n}
      /\ \A u \in Thread \ {t} : Elems(querysql'[u]) = Elems(querysql[u])
      /\ \A u \in Thread : Elems(querysql[u]) \subseteq DOMAIN keyOf
  BY <1>3, <1>5, AppendElems DEF FlowInv, QueueInv
<1>8. Running' = Running /\ Posting' = Posting
  BY <1>1 DEF Running, Posting
<1>9. /\ executed \subseteq DOMAIN keyOf
      /\ Running \subseteq DOMAIN keyOf /\ Posting \subseteq DOMAIN keyOf
  BY DEF FlowInv, ExecutedInv, CurInv, Running, Posting
<1>10. QueueInv'
  <2> SUFFICES ASSUME NEW u \in Thread
               PROVE  /\ Increasing(querysql'[u])
                      /\ \A i \in Elems(querysql'[u]) :
                            i \in DOMAIN keyOf' \ executed /\ Route(keyOf'[i]) = u
    BY <1>1 DEF QueueInv, Elems, Increasing, Owner
  <2>1. Increasing(querysql[u]) /\ \A i \in Elems(querysql[u]) :
           i \in DOMAIN keyOf' \ executed /\ Route(keyOf'[i]) = u
    BY <1>4, <1>7 DEF FlowInv, QueueInv, Owner
  <2>2. CASE u # t
    BY <1>5, <2>1, <2>2
  <2>3. CASE u = t
    <3>1. Increasing(querysql'[u])
      <4>1. \A i \in Elems(querysql[t]) : i < n
        BY <1>2, <1>3, <1>7
      <4> QED
        BY <1>3, <1>5, <2>1, <2>3, <4>1, IncreasingAppend
    <3>2. n \in DOMAIN keyOf' \ executed /\ Route(keyOf'[n]) = t
      BY <1>3, <1>4, <1>9 DEF t
    <3> QED
      BY <1>7, <2>1, <2>3, <3>1, <3>2
  <2> QED
    BY <2>2, <2>3
<1>11. CurInv'
  <2> SUFFICES ASSUME NEW u \in Thread, pc[u] \in {"process", "post"}
               PROVE  /\ cur[u] \in DOMAIN keyOf' /\ Route(keyOf'[cur[u]]) = u
                      /\ \A i \in Elems(querysql'[u]) : cur[u] < i
                      /\ pc[u] = "process" <=> cur[u] \notin executed
    BY <1>1 DEF CurInv, Elems, Owner
  <2>1. /\ cur[u] \in DOMAIN keyOf /\ Owner(cur[u]) = u
        /\ \A i \in Elems(querysql[u]) : cur[u] < i
        /\ pc[u] = "process" <=> cur[u] \notin executed
    BY DEF FlowInv, CurInv
  <2>2. cur[u] \in DOMAIN keyOf' /\ Route(keyOf'[cur[u]]) = u
    BY <1>4, <2>1 DEF Owner
  <2>3. \A i \in Elems(querysql'[u]) : cur[u] < i
    BY <1>2, <1>3, <1>7, <2>1
  <2> QED
    BY <2>1, <2>2, <2>3
<1>12. ExecutedInv'
  <2>1. ASSUME NEW i \in executed, NEW j \in Running,
               Route(keyOf'[i]) = Route(keyOf'[j])
        PROVE  i < j
    BY <1>4, <1>9, <2>1 DEF FlowInv, ExecutedInv, Below, Owner
  <2>2. ASSUME NEW u \in Thread, NEW i \in executed, NEW j \in Elems(querysql'[u]),
               Route(keyOf'[i]) = Route(keyOf'[j])
        PROVE  i < j
    <3>1. CASE j = n
      BY <1>3, <1>9, <3>1
    <3>2. CASE j # n
      <4>1. j \in Elems(querysql[u]) /\ j \in DOMAIN keyOf
        BY <1>7, <3>2
      <4>2. Owner(i) = Owner(j)
        BY <1>4, <1>9, <2>2, <4>1 DEF Owner
      <4> QED
        BY <4>1, <4>2 DEF FlowInv, ExecutedInv, Below
    <3> QED
      BY <3>1, <3>2
  <2>3. executed \subseteq DOMAIN keyOf'
    BY <1>4, <1>9
  <2> QED
    BY <1>1, <1>8, <2>1, <2>2, <2>3 DEF ExecutedInv, Below, Elems, Owner
<1>13. NoneLost'
  <2> SUFFICES ASSUME NEW i \in DOMAIN keyOf'
               PROVE  i \in executed \union Running
                              \union Elems(querysql'[Route(keyOf'[i])])
    BY <1>1, <1>8 DEF NoneLost, Elems, Owner
  <2>1. CASE i = n
    BY <1>4, <1>7, <2>1 DEF t
  <2>2. CASE i # n
    <3>1. i \in DOMAIN keyOf /\ Route(keyOf'[i]) = Owner(i) /\ Owner(i) \in Thread
      BY <1>3, <1>4, <2>2, RouteType DEF Owner
    <3>2. i \in executed \union Running \union Elems(querysql[Owner(i)])
      BY <3>1 DEF FlowInv, NoneLost
    <3>3. Elems(querysql[Owner(i)]) \subseteq Elems(querysql'[Owner(i)])
      BY <1>7, <3>1
    <3> QED
      BY <3>1, <3>2, <3>3
  <2> QED
    BY <2>1, <2>2
<1>14. ResultInv'
  <2>1. called \union Elems(temp) \union Elems(result) \union Posting = executed
    BY DEF FlowInv, ResultInv
  <2>2. \A i \in executed : Route(keyOf'[i]) = Owner(i)
    BY <1>4, <1>9 DEF Owner
  <2> DEFINE B(S, T) == \A i \in S, j \in T :
                          Route(keyOf'[i]) = Route(keyOf'[j]) => i < j
             St(s) == \A x, y \in DOMAIN s :
                        x < y /\ Route(keyOf'[s[x]]) = Route(keyOf'[s[y]]) => s[x] < s[y]
  <2>3. ASSUME NEW S \in SUBSET executed, NEW T \in SUBSET executed, Below(S, T)
        PROVE  B(S, T)
    BY <2>2, <2>3 DEF Below
  <2>4. /\ B(called, Elems(temp) \union Elems(result) \union Posting)
        /\ B(Elems(temp), Elems(result) \union Posting)
        /\ B(Elems(result), Posting)
    <3> HIDE DEF B
    <3> QED
      BY <2>1, <2>3 DEF FlowInv, ResultInv
  <2>5. St(temp)
    <3> SUFFICES ASSUME NEW x \in DOMAIN temp, NEW y \in DOMAIN temp, x < y,
                        Route(keyOf'[temp[x]]) = Route(keyOf'[temp[y]])
                 PROVE  temp[x] < temp[y]
      OBVIOUS
    <3>1. temp[x] \in executed /\ temp[y] \in executed
      BY <2>1 DEF Elems
    <3>2. Owner(temp[x]) = Owner(temp[y])
      BY <2>2, <3>1
    <3> QED
      BY <3>2 DEF FlowInv, ResultInv, Sorted
  <2>6. St(result)
    <3> SUFFICES ASSUME NEW x \in DOMAIN result, NEW y \in DOMAIN result, x < y,
                        Route(keyOf'[result[x]]) = Route(keyOf'[result[y]])
                 PROVE  result[x] < result[y]
      OBVIOUS
    <3>1. result[x] \in executed /\ result[y] \in executed
      BY <2>1 DEF Elems
    <3>2. Owner(result[x]) = Owner(result[y])
      BY <2>2, <3>1
    <3> QED
      BY <3>2 DEF FlowInv, ResultInv, Sorted
  <2>7. Sorted(temp)' /\ Sorted(result)'
    BY <1>1, <2>5, <2>6 DEF Sorted, Owner
  <2>8. Elems(temp)' = Elems(temp) /\ Elems(result)' = Elems(result)
    BY <1>1 DEF Elems
  <2>9. Below(called, Elems(temp) \union Elems(result) \union Posting)'
    BY <1>1, <1>8, <2>4, <2>8 DEF Below, Owner
  <2>10. Below(Elems(temp), Elems(result) \union Posting)'
    BY <1>1, <1>8, <2>4, <2>8 DEF Below, Owner
  <2>11. Below(Elems(result), Posting)'
    BY <1>1, <1>8, <2>4, <2>8 DEF Below, Owner
  <2> QED
    BY <1>1, <1>8, <2>1, <2>7, <2>8, <2>9, <2>10, <2>11 DEF ResultInv
<1> QED
  BY <1>10, <1>11, <1>12, <1>13, <1>14 DEF FlowInv

(* Update: the results become the local copy, of which nothing was left. *)
LEMMA UpdateFlow ==
    ASSUME TypeOK, FlowInv, Update
    PROVE  FlowInv'
<1>1. /\ UNCHANGED <<keyOf, querysql, pc, cur, executed, called>>
      /\ temp = <<>> /\ temp' = result /\ result' = <<>>
  BY DEF Update, workerVars
<1>2. Running' = Running /\ Posting' = Posting
  BY <1>1 DEF Running, Posting
<1>3. Elems(temp) = {} /\ Elems(result') = {} /\ Sorted(<<>>)
  BY <1>1, EmptyElems DEF Sorted
<1>4. QueueInv' /\ CurInv' /\ ExecutedInv' /\ NoneLost'
  BY <1>1, <1>2 DEF FlowInv, QueueInv, CurInv, ExecutedInv, NoneLost, Elems,
                    Increasing, Below, Owner
<1>5. ResultInv'
  <2>1. /\ called \union Elems(result) \union {} \union Posting = executed
        /\ Sorted(result) /\ Sorted(<<>>)
        /\ Below(called, Elems(result) \union {} \union Posting)
        /\ Below(Elems(result), {} \union Posting)
        /\ Below({}, Posting)
    BY <1>3 DEF FlowInv, ResultInv, Below
  <2> QED
    BY <1>1, <1>2, <1>3, <2>1 DEF ResultInv, Elems, Below, Sorted, Owner
<1> QED
  BY <1>4, <1>5 DEF FlowInv

(* A callback: the first of the copy is the oldest of its worker. *)
LEMMA CallbackFlow ==
    ASSUME TypeOK, FlowInv, Callback
    PROVE  FlowInv'
<1> DEFINE h == Head(temp)
<1>1. /\ UNCHANGED <<keyOf, querysql, pc, cur, result, executed>>
      /\ temp # <<>> /\ temp' = Tail(temp) /\ called' = called \union {h}
  BY DEF Callback, workerVars
<1>2. Running' = Running /\ Posting' = Posting
  BY <1>1 DEF Running, Posting
<1>3. /\ Elems(temp) = {h} \union Elems(Tail(temp))
      /\ Sorted(Tail(temp)) /\ Below({h}, Elems(Tail(temp)))
  BY <1>1, TailElems, SortedTail DEF FlowInv, ResultInv, TypeOK
<1> HIDE DEF h
<1>4. QueueInv' /\ CurInv' /\ ExecutedInv' /\ NoneLost'
  BY <1>1, <1>2 DEF FlowInv, QueueInv, CurInv, ExecutedInv, NoneLost, Elems,
                    Increasing, Below, Owner
<1>5. ResultInv'
  <2>1. called' \union Elems(temp') \union Elems(result) \union Posting = executed
    BY <1>1, <1>3 DEF FlowInv, ResultInv
  <2>2. Below(called', Elems(temp') \union Elems(result) \union Posting)
    BY <1>1, <1>3 DEF FlowInv, ResultInv, Below
  <2>3. Below(Elems(temp'), Elems(result) \union Posting)
    BY <1>1, <1>3 DEF FlowInv, ResultInv, Below
  <2>4. Sorted(temp') /\ Sorted(result) /\ Below(Elems(result), Posting)
    BY <1>1, <1>3 DEF FlowInv, ResultInv
  <2> QED
    BY <1>1, <1>2, <2>1, <2>2, <2>3, <2>4 DEF ResultInv, Elems, Below, Sorted, Owner
<1> QED
  BY <1>4, <1>5 DEF FlowInv

(* Every step keeps the order. *)
LEMMA FlowStep == TypeOK /\ FlowInv /\ [Next]_vars => FlowInv'
<1> SUFFICES ASSUME TypeOK, FlowInv, [Next]_vars PROVE FlowInv'
  OBVIOUS
<1>1. ASSUME NEW k \in Key, Asyn(k) PROVE FlowInv'
  BY <1>1, AsynFlow
<1>2. CASE NotifyAll
  <2>1. \A t \in Thread : /\ pc'[t] = "process" <=> pc[t] = "process"
                          /\ pc'[t] = "post" <=> pc[t] = "post"
    BY <1>2 DEF NotifyAll, TypeOK
  <2> QED
    BY <1>2, <2>1, QuietFlow DEF NotifyAll
<1>3. CASE Update
  BY <1>3, UpdateFlow
<1>4. CASE Callback
  BY <1>4, CallbackFlow
<1>5. CASE Delete \/ Close \/ Join
  BY <1>5, QuietFlow DEF Delete, Close, Join, workerVars
<1>6. ASSUME NEW t \in Thread, CheckExit(t) \/ SpuriousWake(t) PROVE FlowInv'
  <2>1. \A u \in Thread : /\ pc'[u] = "process" <=> pc[u] = "process"
                          /\ pc'[u] = "post" <=> pc[u] = "post"
    BY <1>6 DEF CheckExit, SpuriousWake, TypeOK
  <2> QED
    BY <1>6, <2>1, QuietFlow DEF CheckExit, SpuriousWake
<1>7. ASSUME NEW t \in Thread, LockQueue(t) \/ Drain(t) PROVE FlowInv'
  <2>1. CASE querysql[t] # <<>> /\ TakeFront(t)
    BY <1>7, <2>1, TakeFlow
  <2>2. CASE ~(querysql[t] # <<>> /\ TakeFront(t))
    <3>1. \A u \in Thread : /\ pc'[u] = "process" <=> pc[u] = "process"
                            /\ pc'[u] = "post" <=> pc[u] = "post"
      BY <1>7, <2>2 DEF LockQueue, Drain, TypeOK
    <3> QED
      BY <1>7, <2>2, <3>1, QuietFlow DEF LockQueue, Drain
  <2> QED
    BY <2>1, <2>2
<1>8. ASSUME NEW t \in Thread, ProcessSql(t) PROVE FlowInv'
  BY <1>8, ProcessFlow
<1>9. ASSUME NEW t \in Thread, OnGetResult(t) PROVE FlowInv'
  BY <1>9, PostFlow
<1>10. CASE UNCHANGED vars
  BY <1>10, QuietFlow DEF vars, workerVars
<1> QED
  BY <1>1, <1>2, <1>3, <1>4, <1>5, <1>6, <1>7, <1>8, <1>9, <1>10 DEF Next, Worker

(* Every step keeps what closing needs: no statement is asked for once a   *)
(* bExit is set, and a worker that is done has an empty queue.             *)
LEMMA CloseStep == TypeOK /\ CloseInv /\ [Next]_vars => CloseInv'
<1> SUFFICES ASSUME TypeOK, CloseInv, [Next]_vars PROVE CloseInv'
  OBVIOUS
<1> USE DEF CloseInv, workerVars, mainVars
<1>1. ASSUME NEW k \in Key, Asyn(k) PROVE CloseInv'
  <2>1. \A t \in Thread : pc[t] # "done"
    BY <1>1 DEF Asyn
  <2> QED
    BY <1>1, <2>1 DEF Asyn
<1>2. CASE NotifyAll
  <2>1. \A t \in Thread : pc'[t] \in {"drain", "done"} <=> pc[t] \in {"drain", "done"}
    BY <1>2 DEF NotifyAll, TypeOK
  <2>2. \A t \in Thread : pc'[t] = "done" <=> pc[t] = "done"
    BY <1>2 DEF NotifyAll, TypeOK
  <2> QED
    BY <1>2, <2>1, <2>2 DEF NotifyAll
<1>3. CASE Update \/ Callback
  BY <1>3 DEF Update, Callback
<1>4. CASE Delete
  BY <1>4 DEF Delete, Thread
<1>5. CASE Close
  BY <1>5 DEF Close, TypeOK
<1>6. CASE Join
  <2>1. CASE target + 1 < N
    <3>1. \A t \in Thread : t < target + 1 => t < target \/ t = target
      BY DEF Thread, TypeOK
    <3> QED
      BY <1>6, <2>1, <3>1 DEF Join
  <2>2. CASE ~(target + 1 < N)
    <3>1. \A t \in Thread : t < target \/ t = target
      BY <2>2, SqlThreadAssumption DEF Thread, TypeOK
    <3> QED
      BY <1>6, <2>2, <3>1 DEF Join
  <2> QED
    BY <2>1, <2>2
<1>7. ASSUME NEW t \in Thread, CheckExit(t) \/ SpuriousWake(t) PROVE CloseInv'
  BY <1>7 DEF CheckExit, SpuriousWake, TypeOK
<1>8. ASSUME NEW t \in Thread, LockQueue(t) \/ Drain(t) PROVE CloseInv'
  <2>1. pc[t] # "done" /\ \A u \in Thread \ {t} :
           pc'[u] = pc[u] /\ querysql'[u] = querysql[u]
    BY <1>8 DEF LockQueue, Drain, TakeFront, TypeOK
  <2>2. UNCHANGED <<bExit, at, target>>
    BY <1>8 DEF LockQueue, Drain
  <2>3. /\ pc'[t] = "done" => querysql'[t] = <<>>
        /\ pc'[t] \in {"drain", "done"} => bExit[t]
    BY <1>8 DEF LockQueue, Drain, TakeFront, TypeOK
  <2> QED
    BY <2>1, <2>2, <2>3
<1>9. ASSUME NEW t \in Thread, ProcessSql(t) \/ OnGetResult(t) PROVE CloseInv'
  BY <1>9 DEF ProcessSql, OnGetResult, TypeOK
<1>10. CASE UNCHANGED vars
  BY <1>10 DEF vars
<1> QED
  BY <1>1, <1>2, <1>3, <1>4, <1>5, <1>6, <1>7, <1>8, <1>9, <1>10 DEF Next, Worker

-----------------------------------------------------------------------------
(* The type invariant of DBService and its workers. *)
THEOREM TypeCorrect == Spec => []TypeOK
<1>1. Init => TypeOK
  BY SqlThreadAssumption DEF Init, TypeOK, Thread
<1> QED
  BY <1>1, TypeStep, PTL DEF Spec

(* The order of the statements along querysql, cur, result and temp is an  *)
(* invariant.                                                              *)
THEOREM Invariant == Spec => []SqlInv
<1>1. Init => SqlInv
  <2> SUFFICES ASSUME Init PROVE SqlInv
    OBVIOUS
  <2>1. DOMAIN keyOf = {} /\ Running = {} /\ Posting = {}
    BY DEF Init, Running, Posting
  <2>2. Elems(temp) = {} /\ Elems(result) = {}
    BY EmptyElems DEF Init
  <2>3. \A t \in Thread : querysql[t] = <<>> /\ Elems(querysql[t]) = {}
    BY EmptyElems DEF Init
  <2>4. QueueInv /\ CurInv /\ ExecutedInv /\ NoneLost
    BY <2>1, <2>3 DEF Init, QueueInv, CurInv, ExecutedInv, NoneLost, Below, Increasing
  <2>5. ResultInv
    BY <2>1, <2>2 DEF Init, ResultInv, Below, Sorted
  <2>6. CloseInv
    BY DEF Init, CloseInv
  <2> QED
    BY <2>4, <2>5, <2>6 DEF SqlInv
<1>2. TypeOK /\ SqlInv /\ [Next]_vars => SqlInv'
  BY FlowStep, CloseStep DEF SqlInv, FlowInv
<1> QED
  BY <1>1, <1>2, TypeCorrect, PTL DEF Spec

(* When ~DBService has returned, every statement that was ever asked for   *)
(* has been executed.                                                      *)
THEOREM NothingLost == Spec => []DeletedAfterAll
<1>1. TypeOK /\ SqlInv => DeletedAfterAll
  <2> SUFFICES ASSUME TypeOK, SqlInv, at = "end" PROVE executed = DOMAIN keyOf
    BY DEF DeletedAfterAll
  <2>1. \A t \in Thread : pc[t] = "done" /\ querysql[t] = <<>>
    BY DEF SqlInv, CloseInv
  <2>2. Running = {} /\ \A t \in Thread : Elems(querysql[t]) = {}
    BY <2>1, EmptyElems DEF Running
  <2>3. \A i \in DOMAIN keyOf : Owner(i) \in Thread
    BY RouteType DEF Owner, TypeOK
  <2> QED
    BY <2>2, <2>3 DEF SqlInv, NoneLost, ExecutedInv
<1> QED
  BY <1>1, TypeCorrect, Invariant, PTL

(* DBService implements AsyncSql: per key, statements are executed and     *)
(* called back in the order of asking, each once.                          *)
THEOREM Implements == Spec => KeepsPromise
<1>1. Init => Promise!Init
  BY DEF Init, Promise!Init
<1>2. TypeOK /\ SqlInv /\ [Next]_vars => [Promise!Next]_(Promise!vars)
  <2> SUFFICES ASSUME TypeOK, SqlInv, [Next]_vars
               PROVE  Promise!Next \/ UNCHANGED Promise!vars
    OBVIOUS
  <2>1. /\ QueueInv /\ CurInv /\ ExecutedInv /\ NoneLost /\ ResultInv
        /\ DOMAIN keyOf = 1..Len(keyOf) /\ Len(keyOf) \in Nat
    BY DEF SqlInv, TypeOK
  <2>2. ASSUME NEW i \in DOMAIN keyOf, NEW j \in Promise!Earlier(i)
        PROVE  /\ j \in DOMAIN keyOf /\ j \in Nat /\ i \in Nat /\ j < i
               /\ Owner(j) = Owner(i) /\ Owner(i) \in Thread
    <3>1. j \in 1..i - 1 /\ keyOf[j] = keyOf[i]
      BY DEF Promise!Earlier
    <3>2. j \in DOMAIN keyOf /\ j \in Nat /\ i \in Nat /\ j < i
      BY <2>1, <3>1
    <3>3. keyOf[i] \in Key
      BY DEF TypeOK
    <3> QED
      BY <3>1, <3>2, <3>3, RouteType DEF Owner
  <2>3. ASSUME NEW k \in Key, Asyn(k) PROVE Promise!Next
    BY <2>3 DEF Asyn, Promise!Next, Promise!Ask
  <2>4. ASSUME NEW t \in Thread, ProcessSql(t) PROVE Promise!Next
    <3>1. /\ cur[t] \in DOMAIN keyOf \ executed /\ Owner(cur[t]) = t
          /\ \A j \in Elems(querysql[t]) : cur[t] < j
      BY <2>1, <2>4 DEF ProcessSql, CurInv
    <3>2. ASSUME NEW j \in Promise!Earlier(cur[t]) PROVE j \in executed
      <4>1. /\ j \in DOMAIN keyOf /\ j \in Nat /\ cur[t] \in Nat /\ j < cur[t]
            /\ Owner(j) = t
        BY <2>2, <3>1
      <4>2. j \in executed \union Running \union Elems(querysql[t])
        BY <2>1, <4>1 DEF NoneLost
      <4>3. j \notin Running
        BY <2>1, <4>1 DEF Running, CurInv
      <4>4. j \notin Elems(querysql[t])
        BY <3>1, <4>1
      <4> QED
        BY <4>2, <4>3, <4>4
    <3>3. Promise!Execute(cur[t])
      BY <2>4, <3>1, <3>2 DEF ProcessSql, Promise!Execute
    <3> QED
      BY <3>1, <3>3 DEF Promise!Next
  <2>5. CASE Callback
    <3> DEFINE h == Head(temp)
    <3>1. /\ h \in Nat /\ Elems(temp) = {h} \union Elems(Tail(temp))
          /\ Below({h}, Elems(Tail(temp)))
      BY <2>1, <2>5, TailElems, SortedTail DEF Callback, TypeOK, ResultInv
    <3>2. called' = called \union {h} /\ UNCHANGED <<keyOf, executed>>
      BY <2>5 DEF Callback
    <3> HIDE DEF h
    <3>3. h \in executed /\ h \in DOMAIN keyOf
      BY <2>1, <3>1 DEF ResultInv, ExecutedInv
    <3>4. h \notin called
      BY <2>1, <3>1 DEF ResultInv, Below
    <3>5. ASSUME NEW j \in Promise!Earlier(h) PROVE j \in called
      <4>1. /\ j \in DOMAIN keyOf /\ j \in Nat /\ j < h
            /\ Owner(j) = Owner(h) /\ Owner(h) \in Thread
        BY <2>2, <3>3
      <4>2. j \in executed
        <5>1. j \in executed \union Running \union Elems(querysql[Owner(h)])
          BY <2>1, <4>1 DEF NoneLost
        <5>2. j \notin Running /\ j \notin Elems(querysql[Owner(h)])
          BY <2>1, <3>1, <3>3, <4>1 DEF ExecutedInv, Below
        <5> QED
          BY <5>1, <5>2
      <4>3. j \notin Elems(temp)
        BY <3>1, <4>1 DEF Below
      <4>4. j \notin Elems(result) \union Posting
        BY <2>1, <3>1, <4>1 DEF ResultInv, Below
      <4> QED
        BY <2>1, <4>2, <4>3, <4>4 DEF ResultInv
    <3>6. Promise!Call(h)
      BY <3>2, <3>3, <3>4, <3>5 DEF Promise!Call
    <3> QED
      BY <3>3, <3>6 DEF Promise!Next
  <2>6. CASE NotifyAll \/ Update \/ Delete \/ Close \/ Join
    BY <2>6 DEF NotifyAll, Update, Delete, Close, Join, Promise!vars
  <2>7. ASSUME NEW t \in Thread,
               CheckExit(t) \/ LockQueue(t) \/ Drain(t) \/ OnGetResult(t)
                 \/ SpuriousWake(t)
        PROVE  UNCHANGED Promise!vars
    BY <2>7 DEF CheckExit, LockQueue, Drain, OnGetResult, SpuriousWake, Promise!vars
  <2>8. CASE UNCHANGED vars
    BY <2>8 DEF vars, Promise!vars
  <2> QED
    BY <2>3, <2>4, <2>5, <2>6, <2>7, <2>8 DEF Next, Worker
<1> QED
  BY <1>1, <1>2, TypeCorrect, Invariant, PTL DEF Spec, KeepsPromise, Promise!Spec
=============================================================================
