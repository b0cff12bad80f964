-------------------------- MODULE ServerSafeProofs --------------------------
(***************************************************************************)
(* Proofs about the parts of the servers that one run of MCServerSafe      *)
(* checks together.  TimerManager: every timer has been called once for    *)
(* each of its times that has come when Update() returns, and calls are    *)
(* made in the order of the times they are due.  WebFrames: the packs of a *)
(* client come out of its frames whole and in order.  TimerLayering and    *)
(* TimeWheel: every timer is in one place and is called back at its tick,  *)
(* whatever the sizes of the wheels.  CoroutineManager: no item of the     *)
(* pool is lost or handed out twice.                                       *)
(***************************************************************************)
EXTENDS MCServerSafe, TLAPS, NaturalsInduction, WellFoundedInduction,
        SequenceTheorems, FiniteSetTheorems

(* Arithmetic of the times of a timer. *)
LEMMA Quotient ==
    ASSUME NEW i \in Nat \ {0}, NEW k \in Int
    PROVE  (k * i) \div i = k
  OBVIOUS

LEMMA OneMore ==
    ASSUME NEW i \in Int, NEW k \in Int
    PROVE  (k + 1) * i = k * i + i
  OBVIOUS

-----------------------------------------------------------------------------
(* TimerManager.  Every timer is at one of its times, as far from the      *)
(* start as its loop count says; it is never more than one interval ahead, *)
(* and never before the latest call.                                       *)

(* The timer is being called: it is at its next time already, and not yet  *)
(* counted down.                                                           *)
InCall(h) == IF h = running THEN 1 ELSE 0

AtItsTime(t, called, time, latest) ==
    /\ t.count = -1 => t.loops = -1
    /\ t.count # -1 => /\ t.loops > 0
                       /\ t.next - t.start =
                            (t.count - t.loops + 1 + called) * t.interval
    /\ t.next - t.interval <= time
    /\ latest <= t.next

HeapInv ==
    /\ Heap!TypeOK /\ Heap!NotAfterRemoval
    /\ running # NoTimer => busy
    /\ lastDue.at \in Nat /\ lastDue.at <= _interval
    /\ \A h \in DOMAIN timer : AtItsTime(timer[h], InCall(h), _interval, lastDue.at)
    /\ ~busy => \A h \in DOMAIN timer : timer[h].next > _interval

LEMMA HeapNumbers ==
    /\ NoTimer \notin Handle /\ Intervals \subseteq Nat \ {0} /\ Day \in Nat \ {0}
    /\ MaxLoops \in Nat /\ MaxTime \in Nat /\ MaxStep \in Nat
  BY SafePartsAssumption DEF Heap!TimerAssumption

LEMMA RecordParts ==
    ASSUME NEW t \in Heap!TimerRecord
    PROVE  /\ t.start \in Int /\ t.interval \in Nat \ {0} /\ t.next \in Nat
           /\ t.loops \in Int /\ t.count \in Int /\ t.bRelease \in BOOLEAN
<1>1. Heap!Loops \subseteq Int
  BY HeapNumbers DEF Heap!Loops
<1> QED
  BY <1>1, HeapNumbers DEF Heap!TimerRecord

LEMMA HeapInit == Heap!Init => HeapInv
<1> SUFFICES ASSUME Heap!Init PROVE HeapInv
  OBVIOUS
<1>1. /\ DOMAIN timer = {} /\ Timers = {} /\ _interval = 0 /\ busy = FALSE
      /\ running = NoTimer /\ lastDue = [at |-> 0, released |-> FALSE]
  BY DEF Heap!Init
<1>2. busy \in BOOLEAN
  BY <1>1
<1>3. Heap!TypeOK
  BY <1>1, <1>2, HeapNumbers DEF Heap!TypeOK
<1>4. Heap!NotAfterRemoval /\ lastDue.at = 0
  BY <1>1 DEF Heap!NotAfterRemoval
<1> QED
  BY <1>1, <1>3, <1>4 DEF HeapInv

LEMMA AddStep ==
    ASSUME HeapInv, NEW h \in Handle, NEW first \in Nat \ {0},
           NEW i \in Intervals \union {Day}, NEW n \in Heap!Loops, first <= i,
           Heap!Add(h, first, i, n)
    PROVE  HeapInv'
<1>t. PICK t : t = [start |-> _interval + first - i, interval |-> i,
                    next |-> _interval + first,
                    loops |-> n, count |-> n, bRelease |-> FALSE]
  OBVIOUS
<1>0. /\ timer' = [g \in DOMAIN timer \union {h} |-> IF g = h THEN t ELSE timer[g]]
      /\ Timers' = Timers \union {h}
      /\ _interval' = _interval /\ busy' = busy /\ running' = running
      /\ lastDue' = lastDue
  BY <1>t DEF Heap!Add
<1>1. h \notin DOMAIN timer
  BY DEF Heap!Add
<1>2. /\ _interval \in Nat /\ i \in Nat \ {0} /\ n \in Int /\ n # 0 /\ (n = -1 \/ n > 0)
      /\ lastDue.at \in Nat /\ lastDue.at <= _interval
  <2>1. _interval \in Nat /\ lastDue.at \in Nat /\ lastDue.at <= _interval
    BY DEF HeapInv, Heap!TypeOK
  <2>2. i \in Nat \ {0}
    BY HeapNumbers
  <2>3. n \in Int /\ n # 0 /\ (n = -1 \/ n > 0)
    BY HeapNumbers DEF Heap!Loops
  <2> QED
    BY <2>1, <2>2, <2>3
<1>3. t \in Heap!TimerRecord
  <2>1. _interval + first - i \in Int /\ _interval + first \in Nat
    BY <1>2
  <2> QED
    BY <1>2, <1>t, <2>1 DEF Heap!TimerRecord
<1>4. h # running
  BY <1>1, HeapNumbers DEF HeapInv, Heap!TypeOK
<1>5. AtItsTime(t, 0, _interval, lastDue.at) /\ t.next > _interval
  <2>1. /\ t.count = n /\ t.loops = n /\ t.next = _interval + first /\ t.interval = i
        /\ t.start = _interval + first - i
    BY <1>t
  <2>2. t.next - t.start = i /\ n - n + 1 + 0 = 1 /\ 1 * i = i
    BY <1>2, <2>1
  <2>3. t.next - t.interval <= _interval /\ lastDue.at <= t.next /\ t.next > _interval
    BY <1>2, <2>1
  <2> QED
    BY <1>2, <2>1, <2>2, <2>3 DEF AtItsTime
<1>6. DOMAIN timer' = DOMAIN timer \union {h} /\ timer'[h] = t
      /\ \A g \in DOMAIN timer : timer'[g] = timer[g]
  BY <1>0, <1>1
<1>7. Heap!TypeOK'
  BY <1>0, <1>1, <1>3, <1>4, <1>6
     DEF HeapInv, Heap!TypeOK, Heap!TimerRecord, Heap!Loops
<1>8. \A g \in DOMAIN timer' : AtItsTime(timer'[g], InCall(g)', _interval, lastDue.at)
  <2>1. InCall(h)' = 0 /\ \A g : InCall(g)' = InCall(g)
    BY <1>0, <1>4 DEF InCall
  <2> QED
    BY <1>5, <1>6, <2>1 DEF HeapInv
<1>9. ~busy' => \A g \in DOMAIN timer' : timer'[g].next > _interval'
  BY <1>0, <1>5, <1>6 DEF HeapInv
<1> QED
  BY <1>0, <1>7, <1>8, <1>9 DEF HeapInv, Heap!NotAfterRemoval

LEMMA RemoveStep == ASSUME HeapInv, NEW h \in Handle, Heap!RemoveTimer(h) PROVE HeapInv'
<1>t. PICK t : t = [timer[h] EXCEPT !.bRelease = TRUE]
  OBVIOUS
<1>0. /\ h \in DOMAIN timer /\ timer' = [timer EXCEPT ![h] = t] /\ Timers' = Timers
      /\ _interval' = _interval /\ busy' = busy /\ running' = running
      /\ lastDue' = lastDue
  BY <1>t DEF Heap!RemoveTimer
<1>1. timer[h] \in Heap!TimerRecord
  BY <1>0 DEF HeapInv, Heap!TypeOK
<1>2. /\ t \in Heap!TimerRecord /\ t.count = timer[h].count /\ t.loops = timer[h].loops
      /\ t.next = timer[h].next /\ t.start = timer[h].start
      /\ t.interval = timer[h].interval
  BY <1>1, <1>t DEF Heap!TimerRecord
<1>3. DOMAIN timer' = DOMAIN timer /\ timer'[h] = t
      /\ \A g \in DOMAIN timer : g # h => timer'[g] = timer[g]
  BY <1>0
<1>4. Heap!TypeOK'
  BY <1>0, <1>2, <1>3 DEF HeapInv, Heap!TypeOK, Heap!TimerRecord, Heap!Loops
<1>5. \A g : InCall(g)' = InCall(g)
  BY <1>0 DEF InCall
<1>6. \A g \in DOMAIN timer' : AtItsTime(timer'[g], InCall(g)', _interval, lastDue.at)
  BY <1>0, <1>2, <1>3, <1>5 DEF HeapInv, AtItsTime
<1>7. ~busy' => \A g \in DOMAIN timer' : timer'[g].next > _interval'
  BY <1>0, <1>2, <1>3 DEF HeapInv
<1> QED
  BY <1>0, <1>4, <1>6, <1>7 DEF HeapInv, Heap!NotAfterRemoval

LEMMA BeginStep == ASSUME HeapInv, NEW d \in 0..MaxStep, Heap!UpdateBegins(d) PROVE HeapInv'
<1>0. /\ _interval' = _interval + d /\ _interval + d <= MaxTime /\ busy' = TRUE
      /\ timer' = timer /\ Timers' = Timers /\ running' = running /\ lastDue' = lastDue
  BY DEF Heap!UpdateBegins
<1>1. /\ _interval \in Nat /\ d \in Nat /\ MaxTime \in Nat
      /\ lastDue.at \in Nat /\ lastDue.at <= _interval
  BY HeapNumbers DEF HeapInv, Heap!TypeOK
<1>2. _interval' \in 0..MaxTime /\ _interval' >= _interval
  BY <1>0, <1>1
<1>b. busy' \in BOOLEAN
  BY <1>0
<1>3. Heap!TypeOK'
  BY <1>0, <1>2, <1>b DEF HeapInv, Heap!TypeOK, Heap!TimerRecord, Heap!Loops
<1>4. ASSUME NEW h \in DOMAIN timer'
      PROVE  AtItsTime(timer'[h], InCall(h)', _interval', lastDue'.at)
  <2>1. InCall(h)' = InCall(h) /\ timer'[h] = timer[h] /\ lastDue'.at = lastDue.at
    BY <1>0 DEF InCall
  <2>2. PICK t : t = timer[h]
    OBVIOUS
  <2>3. t.next \in Nat /\ t.interval \in Nat
    BY <1>0, <2>2, RecordParts DEF HeapInv, Heap!TypeOK
  <2>4. AtItsTime(t, InCall(h), _interval, lastDue.at)
    BY <1>0, <2>2 DEF HeapInv
  <2>5. t.next - t.interval <= _interval'
    BY <1>1, <1>2, <2>3, <2>4 DEF AtItsTime
  <2> QED
    BY <2>1, <2>2, <2>4, <2>5 DEF AtItsTime
<1>5. lastDue.at <= _interval'
  BY <1>0, <1>1
<1> QED
  BY <1>0, <1>3, <1>4, <1>5 DEF HeapInv, Heap!NotAfterRemoval

(* A timer is gone: released at the front, or called for the last time. *)
LEMMA GoneStep ==
    ASSUME HeapInv, NEW h \in DOMAIN timer, busy, busy' = busy,
           timer' = [g \in DOMAIN timer \ {h} |-> timer[g]],
           Timers' = Timers \ {h}, running \in {h, NoTimer}, running' = NoTimer,
           _interval' = _interval, lastDue' = lastDue
    PROVE  HeapInv'
<1>1. DOMAIN timer' = DOMAIN timer \ {h} /\ \A g \in DOMAIN timer' : timer'[g] = timer[g]
  OBVIOUS
<1>2. Heap!TypeOK'
  BY <1>1, HeapNumbers DEF HeapInv, Heap!TypeOK, Heap!TimerRecord, Heap!Loops
<1>3. \A g \in DOMAIN timer' : InCall(g)' = InCall(g)
  BY <1>1, HeapNumbers DEF InCall, HeapInv, Heap!TypeOK
<1>4. \A g \in DOMAIN timer' : AtItsTime(timer'[g], InCall(g)', _interval, lastDue.at)
  BY <1>1, <1>3 DEF HeapInv
<1> QED
  BY <1>2, <1>4 DEF HeapInv, Heap!NotAfterRemoval

(* Calls are made at the front of the heap, so in the order they are due.  *)
LEMMA CallStep ==
    ASSUME HeapInv, NEW h \in Handle, Heap!FrontCalled(h)
    PROVE  HeapInv' /\ lastDue'.at >= lastDue.at
<1>0. /\ busy /\ running = NoTimer /\ h \in Timers
      /\ \A g \in Timers : timer[h].next <= timer[g].next
      /\ _interval >= timer[h].next /\ ~timer[h].bRelease
      /\ Timers' = Timers \ {h} /\ running' = h
      /\ lastDue' = [at |-> timer[h].next, released |-> timer[h].bRelease]
      /\ _interval' = _interval /\ busy' = busy
  BY DEF Heap!FrontCalled, Heap!Front, Heap!Passed
<1>1. h \in DOMAIN timer /\ timer[h] \in Heap!TimerRecord /\ DOMAIN timer = Timers
      /\ h # NoTimer
  BY <1>0, HeapNumbers DEF HeapInv, Heap!TypeOK
<1>2. PICK t : t = timer[h]
  OBVIOUS
<1>3. /\ t.start \in Int /\ t.interval \in Nat \ {0} /\ t.next \in Nat
      /\ t.loops \in Int /\ t.count \in Int
  BY <1>1, <1>2, RecordParts
<1>4. PICK u : u = [t EXCEPT !.next = t.next + t.interval]
  OBVIOUS
<1>5. /\ timer' = [timer EXCEPT ![h] = u] /\ DOMAIN timer' = DOMAIN timer
      /\ timer'[h] = u /\ \A g \in DOMAIN timer : g # h => timer'[g] = timer[g]
  <2>1. timer' = [timer EXCEPT ![h].next = @ + timer[h].interval]
    BY DEF Heap!FrontCalled
  <2> QED
    BY <1>1, <1>2, <1>4, <2>1
<1>6. /\ u \in Heap!TimerRecord /\ u.next = t.next + t.interval /\ u.start = t.start
      /\ u.interval = t.interval /\ u.loops = t.loops /\ u.count = t.count
  <2>1. t.next + t.interval \in Nat
    BY <1>3
  <2> QED
    BY <1>1, <1>2, <1>4, <2>1 DEF Heap!TimerRecord
<1>7. Heap!TypeOK'
  <2>1. busy' \in BOOLEAN
    BY <1>0 DEF HeapInv, Heap!TypeOK
  <2> QED
    BY <1>0, <1>1, <1>5, <1>6, <2>1 DEF HeapInv, Heap!TypeOK, Heap!TimerRecord, Heap!Loops
<1>8. lastDue'.at = t.next /\ ~lastDue'.released /\ _interval \in Nat
  BY <1>0, <1>2 DEF HeapInv, Heap!TypeOK
<1>9. AtItsTime(t, 0, _interval, lastDue.at)
  <2>1. InCall(h) = 0
    BY <1>0, <1>1 DEF InCall
  <2> QED
    BY <1>1, <1>2, <2>1 DEF HeapInv
<1>10. AtItsTime(u, 1, _interval, t.next)
  <2>1. ASSUME u.count # -1
        PROVE  /\ u.loops > 0
               /\ u.next - u.start = (u.count - u.loops + 1 + 1) * u.interval
    <3>1. PICK k \in Int : k = t.count - t.loops + 1 + 0
      BY <1>3
    <3>2. t.loops > 0 /\ t.next - t.start = k * t.interval
      BY <1>6, <1>9, <2>1, <3>1 DEF AtItsTime
    <3>3. (k + 1) * t.interval = k * t.interval + t.interval
      BY <1>3, OneMore
    <3>4. u.next - u.start = (t.next - t.start) + t.interval
      BY <1>3, <1>6
    <3>5. u.count - u.loops + 1 + 1 = k + 1
      BY <1>3, <1>6, <3>1
    <3> QED
      BY <1>6, <3>2, <3>3, <3>4, <3>5
  <2>2. u.next - u.interval <= _interval /\ t.next <= u.next
    BY <1>0, <1>2, <1>3, <1>6, <1>8
  <2>3. u.count = -1 => u.loops = -1
    BY <1>6, <1>9 DEF AtItsTime
  <2> QED
    BY <2>1, <2>2, <2>3 DEF AtItsTime
<1>11. ASSUME NEW g \in DOMAIN timer, g # h
       PROVE  AtItsTime(timer[g], InCall(g)', _interval, t.next)
  <2>1. InCall(g)' = InCall(g)
    BY <1>0, <1>1, <1>11, HeapNumbers DEF InCall, HeapInv, Heap!TypeOK
  <2>2. AtItsTime(timer[g], InCall(g), _interval, lastDue.at) /\ t.next <= timer[g].next
    BY <1>0, <1>1, <1>2 DEF HeapInv
  <2> QED
    BY <2>1, <2>2 DEF AtItsTime
<1>12. \A g \in DOMAIN timer' : AtItsTime(timer'[g], InCall(g)', _interval', lastDue'.at)
  <2>1. InCall(h)' = 1
    BY <1>0 DEF InCall
  <2> QED
    BY <1>0, <1>5, <1>8, <1>10, <1>11, <2>1
<1>13. Heap!NotAfterRemoval'
  BY <1>8 DEF Heap!NotAfterRemoval
<1>14. lastDue'.at \in Nat /\ lastDue'.at <= _interval'
  BY <1>0, <1>2, <1>3, <1>8
<1>15. lastDue'.at >= lastDue.at
  BY <1>3, <1>8, <1>9 DEF AtItsTime, HeapInv
<1> QED
  BY <1>0, <1>7, <1>12, <1>13, <1>14, <1>15 DEF HeapInv

(* After the callback: the last time, or back into the heap. *)
LEMMA ReturnStep == ASSUME HeapInv, Heap!CallReturns PROVE HeapInv'
<1>0. /\ running # NoTimer /\ running' = NoTimer
      /\ _interval' = _interval /\ busy' = busy /\ lastDue' = lastDue
  BY DEF Heap!CallReturns
<1>1. /\ busy /\ running \in DOMAIN timer /\ running \notin Timers
      /\ timer[running] \in Heap!TimerRecord
      /\ DOMAIN timer = Timers \union {running} /\ running \in Handle
  BY <1>0 DEF HeapInv, Heap!TypeOK
<1>2. PICK h, t : h = running /\ t = timer[h]
  OBVIOUS
<1>3. /\ t.start \in Int /\ t.interval \in Nat \ {0} /\ t.next \in Nat
      /\ t.loops \in Int /\ t.count \in Int
  BY <1>1, <1>2, RecordParts
<1>4. CASE t.loops = 1
  <2>1. timer' = [g \in DOMAIN timer \ {h} |-> timer[g]] /\ Timers' = Timers \ {h}
    BY <1>1, <1>2, <1>4 DEF Heap!CallReturns, Heap!Without
  <2> QED
    BY <1>0, <1>1, <1>2, <2>1, GoneStep
<1>5. CASE t.loops # 1
  <2>1. PICK u : u = [t EXCEPT !.loops = IF t.loops = -1 THEN -1 ELSE t.loops - 1]
    OBVIOUS
  <2>2. /\ timer' = [timer EXCEPT ![h] = u] /\ Timers' = Timers \union {h}
        /\ DOMAIN timer' = DOMAIN timer
        /\ timer'[h] = u /\ \A g \in DOMAIN timer : g # h => timer'[g] = timer[g]
    <3>1. /\ timer' = [timer EXCEPT ![h].loops = IF @ = -1 THEN -1 ELSE @ - 1]
          /\ Timers' = Timers \union {h}
      BY <1>2, <1>5 DEF Heap!CallReturns
    <3> QED
      BY <1>1, <1>2, <2>1, <3>1
  <2>3. /\ u \in Heap!TimerRecord /\ u.next = t.next /\ u.start = t.start
        /\ u.interval = t.interval /\ u.count = t.count
        /\ u.loops = IF t.loops = -1 THEN -1 ELSE t.loops - 1
    <3>1. (IF t.loops = -1 THEN -1 ELSE t.loops - 1) \in Int
      BY <1>3
    <3> QED
      BY <1>1, <1>2, <2>1, <3>1 DEF Heap!TimerRecord
  <2>4. Heap!TypeOK'
    <3>1. busy' \in BOOLEAN
      BY <1>0 DEF HeapInv, Heap!TypeOK
    <3> QED
      BY <1>0, <1>1, <1>2, <2>2, <2>3, <3>1, HeapNumbers
         DEF HeapInv, Heap!TypeOK, Heap!TimerRecord, Heap!Loops
  <2>5. AtItsTime(t, 1, _interval, lastDue.at)
    <3>1. InCall(h) = 1
      BY <1>2 DEF InCall
    <3> QED
      BY <1>1, <1>2, <3>1 DEF HeapInv
  <2>6. AtItsTime(u, 0, _interval, lastDue.at)
    <3>1. ASSUME u.count # -1
          PROVE  /\ u.loops > 0
                 /\ u.next - u.start = (u.count - u.loops + 1 + 0) * u.interval
      <4>1. t.loops > 0 /\ t.next - t.start = (t.count - t.loops + 1 + 1) * t.interval
        BY <2>3, <2>5, <3>1 DEF AtItsTime
      <4>2. u.loops = t.loops - 1 /\ u.loops > 0
        BY <1>3, <1>5, <2>3, <4>1
      <4>3. u.count - u.loops + 1 + 0 = t.count - t.loops + 1 + 1
        BY <1>3, <2>3, <4>2
      <4> QED
        BY <2>3, <4>1, <4>2, <4>3
    <3>2. u.count = -1 => u.loops = -1
      BY <2>3, <2>5 DEF AtItsTime
    <3>3. u.next - u.interval <= _interval /\ lastDue.at <= u.next
      BY <2>3, <2>5 DEF AtItsTime
    <3> QED
      BY <3>1, <3>2, <3>3 DEF AtItsTime
  <2>7. \A g \in DOMAIN timer' : AtItsTime(timer'[g], InCall(g)', _interval', lastDue'.at)
    <3>1. ASSUME NEW g \in DOMAIN timer
          PROVE  InCall(g)' = 0 /\ (g # h => InCall(g) = 0)
      <4>1. g # NoTimer
        BY HeapNumbers DEF HeapInv, Heap!TypeOK
      <4> QED
        BY <1>0, <1>2, <4>1 DEF InCall
    <3>2. \A g \in DOMAIN timer : AtItsTime(timer[g], InCall(g), _interval, lastDue.at)
      BY DEF HeapInv
    <3> QED
      BY <1>0, <2>2, <2>6, <3>1, <3>2
  <2> QED
    BY <1>0, <1>1, <2>4, <2>7 DEF HeapInv, Heap!NotAfterRemoval
<1> QED
  BY <1>4, <1>5

(* Update() returns when the earliest timer is still to come. *)
LEMMA UpdateReturnStep == ASSUME HeapInv, Heap!UpdateReturns PROVE HeapInv'
<1>0. /\ busy /\ running = NoTimer /\ busy' = FALSE
      /\ timer' = timer /\ Timers' = Timers /\ _interval' = _interval
      /\ running' = running /\ lastDue' = lastDue
  BY DEF Heap!UpdateReturns
<1>1. DOMAIN timer = Timers /\ _interval \in Nat
  BY <1>0 DEF HeapInv, Heap!TypeOK
<1>2. \A g \in Timers : timer[g].next > _interval
  <2>1. CASE Timers = {}
    BY <2>1
  <2>2. CASE Timers # {}
    <3>1. PICK h \in Timers : /\ \A g \in Timers : timer[h].next <= timer[g].next
                              /\ ~(_interval >= timer[h].next)
      BY <2>2 DEF Heap!UpdateReturns, Heap!Front, Heap!Passed
    <3>2. \A g \in Timers : timer[g].next \in Nat
      BY <1>1, RecordParts DEF HeapInv, Heap!TypeOK
    <3> QED
      BY <1>1, <3>1, <3>2
  <2> QED
    BY <2>1, <2>2
<1>b. busy' \in BOOLEAN
  BY <1>0
<1>3. Heap!TypeOK'
  BY <1>0, <1>b DEF HeapInv, Heap!TypeOK, Heap!TimerRecord, Heap!Loops
<1>4. \A g : InCall(g)' = InCall(g)
  BY <1>0 DEF InCall
<1>5. \A g \in DOMAIN timer' : AtItsTime(timer'[g], InCall(g)', _interval', lastDue'.at)
  BY <1>0, <1>4 DEF HeapInv
<1> QED
  BY <1>0, <1>1, <1>2, <1>3, <1>5 DEF HeapInv, Heap!NotAfterRemoval

LEMMA HeapStep ==
    ASSUME HeapInv, [Heap!Next]_(Heap!vars)
    PROVE  HeapInv' /\ (lastDue' = lastDue \/ lastDue'.at >= lastDue.at)
<1>1. ASSUME NEW h \in Handle, NEW i \in Intervals, NEW n \in Heap!Loops,
             Heap!AddIntervalTimer(h, i, n)
      PROVE  HeapInv' /\ lastDue' = lastDue
  <2>1. i \in Nat \ {0} /\ i <= i /\ i \in Intervals \union {Day}
    BY HeapNumbers
  <2>2. Heap!Add(h, i, i, n)
    BY <1>1 DEF Heap!AddIntervalTimer
  <2> QED
    BY <2>1, <2>2, AddStep DEF Heap!Add
<1>2. ASSUME NEW h \in Handle, NEW a \in 1..Day, NEW n \in Heap!Loops,
             Heap!AddTriggerTimer(h, a, n)
      PROVE  HeapInv' /\ lastDue' = lastDue
  <2>1. a \in Nat \ {0} /\ a <= Day /\ Day \in Intervals \union {Day}
    BY HeapNumbers
  <2>2. Heap!Add(h, a, Day, n)
    BY <1>2 DEF Heap!AddTriggerTimer
  <2> QED
    BY <2>1, <2>2, AddStep DEF Heap!Add
<1>3. ASSUME NEW h \in Handle, Heap!RemoveTimer(h) PROVE HeapInv' /\ lastDue' = lastDue
  BY <1>3, RemoveStep DEF Heap!RemoveTimer
<1>4. ASSUME NEW d \in 0..MaxStep, Heap!UpdateBegins(d) PROVE HeapInv' /\ lastDue' = lastDue
  BY <1>4, BeginStep DEF Heap!UpdateBegins
<1>5. ASSUME NEW h \in Handle, Heap!FrontReleased(h) PROVE HeapInv' /\ lastDue' = lastDue
  <2>1. /\ busy /\ busy' = busy /\ running = NoTimer /\ running' = NoTimer /\ h \in Timers
        /\ timer' = [g \in DOMAIN timer \ {h} |-> timer[g]] /\ Timers' = Timers \ {h}
        /\ _interval' = _interval /\ lastDue' = lastDue
    BY <1>5 DEF Heap!FrontReleased, Heap!Front, Heap!Without
  <2>2. h \in DOMAIN timer
    BY <2>1 DEF HeapInv, Heap!TypeOK
  <2> QED
    BY <2>1, <2>2, GoneStep
<1>6. ASSUME Heap!CallReturns \/ Heap!UpdateReturns PROVE HeapInv' /\ lastDue' = lastDue
  BY <1>6, ReturnStep, UpdateReturnStep DEF Heap!CallReturns, Heap!UpdateReturns
<1>7. CASE UNCHANGED Heap!vars
  <2>1. /\ timer' = timer /\ Timers' = Timers /\ _interval' = _interval /\ busy' = busy
        /\ running' = running /\ lastDue' = lastDue
    BY <1>7 DEF Heap!vars
  <2>2. \A g : InCall(g)' = InCall(g)
    BY <2>1 DEF InCall
  <2>3. Heap!TypeOK' /\ Heap!NotAfterRemoval'
    BY <2>1 DEF HeapInv, Heap!TypeOK, Heap!TimerRecord, Heap!Loops, Heap!NotAfterRemoval
  <2> QED
    BY <2>1, <2>2, <2>3 DEF HeapInv
<1> QED
  BY <1>1, <1>2, <1>3, <1>4, <1>5, <1>6, <1>7, CallStep
     DEF Heap!Next, Heap!UpdateStep

LEMMA HeapKept == Heap!Spec => []HeapInv
<1>1. HeapInv /\ [Heap!Next]_(Heap!vars) => HeapInv'
  BY HeapStep
<1> QED
  BY <1>1, HeapInit, PTL DEF Heap!Spec

(* When Update() has returned, every timer has been called once for each   *)
(* of its times that has come, for any timers, intervals, loop counts and  *)
(* lengths of turns, and no timer is called after its removal.             *)
THEOREM TimersUpToDate == Heap!Spec => []TimersInv
<1>1. ASSUME HeapInv PROVE TimersInv
  <2>1. ASSUME NEW h \in Timers
        PROVE  LET t == timer[h]
                   calls == (t.next - t.start) \div t.interval - 1
               IN  /\ t.count # -1 => t.loops = t.count - calls /\ t.loops > 0
                   /\ ~busy /\ ~t.bRelease =>
                        t.next > _interval /\ t.next - t.interval <= _interval
    <3>1. PICK t : t = timer[h]
      OBVIOUS
    <3>2. h \in DOMAIN timer /\ t \in Heap!TimerRecord /\ InCall(h) = 0
      BY <1>1, <2>1, <3>1 DEF HeapInv, Heap!TypeOK, InCall
    <3>3. /\ t.start \in Int /\ t.interval \in Nat \ {0} /\ t.next \in Nat
          /\ t.loops \in Int /\ t.count \in Int
      BY <3>2, RecordParts
    <3>4. AtItsTime(t, 0, _interval, lastDue.at)
      BY <1>1, <3>1, <3>2 DEF HeapInv
    <3>5. ASSUME t.count # -1
          PROVE  t.loops = t.count - ((t.next - t.start) \div t.interval - 1)
                 /\ t.loops > 0
      <4>1. PICK k \in Int : k = t.count - t.loops + 1 + 0
        BY <3>3
      <4>2. t.loops > 0 /\ t.next - t.start = k * t.interval
        BY <3>4, <3>5, <4>1 DEF AtItsTime
      <4>3. (t.next - t.start) \div t.interval = k
        BY <3>3, <4>2, Quotient
      <4> QED
        BY <3>3, <4>1, <4>2, <4>3
    <3>6. ~busy => t.next > _interval /\ t.next - t.interval <= _interval
      BY <1>1, <3>1, <3>2, <3>4 DEF HeapInv, AtItsTime
    <3> QED
      BY <3>1, <3>5, <3>6
  <2>2. Heap!UpToDate
    BY <2>1 DEF Heap!UpToDate
  <2> QED
    BY <1>1, <2>2 DEF HeapInv, TimersInv, Heap!TimersInv
<1>2. HeapInv => TimersInv
  BY <1>1
<1> QED
  BY <1>2, HeapKept, PTL

(* Calls are made in the order of the times they are due, over all timers  *)
(* and turns, whatever callbacks add or remove.                            *)
THEOREM CalledInDueOrder == Heap!Spec => InDueOrder
<1>1. HeapInv /\ [Heap!Next]_(Heap!vars) => [lastDue'.at >= lastDue.at]_lastDue
  BY HeapStep
<1> QED
  BY <1>1, HeapKept, PTL DEF Heap!Spec, InDueOrder, Heap!InDueOrder

-----------------------------------------------------------------------------
(* What is left of the client's bytes, from the one taken last to the one  *)
(* that will be sent next, is one sequence: total_data, wire and stream    *)
(* are its parts, and every byte in it follows the byte before it, heads   *)
(* of frames apart.  All this as long as the reader is exact.              *)

(* The first and the last byte of a pack, and the byte after b in a stream *)
(* of packs of the sizes sz, with noise after pack nz.                     *)
FirstOf(p) == <<p, 0>>

BodyOf(p, sz) == IF p = 0 THEN 0 ELSE HeadLen - 1 + sz[p]

After(b, sz, nz) ==
    IF b = Web!Noise THEN <<nz + 1, 0>>
    ELSE IF b[2] < BodyOf(b[1], sz) THEN <<b[1], b[2] + 1>>
    ELSE IF b[1] = nz THEN Web!Noise ELSE <<b[1] + 1, 0>>

IsHead(x) == x[1] = -1

IsByte(b, sz, nz) ==
    \/ b[1] \in 1..Len(sz) /\ b[2] \in 0..BodyOf(b[1], sz)
    \/ nz >= 0 /\ b = Web!Noise

Neighbours(X, n, i, j) ==
    /\ i \in 1..n /\ j \in 1..n /\ i < j
    /\ ~IsHead(X[i]) /\ ~IsHead(X[j])
    /\ \A m \in i + 1..j - 1 : IsHead(X[m])

Linked(X, n, sz, nz) ==
    \A i, j \in 1..n : Neighbours(X, n, i, j) => X[j] = After(X[i], sz, nz)

At(i, last, td, a, w, b, s, c, coming) ==
    IF i = 1 THEN last
    ELSE IF i <= 1 + a THEN td[i - 1]
    ELSE IF i <= 1 + a + b THEN w[i - 1 - a]
    ELSE IF i <= 1 + a + b + c THEN s[i - 1 - a - b]
    ELSE coming

Line(last, td, w, s, coming) ==
    [i \in 1..Len(td) + Len(w) + Len(s) + 2 |->
       At(i, last, td, Len(td), w, Len(w), s, Len(s), coming)]

WebLine == Line(<<Len(packs), BodyOf(Len(packs), sizes)>>, total_data, wire,
                stream, <<Len(sizes) + 1, 0>>)
Length == Len(total_data) + Len(wire) + Len(stream) + 2

(* A wire that begins with the last "first" bytes of a frame is cut into   *)
(* whole frames.                                                           *)
FrameEnds(w, i) ==
    \/ i = Len(w)
    \/ i < Len(w) /\ IsHead(w[i + 1])

Cut(first, w) ==
    /\ first <= Len(w) /\ FrameEnds(w, first)
    /\ \A i \in 1..first : ~IsHead(w[i])
    /\ \A i \in 1..Len(w) : IsHead(w[i]) =>
         /\ w[i][2] \in 0..MaxFrame /\ i + w[i][2] <= Len(w)
         /\ FrameEnds(w, i + w[i][2])
         /\ \A m \in i + 1..i + w[i][2] : ~IsHead(w[m])

WebTypes ==
    /\ sizes \in Seq(Nat) /\ noise \in -1..Len(sizes)
    /\ \A p \in 1..Len(sizes) : sizes[p] \in 0..MaxBody
    /\ total_data \in Seq(Int \X Int) /\ wire \in Seq(Int \X Int)
    /\ stream \in Seq(Int \X Int)
    /\ packs \in Seq(Seq(Int \X Int))
    /\ stage \in {"head", "data", "packs", "broken"}
    /\ high \in Nat /\ low \in Nat

AllBytes ==
    /\ \A i \in 1..Len(total_data) : IsByte(total_data[i], sizes, noise)
    /\ \A i \in 1..Len(stream) : IsByte(stream[i], sizes, noise)
    /\ \A i \in 1..Len(wire) : IsHead(wire[i]) \/ IsByte(wire[i], sizes, noise)

First == IF stage = "data" THEN Web!datalen ELSE 0

WebInv ==
    /\ WebTypes /\ AllBytes
    /\ Linked(WebLine, Length, sizes, noise)
    /\ Cut(First, wire)
    /\ stage \in {"head", "data"} => ~Web!Unflagged /\ ~Web!Whole
    /\ Web!PacksIntact /\ Web!BrokenByNoise

-----------------------------------------------------------------------------
LEMMA FrameNumbers ==
    /\ Short \in Nat \ {0} /\ MaxPacks \in Nat /\ MaxBody \in Nat
    /\ MaxFrames \in Nat /\ MaxFrame \in Nat /\ HeadLen \in Nat \ {0}
  BY SafePartsAssumption DEF Web!FramesAssumption

LEMMA SizeOf ==
    ASSUME WebTypes, NEW p \in 1..Len(sizes)
    PROVE  /\ sizes[p] \in Nat /\ sizes[p] <= MaxBody
           /\ BodyOf(p, sizes) = HeadLen - 1 + sizes[p] /\ BodyOf(p, sizes) \in Nat
           /\ HeadLen - 1 <= BodyOf(p, sizes)
<1>1. sizes[p] \in Nat /\ sizes[p] <= MaxBody
  BY FrameNumbers DEF WebTypes
<1>2. p # 0
  OBVIOUS
<1> QED
  BY <1>1, <1>2, FrameNumbers DEF BodyOf

LEMMA ByteKind ==
    ASSUME NEW b \in Int \X Int, NEW sz, NEW nz, IsByte(b, sz, nz)
    PROVE  /\ ~IsHead(b)
           /\ \/ b = Web!Noise /\ nz >= 0
              \/ b[1] \in 0..Len(sz) /\ b[2] \in 0..BodyOf(b[1], sz)
  BY DEF IsByte, IsHead, Web!Noise

LEMMA TotalByte ==
    ASSUME WebTypes, AllBytes, NEW i \in 1..Len(total_data)
    PROVE  total_data[i] \in Int \X Int /\ IsByte(total_data[i], sizes, noise)
<1>1. total_data[i] \in Int \X Int
  BY DEF WebTypes
<1> QED
  BY <1>1 DEF AllBytes

LEMMA WireByte ==
    ASSUME WebTypes, AllBytes, NEW i \in 1..Len(wire)
    PROVE  /\ wire[i] \in Int \X Int
           /\ IsHead(wire[i]) \/ IsByte(wire[i], sizes, noise)
<1>1. wire[i] \in Int \X Int
  BY DEF WebTypes
<1> QED
  BY <1>1 DEF AllBytes

LEMMA StreamByte ==
    ASSUME WebTypes, AllBytes, NEW i \in 1..Len(stream)
    PROVE  stream[i] \in Int \X Int /\ IsByte(stream[i], sizes, noise)
<1>1. stream[i] \in Int \X Int
  BY DEF WebTypes
<1> QED
  BY <1>1 DEF AllBytes

LEMMA SmallRest == ASSUME NEW k \in Nat, NEW n \in Nat, k < n PROVE k % n = k
  OBVIOUS

(* The bytes of sequences put together and taken apart. *)
Joins(C, A, p, B, q) ==
    /\ C \in Seq(Int \X Int) /\ Len(C) = p + q
    /\ \A i \in 1..p : C[i] = A[i]
    /\ \A i \in 1..q : C[p + i] = B[i]

LEMMA PutTogether ==
    ASSUME NEW A \in Seq(Int \X Int), NEW B \in Seq(Int \X Int),
           NEW p \in Nat, NEW q \in Nat, p = Len(A), q = Len(B)
    PROVE  Joins(A \o B, A, p, B, q)
<1>1. A \o B \in Seq(Int \X Int) /\ Len(A \o B) = p + q
  OBVIOUS
<1>2. \A i \in 1..p : (A \o B)[i] = A[i]
  OBVIOUS
<1>3. ASSUME NEW i \in 1..q PROVE (A \o B)[p + i] = B[i]
  <2>1. p + i \in 1..p + q /\ p + i > p /\ p + i - p = i
    OBVIOUS
  <2> QED
    BY <2>1
<1> QED
  BY <1>1, <1>2, <1>3 DEF Joins

Splits(A, k, n, F, R) ==
    /\ F \in Seq(Int \X Int) /\ Len(F) = k
    /\ \A i \in 1..k : F[i] = A[i]
    /\ R \in Seq(Int \X Int) /\ Len(R) = n - k
    /\ \A i \in 1..n - k : R[i] = A[k + i]

LEMMA Split ==
    ASSUME NEW A \in Seq(Int \X Int), NEW n \in Nat, NEW k \in 0..n, n = Len(A)
    PROVE  Splits(A, k, n, SubSeq(A, 1, k), SubSeq(A, k + 1, n))
<1>1. k + 1 \in 1..n + 1 /\ 1 \in 1..k + 1 /\ k \in 0..n /\ n \in k..n
  OBVIOUS
<1>2. SubSeq(A, 1, k) \in Seq(Int \X Int) /\ Len(SubSeq(A, 1, k)) = k
  OBVIOUS
<1>3. \A i \in 1..k : SubSeq(A, 1, k)[i] = A[i]
  OBVIOUS
<1>4. /\ SubSeq(A, k + 1, n) \in Seq(Int \X Int)
      /\ Len(SubSeq(A, k + 1, n)) = IF k + 1 <= n THEN n - (k + 1) + 1 ELSE 0
      /\ \A i \in 1..n - (k + 1) + 1 : SubSeq(A, k + 1, n)[i] = A[k + 1 + i - 1]
  BY <1>1, SubSeqProperties
<1>5. n - (k + 1) + 1 = n - k /\ (~(k + 1 <= n) => n - k = 0)
      /\ \A i \in 1..n - k : k + 1 + i - 1 = k + i
  OBVIOUS
<1>6. /\ SubSeq(A, k + 1, n) \in Seq(Int \X Int) /\ Len(SubSeq(A, k + 1, n)) = n - k
      /\ \A i \in 1..n - k : SubSeq(A, k + 1, n)[i] = A[k + i]
  BY <1>4, <1>5
<1> QED
  BY <1>2, <1>3, <1>6 DEF Splits

LEMMA TakenApart ==
    ASSUME NEW A \in Seq(Int \X Int), NEW n \in Nat, NEW k \in 0..n, n = Len(A)
    PROVE  /\ SubSeq(A, 1, k) \in Seq(Int \X Int) /\ Len(SubSeq(A, 1, k)) = k
           /\ \A i \in 1..k : SubSeq(A, 1, k)[i] = A[i]
           /\ SubSeq(A, k + 1, n) \in Seq(Int \X Int) /\ Len(SubSeq(A, k + 1, n)) = n - k
           /\ \A i \in 1..n - k : SubSeq(A, k + 1, n)[i] = A[k + i]
  BY Split DEF Splits

(* A head of a frame put into the line, or taken out of it, links nothing  *)
(* and unlinks nothing.                                                    *)
LEMMA PutHead ==
    ASSUME NEW X, NEW Y, NEW n \in Nat, NEW h \in 1..n + 1, NEW sz, NEW nz,
           Linked(X, n, sz, nz), IsHead(Y[h]),
           \A i \in 1..n + 1 : /\ i < h => Y[i] = X[i]
                               /\ i > h => Y[i] = X[i - 1]
    PROVE  Linked(Y, n + 1, sz, nz)
<1> DEFINE d(i) == IF i < h THEN i ELSE i - 1
<1> SUFFICES ASSUME NEW i \in 1..n + 1, NEW j \in 1..n + 1,
                    Neighbours(Y, n + 1, i, j)
             PROVE  Y[j] = After(Y[i], sz, nz)
  BY DEF Linked
<1>1. i # h /\ j # h /\ i < j /\ ~IsHead(Y[i]) /\ ~IsHead(Y[j])
  BY DEF Neighbours
<1>2. d(i) \in 1..n /\ d(j) \in 1..n /\ d(i) < d(j) /\ Y[i] = X[d(i)] /\ Y[j] = X[d(j)]
  BY <1>1
<1>3. ASSUME NEW m \in d(i) + 1..d(j) - 1 PROVE IsHead(X[m])
  <2>1. CASE m < h
    <3>1. m \in i + 1..j - 1 /\ Y[m] = X[m]
      BY <1>1, <1>2, <2>1
    <3> QED
      BY <3>1 DEF Neighbours
  <2>2. CASE m >= h
    <3>1. m + 1 \in i + 1..j - 1 /\ Y[m + 1] = X[m]
      BY <1>1, <1>2, <2>2
    <3> QED
      BY <3>1 DEF Neighbours
  <2> QED
    BY <1>2, <2>1, <2>2
<1>4. Neighbours(X, n, d(i), d(j))
  BY <1>1, <1>2, <1>3 DEF Neighbours
<1> QED
  BY <1>2, <1>4 DEF Linked

LEMMA DropHead ==
    ASSUME NEW X, NEW Y, NEW n \in Nat, NEW h \in 1..n, NEW sz, NEW nz,
           Linked(X, n, sz, nz), IsHead(X[h]),
           \A i \in 1..n - 1 : /\ i < h => Y[i] = X[i]
                               /\ i >= h => Y[i] = X[i + 1]
    PROVE  Linked(Y, n - 1, sz, nz)
<1> DEFINE u(i) == IF i < h THEN i ELSE i + 1
<1> SUFFICES ASSUME NEW i \in 1..n - 1, NEW j \in 1..n - 1,
                    Neighbours(Y, n - 1, i, j)
             PROVE  Y[j] = After(Y[i], sz, nz)
  BY DEF Linked
<1>1. i < j /\ ~IsHead(Y[i]) /\ ~IsHead(Y[j])
  BY DEF Neighbours
<1>2. u(i) \in 1..n /\ u(j) \in 1..n /\ u(i) < u(j) /\ Y[i] = X[u(i)] /\ Y[j] = X[u(j)]
  BY <1>1
<1>3. ASSUME NEW m \in u(i) + 1..u(j) - 1 PROVE IsHead(X[m])
  <2>1. CASE m < h
    <3>1. m \in i + 1..j - 1 /\ Y[m] = X[m]
      BY <1>1, <1>2, <2>1
    <3> QED
      BY <3>1 DEF Neighbours
  <2>2. CASE m > h
    <3>1. m - 1 \in i + 1..j - 1 /\ Y[m - 1] = X[m]
      BY <1>1, <1>2, <2>2
    <3> QED
      BY <3>1 DEF Neighbours
  <2> QED
    BY <1>2, <2>1, <2>2
<1>4. Neighbours(X, n, u(i), u(j))
  BY <1>1, <1>2, <1>3 DEF Neighbours
<1> QED
  BY <1>2, <1>4 DEF Linked

LEMMA Behind ==
    ASSUME NEW X, NEW Y, NEW n \in Nat, NEW k \in Nat, NEW sz, NEW nz,
           k <= n, Linked(X, n, sz, nz),
           \A i \in 1..n - k : Y[i] = X[i + k]
    PROVE  Linked(Y, n - k, sz, nz)
<1> SUFFICES ASSUME NEW i \in 1..n - k, NEW j \in 1..n - k,
                    Neighbours(Y, n - k, i, j)
             PROVE  Y[j] = After(Y[i], sz, nz)
  BY DEF Linked
<1>1. i < j /\ ~IsHead(Y[i]) /\ ~IsHead(Y[j])
  BY DEF Neighbours
<1>2. ASSUME NEW m \in i + k + 1..j + k - 1 PROVE IsHead(X[m])
  <2>1. m - k \in i + 1..j - 1 /\ Y[m - k] = X[m]
    BY <1>1
  <2> QED
    BY <2>1 DEF Neighbours
<1>3. i + k \in 1..n /\ j + k \in 1..n /\ i + k < j + k
  BY <1>1
<1>4. Neighbours(X, n, i + k, j + k)
  BY <1>1, <1>2, <1>3 DEF Neighbours
<1> QED
  BY <1>3, <1>4 DEF Linked

LEMMA LineAt ==
    ASSUME NEW a \in Nat, NEW b \in Nat, NEW c \in Nat,
           NEW td, NEW w, NEW s, NEW last, NEW coming,
           Len(td) = a, Len(w) = b, Len(s) = c
    PROVE  \A i \in 1..a + b + c + 2 : Line(last, td, w, s, coming)[i]
                                        = At(i, last, td, a, w, b, s, c, coming)
  BY DEF Line

Spells(X, last, td, a, w, b, s, c, coming) ==
    \A i \in 1..a + b + c + 2 : X[i] = At(i, last, td, a, w, b, s, c, coming)

LEMMA LineSpells ==
    ASSUME NEW a \in Nat, NEW b \in Nat, NEW c \in Nat,
           NEW td, NEW w, NEW s, NEW last, NEW coming,
           Len(td) = a, Len(w) = b, Len(s) = c
    PROVE  Spells(Line(last, td, w, s, coming), last, td, a, w, b, s, c, coming)
  BY LineAt DEF Spells

LEMMA LineHere ==
    ASSUME NEW a \in Nat, NEW b \in Nat, NEW c \in Nat,
           a = Len(total_data), b = Len(wire), c = Len(stream)
    PROVE  Spells(WebLine, <<Len(packs), BodyOf(Len(packs), sizes)>>, total_data, a,
                  wire, b, stream, c, <<Len(sizes) + 1, 0>>)
  BY LineSpells DEF WebLine

(* The parts of the line. *)
LEMMA LineParts ==
    ASSUME WebTypes
    PROVE  /\ Len(total_data) \in Nat /\ Len(wire) \in Nat /\ Len(stream) \in Nat
           /\ Len(packs) \in Nat /\ Len(sizes) \in Nat /\ Length \in Nat
           /\ WebLine[1] = <<Len(packs), BodyOf(Len(packs), sizes)>>
           /\ \A i \in 1..Len(total_data) : WebLine[i + 1] = total_data[i]
           /\ \A i \in 1..Len(wire) : WebLine[i + 1 + Len(total_data)] = wire[i]
           /\ \A i \in 1..Len(stream) :
                WebLine[i + 1 + Len(total_data) + Len(wire)] = stream[i]
           /\ WebLine[Length] = <<Len(sizes) + 1, 0>>
<1>1. /\ Len(total_data) \in Nat /\ Len(wire) \in Nat /\ Len(stream) \in Nat
      /\ Len(packs) \in Nat /\ Len(sizes) \in Nat
  BY DEF WebTypes
<1> DEFINE a == Len(total_data)
           w == Len(wire)
           t == Len(stream)
<1>2. /\ DOMAIN WebLine = 1..a + w + t + 2
      /\ \A i \in 1..a + w + t + 2 : WebLine[i] =
           IF i = 1 THEN <<Len(packs), BodyOf(Len(packs), sizes)>>
           ELSE IF i <= 1 + a THEN total_data[i - 1]
           ELSE IF i <= 1 + a + w THEN wire[i - 1 - a]
           ELSE IF i <= 1 + a + w + t THEN stream[i - 1 - a - w]
           ELSE <<Len(sizes) + 1, 0>>
  BY DEF WebLine, Line, At
<1> HIDE DEF a, w, t
<1>3. a \in Nat /\ w \in Nat /\ t \in Nat
  BY <1>1 DEF a, w, t
<1>4. WebLine[1] = <<Len(packs), BodyOf(Len(packs), sizes)>>
  BY <1>2, <1>3
<1>5. \A i \in 1..a : WebLine[i + 1] = total_data[i]
  BY <1>2, <1>3
<1>6. \A i \in 1..w : WebLine[i + 1 + a] = wire[i]
  BY <1>2, <1>3
<1>7. \A i \in 1..t : WebLine[i + 1 + a + w] = stream[i]
  BY <1>2, <1>3
<1>8. Length = a + w + t + 2
  BY DEF Length, a, w, t
<1>9. WebLine[Length] = <<Len(sizes) + 1, 0>> /\ Length \in Nat
  BY <1>2, <1>3, <1>8
<1> QED
  BY <1>1, <1>4, <1>5, <1>6, <1>7, <1>9 DEF a, w, t

LEMMA LastTaken ==
    ASSUME WebInv
    PROVE  Len(packs) \in 0..Len(sizes) /\ BodyOf(Len(packs), sizes) \in Nat
<1>0. WebTypes
  BY DEF WebInv
<1>1. Len(packs) \in 0..Len(sizes)
  BY <1>0, LineParts DEF WebInv, WebTypes, Web!PacksIntact
<1>2. Len(packs) # 0 => BodyOf(Len(packs), sizes) \in Nat
  <2>1. Len(packs) # 0 => Len(packs) \in 1..Len(sizes)
    BY <1>1
  <2> QED
    BY <1>0, <2>1, SizeOf
<1> QED
  BY <1>1, <1>2, FrameNumbers DEF BodyOf

(* What stands before the last place of the line. *)
LEMMA InLine ==
    ASSUME WebInv, NEW i \in 1..Length - 1
    PROVE  /\ WebLine[i] \in Int \X Int
           /\ ~IsHead(WebLine[i]) =>
                \/ WebLine[i] = Web!Noise /\ noise >= 0
                \/ /\ WebLine[i][1] \in 0..Len(sizes)
                   /\ WebLine[i][2] \in 0..BodyOf(WebLine[i][1], sizes)
<1> DEFINE a == Len(total_data)
           w == Len(wire)
           t == Len(stream)
<1>0. WebTypes /\ AllBytes
  BY DEF WebInv
<1>1. a \in Nat /\ w \in Nat /\ t \in Nat /\ Length = a + w + t + 2
  BY <1>0, LineParts DEF Length
<1>2. CASE i = 1
  <2>1. Len(packs) \in 0..Len(sizes) /\ BodyOf(Len(packs), sizes) \in Nat
    BY LastTaken
  <2>3. WebLine[i] = <<Len(packs), BodyOf(Len(packs), sizes)>>
    BY <1>0, <1>2, LineParts
  <2> QED
    BY <2>1, <2>3
<1>3. CASE i \in 2..1 + a
  <2>1. i - 1 \in 1..a /\ WebLine[i] = total_data[i - 1]
    <3>1. i - 1 \in 1..a /\ i - 1 + 1 = i
      BY <1>1, <1>3
    <3> QED
      BY <3>1, <1>0, LineParts
  <2>2. IsByte(WebLine[i], sizes, noise) /\ WebLine[i] \in Int \X Int
    BY <2>1, <1>0, TotalByte
  <2> QED
    BY <2>2, ByteKind
<1>4. CASE i \in 2 + a..1 + a + w
  <2>1. i - 1 - a \in 1..w /\ WebLine[i] = wire[i - 1 - a]
    <3>1. i - 1 - a \in 1..w /\ (i - 1 - a) + 1 + a = i
      BY <1>1, <1>4
    <3> QED
      BY <3>1, <1>0, LineParts
  <2>2. /\ WebLine[i] \in Int \X Int
        /\ IsHead(WebLine[i]) \/ IsByte(WebLine[i], sizes, noise)
    BY <2>1, <1>0, WireByte
  <2> QED
    BY <2>2, ByteKind
<1>5. CASE i \in 2 + a + w..1 + a + w + t
  <2>1. i - 1 - a - w \in 1..t /\ WebLine[i] = stream[i - 1 - a - w]
    <3>1. i - 1 - a - w \in 1..t /\ (i - 1 - a - w) + 1 + a + w = i
      BY <1>1, <1>5
    <3> QED
      BY <3>1, <1>0, LineParts
  <2>2. IsByte(WebLine[i], sizes, noise) /\ WebLine[i] \in Int \X Int
    BY <2>1, <1>0, StreamByte
  <2> QED
    BY <2>2, ByteKind
<1>6. i = 1 \/ i \in 2..1 + a \/ i \in 2 + a..1 + a + w \/ i \in 2 + a + w..1 + a + w + t
  <2> HIDE DEF a, w, t
  <2> QED
    BY <1>1
<1> QED
  BY <1>2, <1>3, <1>4, <1>5, <1>6

-----------------------------------------------------------------------------
(* In front of total_data is the byte after the pack taken last. *)
LEMMA FrontByte ==
    ASSUME WebInv, total_data # <<>>
    PROVE  /\ 1 \in 1..Len(total_data)
           /\ total_data[1] = IF noise = Len(packs) THEN Web!Noise
                              ELSE FirstOf(Len(packs) + 1)
<1>0. WebTypes /\ AllBytes
  BY DEF WebInv
<1>1. 1 \in 1..Len(total_data)
  BY <1>0 DEF WebTypes
<1>2. WebLine[1] = <<Len(packs), BodyOf(Len(packs), sizes)>> /\ WebLine[2] = total_data[1]
  <2>1. 1 + 1 = 2
    OBVIOUS
  <2> QED
    BY <1>0, <1>1, <2>1, LineParts
<1>3. Length \in Nat /\ Length > 2 /\ Len(packs) \in Nat
  BY <1>0, <1>1, LineParts DEF Length
<1>4. ~IsHead(WebLine[1]) /\ ~IsHead(WebLine[2])
  BY <1>0, <1>1, <1>2, <1>3 DEF AllBytes, IsByte, IsHead, Web!Noise
<1>5. Neighbours(WebLine, Length, 1, 2)
  BY <1>3, <1>4 DEF Neighbours
<1>6. WebLine[2] = After(WebLine[1], sizes, noise)
  BY <1>3, <1>5 DEF WebInv, Linked
<1>7. WebLine[1] # Web!Noise
  BY <1>2 DEF Web!Noise, BodyOf
<1> QED
  BY <1>1, <1>2, <1>6, <1>7, LastTaken DEF After, FirstOf

(* The bytes of total_data follow each other. *)
LEMMA NextByte ==
    ASSUME WebInv, NEW i \in 1..Len(total_data) - 1
    PROVE  total_data[i + 1] = After(total_data[i], sizes, noise)
<1>0. WebTypes /\ AllBytes
  BY DEF WebInv
<1>1. i \in 1..Len(total_data) /\ i + 1 \in 1..Len(total_data) /\ i + 1 + 1 = i + 2
  BY <1>0 DEF WebTypes
<1>2. WebLine[i + 1] = total_data[i] /\ WebLine[i + 2] = total_data[i + 1]
  BY <1>0, <1>1, LineParts
<1>3. Length \in Nat /\ Length > i + 2
  BY <1>0, <1>1, LineParts DEF Length
<1>4. ~IsHead(WebLine[i + 1]) /\ ~IsHead(WebLine[i + 2])
  <2>1. ~IsHead(total_data[i]) /\ ~IsHead(total_data[i + 1])
    BY <1>0, <1>1, TotalByte, ByteKind
  <2> QED
    BY <1>2, <2>1
<1>5. Neighbours(WebLine, Length, i + 1, i + 2)
  BY <1>1, <1>3, <1>4 DEF Neighbours
<1>6. i + 1 \in 1..Length /\ i + 2 \in 1..Length
  BY <1>1, <1>3
<1> QED
  BY <1>2, <1>5, <1>6 DEF WebInv, Linked

LEMMA LeastExists ==
    ASSUME NEW S \in SUBSET Nat, S # {}
    PROVE  \E m \in S : \A x \in S : m <= x
<1> DEFINE R == OpToRel(<, Nat)
<1>1. IsWellFoundedOn(R, Nat)
  BY NatLessThanWellFounded
<1>2. PICK m \in S : \A x \in S : <<x, m>> \notin R
  <2> HIDE DEF R
  <2> QED
    BY <1>1, WFMin
<1>3. ASSUME NEW x \in S PROVE m <= x
  <2>1. ~(x < m)
    BY <1>2 DEF OpToRel
  <2> QED
    BY <2>1
<1> QED
  BY <1>3

(* A head in total_data is followed by the bytes of its pack. *)
LEMMA PackFollows ==
    ASSUME WebInv, NEW p \in 1..Len(sizes), NEW o \in Nat, o < Len(total_data),
           total_data[o + 1] = FirstOf(p)
    PROVE  \A n \in 0..BodyOf(p, sizes) :
             o + n < Len(total_data) => total_data[o + n + 1] = <<p, n>>
<1>a. WebTypes
  BY DEF WebInv
<1>0. PICK z \in Nat, a \in Nat : z = BodyOf(p, sizes) /\ a = Len(total_data)
  BY <1>a, SizeOf, LineParts
<1> DEFINE Bad == {n \in Nat : n <= z /\ o + n < a /\ total_data[o + n + 1] # <<p, n>>}
<1>1. SUFFICES ASSUME Bad # {} PROVE FALSE
  BY <1>0, SMTT(30)
<1>2. PICK m \in Bad : \A x \in Bad : m <= x
  <2>1. Bad \in SUBSET Nat
    OBVIOUS
  <2> HIDE DEF Bad
  <2> QED
    BY <1>1, <2>1, LeastExists
<1>3. m # 0
  <2>1. o + 0 + 1 = o + 1
    OBVIOUS
  <2> QED
    BY <1>2, <2>1 DEF FirstOf
<1>4. m - 1 \in Nat /\ ~(m <= m - 1) /\ m - 1 <= z /\ o + (m - 1) < a
      /\ o + (m - 1) + 1 = o + m /\ o + m \in 1..a - 1
  BY <1>2, <1>3
<1>5. total_data[o + m] = <<p, m - 1>>
  BY <1>2, <1>4
<1>6. total_data[o + m + 1] = After(<<p, m - 1>>, sizes, noise)
  BY <1>0, <1>4, <1>5, NextByte
<1>7. After(<<p, m - 1>>, sizes, noise) = <<p, m>>
  BY <1>0, <1>2, <1>4 DEF After, Web!Noise
<1> QED
  BY <1>2, <1>6, <1>7

LEMMA PackInFront ==
    ASSUME WebInv, NEW p \in 1..Len(sizes), total_data # <<>>,
           total_data[1] = FirstOf(p)
    PROVE  \A n \in 0..BodyOf(p, sizes) :
             n < Len(total_data) => total_data[n + 1] = <<p, n>>
<1>1. WebTypes
  BY DEF WebInv
<1>2. 0 \in Nat /\ 0 < Len(total_data) /\ total_data[0 + 1] = FirstOf(p)
  BY <1>1 DEF WebTypes
<1>3. \A n \in 0..BodyOf(p, sizes) :
        0 + n < Len(total_data) => total_data[0 + n + 1] = <<p, n>>
  BY <1>2, PackFollows
<1>4. BodyOf(p, sizes) \in Nat
  BY <1>1, SizeOf
<1>5. \A n \in 0..BodyOf(p, sizes) : 0 + n = n
  BY <1>4
<1> QED
  BY <1>3, <1>5

(* What is in front of total_data: noise, or the head of the next pack. *)
LEMMA FrontHead ==
    ASSUME WebInv, total_data # <<>>, noise # Len(packs)
    PROVE  /\ total_data[1] = FirstOf(Len(packs) + 1)
           /\ Len(packs) + 1 \in 1..Len(sizes)
<1>0. WebTypes /\ AllBytes
  BY DEF WebInv
<1>1. /\ 1 \in 1..Len(total_data) /\ total_data[1] = <<Len(packs) + 1, 0>>
      /\ Len(packs) \in Nat /\ Len(sizes) \in Nat
  BY <1>0, FrontByte, LineParts DEF FirstOf
<1>2. total_data[1][1] = Len(packs) + 1 /\ total_data[1] # <<0, 1>>
  BY <1>1
<1>3. IsByte(total_data[1], sizes, noise)
  BY <1>1, <1>0 DEF AllBytes
<1>4. Len(packs) + 1 \in 1..Len(sizes)
  BY <1>2, <1>3 DEF IsByte, Web!Noise
<1> QED
  BY <1>1, <1>4 DEF FirstOf

LEMMA FrontKind ==
    ASSUME WebInv, Len(total_data) >= HeadLen
    PROVE  /\ Web!Unflagged <=> noise = Len(packs)
           /\ noise # Len(packs) =>
                /\ total_data # <<>> /\ total_data[1] = FirstOf(Len(packs) + 1)
                /\ total_data[HeadLen][1] = Len(packs) + 1
                /\ Len(packs) + 1 \in 1..Len(sizes)
<1>0. WebTypes /\ AllBytes
  BY DEF WebInv
<1>e. total_data # <<>>
  BY <1>0, FrameNumbers DEF WebTypes
<1>1. CASE noise = Len(packs)
  <2>1. total_data[1] = <<0, 1>>
    BY <1>1, <1>e, FrontByte DEF Web!Noise
  <2>2. total_data[1][1] = 0
    BY <2>1
  <2>3. ~Web!Flagged
    BY <2>2 DEF Web!Flagged
  <2> QED
    BY <1>1, <2>3 DEF Web!Unflagged
<1>2. CASE noise # Len(packs)
  <2>1. PICK p \in 1..Len(sizes) : p = Len(packs) + 1 /\ total_data[1] = FirstOf(p)
    BY <1>2, <1>e, FrontHead
  <2>2. /\ HeadLen - 1 \in 0..BodyOf(p, sizes) /\ HeadLen - 1 < Len(total_data)
        /\ (HeadLen - 1) + 1 = HeadLen
    <3>1. /\ HeadLen \in Nat \ {0} /\ BodyOf(p, sizes) \in Nat
          /\ HeadLen - 1 <= BodyOf(p, sizes) /\ Len(total_data) \in Nat
      BY <1>0, SizeOf, FrameNumbers DEF WebTypes
    <3> QED
      BY <3>1
  <2>3. total_data[HeadLen] = <<p, HeadLen - 1>>
    BY <1>e, <2>1, <2>2, PackInFront
  <2>4. /\ total_data[1][1] = p /\ total_data[1][2] = 0
        /\ total_data[HeadLen][1] = p /\ total_data[HeadLen][2] = HeadLen - 1 /\ p > 0
    BY <2>1, <2>3 DEF FirstOf
  <2>5. Web!Flagged
    BY <2>4 DEF Web!Flagged
  <2> QED
    BY <1>2, <1>e, <2>1, <2>4, <2>5 DEF Web!Unflagged
<1> QED
  BY <1>1, <1>2

-----------------------------------------------------------------------------
LEMMA WebInit == Web!Init => WebInv
<1> SUFFICES ASSUME Web!Init PROVE WebInv
  OBVIOUS
<1>1. /\ sizes = <<>> /\ stream = <<>> /\ noise = -1 /\ wire = <<>>
      /\ stage = "head" /\ low = 0 /\ high = 0
      /\ total_data = <<>> /\ packs = <<>>
  BY DEF Web!Init
<1>2. WebTypes /\ AllBytes
  BY <1>1, FrameNumbers DEF WebTypes, AllBytes
<1>3. /\ Length = 2 /\ WebLine[1] = <<0, 0>> /\ WebLine[2] = <<1, 0>>
  BY <1>1, <1>2, LineParts DEF Length, BodyOf
<1>4. Linked(WebLine, Length, sizes, noise)
  <2> SUFFICES ASSUME NEW i \in 1..2, NEW j \in 1..2, i < j
               PROVE  WebLine[j] = After(WebLine[i], sizes, noise)
    BY <1>3 DEF Linked, Neighbours
  <2>1. i = 1 /\ j = 2
    OBVIOUS
  <2>2. After(<<0, 0>>, sizes, noise) = <<1, 0>>
    BY <1>1 DEF After, BodyOf, Web!Noise
  <2> QED
    BY <1>3, <2>1, <2>2
<1>5. Cut(First, wire)
  BY <1>1 DEF Cut, First, FrameEnds
<1>6. ~Web!Unflagged /\ ~Web!Whole /\ Web!PacksIntact /\ Web!BrokenByNoise
  BY <1>1, FrameNumbers DEF Web!Unflagged, Web!Whole, Web!PacksIntact, Web!BrokenByNoise
<1> QED
  BY <1>2, <1>4, <1>5, <1>6 DEF WebInv

LEMMA SendPackStep ==
    ASSUME WebInv, NEW n \in 0..MaxBody, Web!SendPack(n)
    PROVE  WebInv'
<1>t. WebTypes /\ AllBytes
  BY DEF WebInv
<1>0. /\ sizes' = Append(sizes, n)
      /\ stream' = stream \o Web!Bytes(Len(sizes) + 1, n)
      /\ noise' = noise /\ wire' = wire /\ stage' = stage /\ low' = low
      /\ high' = high /\ total_data' = total_data /\ packs' = packs
  BY DEF Web!SendPack
<1>l. /\ Len(total_data) \in Nat /\ Len(wire) \in Nat /\ Len(stream) \in Nat
      /\ Len(packs) \in Nat /\ Len(sizes) \in Nat /\ Length \in Nat
  BY <1>t, LineParts
<1>p. PICK S \in Nat : S = Len(sizes)
  BY <1>l
<1>s. PICK t \in Nat : t = Len(stream)
  BY <1>l
<1>n. n \in Nat /\ n <= MaxBody
  BY FrameNumbers
<1>1. /\ sizes' \in Seq(Nat) /\ Len(sizes') = S + 1
      /\ \A p \in 1..S : sizes'[p] = sizes[p]
      /\ sizes'[S + 1] = n
  BY <1>0, <1>p, <1>n, <1>t DEF WebTypes
<1>N. PICK N \in Nat : N = HeadLen - 1 + n /\ N + 1 = HeadLen + n
  BY <1>n, FrameNumbers
<1>e. BodyOf(S + 1, sizes') = N
  BY <1>N, <1>1 DEF BodyOf
<1>b. PICK B \in Seq(Int \X Int) : /\ B = Web!Bytes(S + 1, n) /\ Len(B) = N + 1
                                   /\ \A i \in 1..N + 1 : B[i] = <<S + 1, i - 1>>
  <2> DEFINE C == [i \in 1..N + 1 |-> <<S + 1, i - 1>>]
  <2>1. C \in Seq(Int \X Int) /\ Len(C) = N + 1
    BY <1>N
  <2>2. \A i \in 1..N + 1 : C[i] = <<S + 1, i - 1>>
    OBVIOUS
  <2>3. C = Web!Bytes(S + 1, n)
    BY <1>N DEF Web!Bytes
  <2> QED
    BY <2>1, <2>2, <2>3
<1>2. /\ stream' \in Seq(Int \X Int) /\ Len(stream') = Len(stream) + N + 1
      /\ \A i \in 1..Len(stream) : stream'[i] = stream[i]
      /\ \A i \in 1..N + 1 : stream'[Len(stream) + i] = <<S + 1, i - 1>>
  <2>1. stream \in Seq(Int \X Int) /\ stream' = stream \o B
    BY <1>0, <1>p, <1>b, <1>t DEF WebTypes
  <2>5. Len(stream') = Len(stream) + Len(B) /\ stream' \in Seq(Int \X Int)
    BY <2>1
  <2>6. Len(B) = N + 1
    BY <1>b
  <2>2. stream' \in Seq(Int \X Int) /\ Len(stream') = Len(stream) + N + 1
    BY <2>5, <2>6, <1>N, <1>l
  <2>3. \A i \in 1..Len(stream) : stream'[i] = stream[i]
    BY <2>1, <1>b, <1>N
  <2>4. \A i \in 1..N + 1 : stream'[Len(stream) + i] = B[i]
    <3>1. Joins(stream \o B, stream, t, B, N + 1)
      BY <2>1, <1>s, <1>b, <1>N, PutTogether
    <3> QED
      BY <3>1, <2>1, <1>s DEF Joins
  <2> QED
    BY <2>2, <2>3, <2>4, <1>b
<1>u. Len(stream') = Len(stream) + N + 1
  BY <1>2
<1>3. WebTypes'
  <2>1. ASSUME NEW p \in 1..S + 1 PROVE sizes'[p] \in 0..MaxBody
    <3>1. \A q \in 1..S : sizes[q] \in 0..MaxBody
      BY <1>p, <1>t DEF WebTypes
    <3>2. p \in 1..S \/ p = S + 1
      OBVIOUS
    <3> QED
      BY <1>1, <3>1, <3>2
  <2> QED
    <3>1. noise \in -1..S /\ noise' \in -1..S + 1
      BY <1>0, <1>p, <1>t DEF WebTypes
    <3>2. stream' \in Seq(Int \X Int) /\ sizes' \in Seq(Nat) /\ Len(sizes') = S + 1
      BY <1>1, <1>2
    <3> QED
      BY <1>0, <1>t, <2>1, <3>1, <3>2 DEF WebTypes
<1>4. AllBytes'
  <2>1. \A b : IsByte(b, sizes, noise) => IsByte(b, sizes', noise')
    BY <1>0, <1>1, <1>p DEF IsByte, BodyOf
  <2>2. ASSUME NEW i \in 1..Len(stream') PROVE IsByte(stream'[i], sizes', noise')
    <3>1. CASE i <= Len(stream)
      BY <3>1, <1>2, <1>t, <1>l, <2>1 DEF AllBytes
    <3>2. CASE i > Len(stream)
      <4>1. i - Len(stream) \in 1..N + 1 /\ Len(stream) + (i - Len(stream)) = i
        BY <3>2, <1>u, <1>l, <1>N, SMTT(30)
      <4>2. stream'[i] = <<S + 1, i - Len(stream) - 1>>
        BY <4>1, <1>2
      <4> QED
        <5>0. PICK x \in 1..N + 1 : x = i - Len(stream)
          BY <4>1
        <5>1. PICK k \in 0..N : k = i - Len(stream) - 1
          <6>1. x - 1 \in 0..N
            BY <1>N
          <6> QED
            BY <5>0, <6>1
        <5>2. stream'[i] = <<S + 1, k>> /\ S + 1 \in 1..Len(sizes') /\ BodyOf(S + 1, sizes') = N
          BY <4>2, <5>1, <1>1, <1>e
        <5> QED
          BY <5>2 DEF IsByte
    <3> QED
      BY <3>1, <3>2, <1>l
  <2> QED
    BY <1>0, <1>t, <2>1, <2>2 DEF AllBytes
<1>5. /\ Length' = Length + N + 1
      /\ \A i \in 1..Length : WebLine'[i] = WebLine[i]
      /\ \A k \in 0..N : WebLine'[Length + k] = <<S + 1, k>>
      /\ WebLine'[Length + N + 1] = <<S + 2, 0>>
  <2>0. PICK a \in Nat, w \in Nat :
          a = Len(total_data) /\ w = Len(wire) /\ t = Len(stream)
    BY <1>l, <1>s
  <2>1. BodyOf(Len(packs), sizes') = BodyOf(Len(packs), sizes)
    BY <1>1, <1>p, LastTaken DEF BodyOf
  <2>2. WebLine' = Line(<<Len(packs), BodyOf(Len(packs), sizes)>>, total_data, wire,
                        stream', <<S + 2, 0>>)
    <3>1. Len(sizes') + 1 = S + 2
      BY <1>1
    <3> QED
      BY <2>1, <3>1, <1>0 DEF WebLine
  <2>3. t + N + 1 \in Nat /\ Len(stream') = t + N + 1
    BY <1>u, <1>N, <2>0
  <2> DEFINE last == <<Len(packs), BodyOf(Len(packs), sizes)>>
  <2>4. \A i \in 1..a + w + (t + N + 1) + 2 : WebLine'[i]
          = At(i, last, total_data, a, wire, w, stream', t + N + 1, <<S + 2, 0>>)
    <3>1. Spells(Line(last, total_data, wire, stream', <<S + 2, 0>>), last, total_data, a,
                 wire, w, stream', t + N + 1, <<S + 2, 0>>)
      BY <2>0, <2>3, LineSpells
    <3> QED
      BY <3>1, <2>2 DEF Spells
  <2>5. \A i \in 1..a + w + t + 2 : WebLine[i]
          = At(i, last, total_data, a, wire, w, stream, t, <<S + 1, 0>>)
    <3>1. Spells(WebLine, <<Len(packs), BodyOf(Len(packs), sizes)>>, total_data, a,
                 wire, w, stream, t, <<Len(sizes) + 1, 0>>)
      BY <2>0, LineHere
    <3> QED
      BY <3>1, <1>p DEF Spells
  <2> HIDE DEF last
  <2>6. Length = a + w + t + 2 /\ Length' = Length + N + 1
    <3>1. Length = a + w + t + 2
      BY <2>0 DEF Length
    <3>2. Length' = a + w + (t + N + 1) + 2
      BY <1>0, <2>0, <2>3 DEF Length
    <3> QED
      BY <3>1, <3>2, <1>N, SMTT(30)
  <2>8. ASSUME NEW k \in 0..N PROVE WebLine'[Length + k] = <<S + 1, k>>
    <3>1. Length + k \in 1..a + w + (t + N + 1) + 2 /\ k + 1 \in 1..N + 1
          /\ t + (k + 1) = (Length + k) - 1 - a - w /\ (k + 1) - 1 = k
      BY <2>6, <1>N, SMTT(30)
    <3>2. WebLine'[Length + k] = stream'[(Length + k) - 1 - a - w]
      <4>1. WebLine'[Length + k] = At(Length + k, last, total_data, a, wire, w, stream',
                                      t + N + 1, <<S + 2, 0>>)
        BY <3>1, <2>4
      <4>2. /\ Length + k # 1 /\ ~(Length + k <= 1 + a) /\ ~(Length + k <= 1 + a + w)
            /\ Length + k <= 1 + a + w + (t + N + 1)
        BY <2>6
      <4> QED
        BY <4>1, <4>2 DEF At
    <3>3. stream'[t + (k + 1)] = <<S + 1, (k + 1) - 1>>
      BY <3>1, <1>2, <2>0
    <3> QED
      BY <3>1, <3>2, <3>3
  <2>9. ASSUME NEW i \in 1..Length PROVE WebLine'[i] = WebLine[i]
    <3>1. CASE i = Length
      <4>1. 0 \in 0..N /\ Length + 0 = Length
        BY <1>N, <1>l
      <4>2. WebLine'[Length + 0] = <<S + 1, 0>>
        BY <4>1, <2>8
      <4>3. WebLine[Length] = <<S + 1, 0>>
        BY <1>t, <1>p, LineParts
      <4> QED
        BY <3>1, <4>1, <4>2, <4>3
    <3>2. CASE i # Length
      <4>1. i \in 1..a + w + t + 2 /\ i \in 1..a + w + (t + N + 1) + 2
            /\ i <= 1 + a + w + t /\ i <= 1 + a + w + (t + N + 1)
        BY <3>2, <2>6, <1>N, SMTT(30)
      <4>2. ~(i <= 1 + a + w) => i - 1 - a - w \in 1..t
        BY <4>1
      <4>3. i - 1 - a - w \in 1..t => stream'[i - 1 - a - w] = stream[i - 1 - a - w]
        BY <1>2, <2>0
      <4>4. /\ WebLine'[i] = At(i, last, total_data, a, wire, w, stream', t + N + 1,
                               <<S + 2, 0>>)
            /\ WebLine[i] = At(i, last, total_data, a, wire, w, stream, t,
                              <<S + 1, 0>>)
        BY <4>1, <2>4, <2>5
      <4>5. CASE i <= 1 + a + w
        BY <4>4, <4>5 DEF At
      <4>6. CASE ~(i <= 1 + a + w)
        <5>1. i # 1 /\ ~(i <= 1 + a)
          BY <4>6
        <5>2. WebLine'[i] = stream'[i - 1 - a - w] /\ WebLine[i] = stream[i - 1 - a - w]
          BY <4>1, <4>4, <4>6, <5>1 DEF At
        <5> QED
          BY <4>2, <4>3, <4>6, <5>2
      <4> QED
        BY <4>5, <4>6
    <3> QED
      BY <3>1, <3>2
  <2>10. WebLine'[Length + N + 1] = <<S + 2, 0>>
    <3>1. a + w + (t + N + 1) + 2 = Length + N + 1
          /\ Length + N + 1 \in 1..a + w + (t + N + 1) + 2
      BY <2>6, <1>N, SMTT(30)
    <3>2. WebLine'[Length + N + 1] = At(Length + N + 1, last, total_data, a, wire, w,
                                        stream', t + N + 1, <<S + 2, 0>>)
      BY <3>1, <2>4
    <3>3. /\ Length + N + 1 # 1 /\ ~(Length + N + 1 <= 1 + a)
          /\ ~(Length + N + 1 <= 1 + a + w)
          /\ ~(Length + N + 1 <= 1 + a + w + (t + N + 1))
      BY <2>6, <1>N, SMTT(30)
    <3> QED
      BY <3>2, <3>3 DEF At
  <2> QED
    BY <2>6, <2>8, <2>9, <2>10
<1>6. Linked(WebLine, Length, sizes, noise)'
  <2> SUFFICES ASSUME NEW i \in 1..Length', NEW j \in 1..Length',
                      Neighbours(WebLine', Length', i, j)
               PROVE  WebLine'[j] = After(WebLine'[i], sizes', noise')
    BY DEF Linked
  <2>1. i < j /\ ~IsHead(WebLine'[i]) /\ ~IsHead(WebLine'[j])
    BY DEF Neighbours
  <2>a. PICK L \in Nat : L = Length /\ Length' = L + N + 1
    BY <1>l, <1>5
  <2>b. i \in 1..L + N + 1 /\ j \in 1..L + N + 1 /\ i < j
    BY <2>a, <2>1
  <2>2. CASE j <= Length
    <3>1. i \in 1..Length /\ j \in 1..Length /\ i \in 1..Length - 1
      <4>1. i \in 1..L /\ j \in 1..L /\ i \in 1..L - 1
        BY <2>2, <2>a, <2>b, <1>N
      <4> QED
        BY <4>1, <2>a
    <3>2. \A m \in i + 1..j - 1 : m \in 1..Length
      BY <3>1, <1>l
    <3>3. Neighbours(WebLine, Length, i, j)
      BY <3>1, <3>2, <2>1, <1>5 DEF Neighbours
    <3>4. WebLine[j] = After(WebLine[i], sizes, noise)
      BY <3>1, <3>3 DEF WebInv, Linked
    <3>5. ~IsHead(WebLine[i]) /\ WebLine'[i] = WebLine[i] /\ WebLine'[j] = WebLine[j]
      BY <2>1, <3>1, <1>5
    <3>6. After(WebLine[i], sizes', noise') = After(WebLine[i], sizes, noise)
      <4>1. \/ WebLine[i] = Web!Noise
            \/ WebLine[i][1] \in 0..Len(sizes)
        BY <3>1, <3>5, InLine
      <4>2. WebLine[i][1] \in 0..Len(sizes) =>
              BodyOf(WebLine[i][1], sizes') = BodyOf(WebLine[i][1], sizes)
        <5>1. \A q \in 0..S : q # 0 => q \in 1..S
          OBVIOUS
        <5>2. \A q \in 0..S : BodyOf(q, sizes') = BodyOf(q, sizes)
          BY <5>1, <1>1 DEF BodyOf
        <5> QED
          BY <5>2, <1>p
      <4> QED
        BY <4>1, <4>2, <1>0 DEF After
    <3> QED
      BY <3>4, <3>5, <3>6
  <2>3. CASE j > Length
    <3>1. PICK k \in 0..N : k = j - 1 - Length
      <4>1. j - 1 - L \in 0..N
        BY <2>3, <2>a, <2>b
      <4> QED
        BY <4>1, <2>a
    <3>2. WebLine'[j - 1] = <<S + 1, k>>
      <4>1. j - 1 = Length + k
        BY <3>1, <1>l, <1>5
      <4> QED
        BY <4>1, <1>5
    <3>3. i = j - 1
      <4>1. ~IsHead(WebLine'[j - 1])
        BY <3>2 DEF IsHead
      <4>2. i # j - 1 => j - 1 \in i + 1..j - 1
        BY <2>b, <1>N
      <4> QED
        BY <4>1, <4>2 DEF Neighbours
    <3>4. noise # S + 1 /\ noise' = noise
      BY <1>0, <1>p, <1>t DEF WebTypes
    <3>5. CASE k = N
      <4>1. WebLine'[j] = <<S + 2, 0>>
        <5>1. j = Length + N + 1
          BY <3>5, <3>1, <1>l, <1>5
        <5> QED
          BY <5>1, <1>5
      <4>2. After(<<S + 1, N>>, sizes', noise') = <<S + 2, 0>>
        BY <1>e, <3>4 DEF After, Web!Noise
      <4> QED
        BY <4>1, <4>2, <3>2, <3>3, <3>5
    <3>6. CASE k < N
      <4>1. WebLine'[j] = <<S + 1, k + 1>>
        <5>1. j = Length + (k + 1) /\ k + 1 \in 0..N
          BY <3>6, <3>1, <1>l, <1>5
        <5> QED
          BY <5>1, <1>5
      <4>2. After(<<S + 1, k>>, sizes', noise') = <<S + 1, k + 1>>
        BY <1>e, <3>6, <3>4 DEF After, Web!Noise
      <4> QED
        BY <4>1, <4>2, <3>2, <3>3
    <3> QED
      BY <3>5, <3>6, <1>N
  <2> QED
    BY <2>2, <2>3, <1>l, <1>5
<1>7. Cut(First, wire)'
  BY <1>0 DEF WebInv, Cut, First, FrameEnds, Web!datalen
<1>8. stage' \in {"head", "data"} => ~Web!Unflagged' /\ ~Web!Whole'
  <2> SUFFICES ASSUME stage \in {"head", "data"} PROVE ~Web!Unflagged' /\ ~Web!Whole'
    BY <1>0
  <2>1. ~Web!Unflagged /\ ~Web!Whole
    BY DEF WebInv
  <2>2. ~Web!Unflagged'
    BY <2>1, <1>0 DEF Web!Unflagged, Web!Flagged
  <2>3. Len(total_data) >= HeadLen =>
          sizes'[total_data[HeadLen][1]] = sizes[total_data[HeadLen][1]]
    BY <2>1, FrontKind, <1>1, <1>p
  <2> QED
    BY <2>1, <2>2, <2>3, <1>0 DEF Web!Whole, Web!Flagged, Web!datasize
<1>9. Web!PacksIntact' /\ Web!BrokenByNoise'
  <2>1. Web!PacksIntact /\ Web!BrokenByNoise
    BY DEF WebInv
  <2>2. \A p \in DOMAIN packs : p \in 1..S
    <3>1. Len(packs) \in 0..S
      BY <1>p, LastTaken
    <3>2. DOMAIN packs = 1..Len(packs)
      BY <1>t DEF WebTypes
    <3> QED
      BY <3>1, <3>2
  <2>3. \A p \in DOMAIN packs : sizes'[p] = sizes[p]
    BY <1>1, <2>2
  <2>4. Len(packs') <= IF noise' >= 0 THEN noise' ELSE Len(sizes')
    <3>1. Len(packs) <= IF noise >= 0 THEN noise ELSE S
      BY <2>1, <1>p DEF Web!PacksIntact
    <3>2. Len(packs) \in Nat /\ noise' = noise /\ packs' = packs /\ Len(sizes') = S + 1
      BY <1>0, <1>1, <1>l
    <3> QED
      BY <3>1, <3>2
  <2>5. Web!PacksIntact'
    BY <2>1, <2>3, <2>4, <1>0 DEF Web!PacksIntact
  <2> QED
    BY <2>1, <2>5, <1>0 DEF Web!BrokenByNoise
<1> QED
  BY <1>3, <1>4, <1>6, <1>7, <1>8, <1>9 DEF WebInv

LEMMA SendNoiseStep == ASSUME WebInv, Web!SendNoise PROVE WebInv'
<1>t. WebTypes /\ AllBytes
  BY DEF WebInv
<1>0. /\ noise = -1 /\ noise' = Len(sizes) /\ stream' = Append(stream, Web!Noise)
      /\ sizes' = sizes /\ wire' = wire /\ stage' = stage /\ low' = low
      /\ high' = high /\ total_data' = total_data /\ packs' = packs
  BY DEF Web!SendNoise
<1>l. /\ Len(total_data) \in Nat /\ Len(wire) \in Nat /\ Len(stream) \in Nat
      /\ Len(packs) \in Nat /\ Len(sizes) \in Nat /\ Length \in Nat
  BY <1>t, LineParts
<1>p. PICK a \in Nat, w \in Nat, t \in Nat, S \in Nat :
        a = Len(total_data) /\ w = Len(wire) /\ t = Len(stream) /\ S = Len(sizes)
  BY <1>l
<1>2. /\ stream' \in Seq(Int \X Int) /\ Len(stream') = t + 1
      /\ \A i \in 1..t : stream'[i] = stream[i]
      /\ stream'[t + 1] = Web!Noise
  <2>1. stream \in Seq(Int \X Int) /\ Web!Noise \in Int \X Int
    BY <1>t DEF WebTypes, Web!Noise
  <2> QED
    BY <1>0, <1>p, <2>1
<1>3. WebTypes'
  <2>1. noise' \in -1..Len(sizes')
    BY <1>0, <1>l
  <2> QED
    BY <1>0, <1>2, <1>t, <2>1 DEF WebTypes
<1>4. AllBytes'
  <2>1. \A b : IsByte(b, sizes, noise) => IsByte(b, sizes', noise')
    BY <1>0, <1>l DEF IsByte
  <2>2. IsByte(Web!Noise, sizes', noise')
    BY <1>0, <1>l DEF IsByte
  <2>3. ASSUME NEW i \in 1..t + 1 PROVE IsByte(stream'[i], sizes', noise')
    <3>1. i \in 1..t \/ i = t + 1
      OBVIOUS
    <3> QED
      BY <3>1, <1>2, <1>p, <1>t, <2>1, <2>2 DEF AllBytes
  <2> QED
    BY <1>0, <1>2, <1>t, <2>1, <2>3 DEF AllBytes
<1>5. Length = a + w + t + 2 /\ Length' = Length + 1
  <2>1. Length = a + w + t + 2
    BY <1>p DEF Length
  <2>2. Length' = a + w + (t + 1) + 2
    BY <1>0, <1>2, <1>p DEF Length
  <2> QED
    BY <2>1, <2>2
<1> DEFINE last == <<Len(packs), BodyOf(Len(packs), sizes)>>
<1>6. \A i \in 1..a + w + (t + 1) + 2 : WebLine'[i]
        = At(i, last, total_data, a, wire, w, stream', t + 1, <<S + 1, 0>>)
  <2>1. WebLine' = Line(last, total_data, wire, stream', <<S + 1, 0>>)
    BY <1>0, <1>p DEF WebLine
  <2>2. t + 1 \in Nat /\ Len(stream') = t + 1
    BY <1>2
  <2> QED
    <3>1. Spells(Line(last, total_data, wire, stream', <<S + 1, 0>>), last, total_data, a,
                 wire, w, stream', t + 1, <<S + 1, 0>>)
      BY <1>p, <2>2, LineSpells
    <3> QED
      BY <3>1, <2>1 DEF Spells
<1>7. \A i \in 1..a + w + t + 2 : WebLine[i]
        = At(i, last, total_data, a, wire, w, stream, t, <<S + 1, 0>>)
  <2>1. Spells(WebLine, <<Len(packs), BodyOf(Len(packs), sizes)>>, total_data, a,
               wire, w, stream, t, <<Len(sizes) + 1, 0>>)
    BY <1>p, LineHere
  <2> QED
    BY <2>1, <1>p DEF Spells
<1> HIDE DEF last
<1>8. ASSUME NEW i \in 1..Length - 1 PROVE WebLine'[i] = WebLine[i]
  <2>1. i \in 1..a + w + t + 2 /\ i \in 1..a + w + (t + 1) + 2
        /\ i <= 1 + a + w + t /\ i <= 1 + a + w + (t + 1)
    BY <1>5
  <2>2. /\ WebLine'[i] = At(i, last, total_data, a, wire, w, stream', t + 1, <<S + 1, 0>>)
        /\ WebLine[i] = At(i, last, total_data, a, wire, w, stream, t, <<S + 1, 0>>)
    BY <2>1, <1>6, <1>7
  <2>3. CASE i <= 1 + a + w
    BY <2>2, <2>3 DEF At
  <2>4. CASE ~(i <= 1 + a + w)
    <3>1. i # 1 /\ ~(i <= 1 + a) /\ i - 1 - a - w \in 1..t
      BY <2>4, <2>1
    <3>2. WebLine'[i] = stream'[i - 1 - a - w] /\ WebLine[i] = stream[i - 1 - a - w]
      BY <2>1, <2>2, <2>4, <3>1 DEF At
    <3> QED
      BY <3>1, <3>2, <1>2
  <2> QED
    BY <2>3, <2>4
<1>9. WebLine'[Length] = Web!Noise /\ WebLine'[Length + 1] = <<S + 1, 0>>
  <2>1. /\ Length \in 1..a + w + (t + 1) + 2 /\ Length # 1 /\ ~(Length <= 1 + a)
        /\ ~(Length <= 1 + a + w) /\ Length <= 1 + a + w + (t + 1)
        /\ Length - 1 - a - w = t + 1
    BY <1>5
  <2>2. /\ Length + 1 \in 1..a + w + (t + 1) + 2 /\ Length + 1 # 1 /\ ~(Length + 1 <= 1 + a)
        /\ ~(Length + 1 <= 1 + a + w) /\ ~(Length + 1 <= 1 + a + w + (t + 1))
    BY <1>5
  <2>3. WebLine'[Length] = stream'[t + 1]
    BY <2>1, <1>6 DEF At
  <2>4. WebLine'[Length + 1] = <<S + 1, 0>>
    BY <2>2, <1>6 DEF At
  <2> QED
    BY <2>3, <2>4, <1>2
<1>10. Linked(WebLine, Length, sizes, noise)'
  <2> SUFFICES ASSUME NEW i \in 1..Length', NEW j \in 1..Length',
                      Neighbours(WebLine', Length', i, j)
               PROVE  WebLine'[j] = After(WebLine'[i], sizes', noise')
    BY DEF Linked
  <2>1. i < j /\ ~IsHead(WebLine'[i]) /\ ~IsHead(WebLine'[j])
    BY DEF Neighbours
  <2>2. CASE j <= Length
    <3>1. i \in 1..Length - 1 /\ i \in 1..Length /\ j \in 1..Length
      BY <2>1, <2>2, <1>5
    <3>2. \A m \in i + 1..j - 1 : m \in 1..Length - 1
      BY <3>1, <1>5
    <3>3. WebLine'[i] = WebLine[i] /\ (j # Length => WebLine'[j] = WebLine[j])
      BY <3>1, <1>5, <1>8
    <3>4. WebLine[Length] = <<S + 1, 0>>
      BY <1>t, <1>p, LineParts
    <3>5. ~IsHead(WebLine[j])
      BY <3>3, <3>4, <2>1 DEF IsHead
    <3>6. Neighbours(WebLine, Length, i, j)
      BY <3>1, <3>2, <3>3, <3>5, <2>1, <1>8 DEF Neighbours
    <3>7. WebLine[j] = After(WebLine[i], sizes, noise)
      BY <3>1, <3>6 DEF WebInv, Linked
    <3>8. /\ WebLine[i] \in Int \X Int /\ WebLine[i][1] \in 0..S
          /\ WebLine[i][2] \in 0..BodyOf(WebLine[i][1], sizes)
      BY <3>1, <3>3, <2>1, <1>0, <1>p, InLine
    <3>9. PICK x \in 0..S, y \in Nat : WebLine[i] = <<x, y>>
      BY <3>8
    <3>10. BodyOf(x, sizes) \in Nat /\ y <= BodyOf(x, sizes) /\ WebLine[i][1] = x
           /\ WebLine[i][2] = y
      <4>1. WebLine[i][1] = x /\ WebLine[i][2] = y
        BY <3>9
      <4>2. x # 0 => BodyOf(x, sizes) \in Nat
        <5>1. x # 0 => x \in 1..Len(sizes)
          BY <1>p
        <5> QED
          BY <5>1, <1>t, SizeOf
      <4> QED
        BY <3>8, <4>1, <4>2 DEF BodyOf
    <3>11. WebLine[i] # Web!Noise
      BY <3>9, <3>10 DEF Web!Noise, BodyOf
    <3>12. CASE y < BodyOf(x, sizes)
      <4>1. WebLine[j] = <<x, y + 1>>
        BY <3>7, <3>10, <3>11, <3>12 DEF After
      <4>2. j # Length
        BY <4>1, <3>4
      <4> QED
        BY <4>1, <4>2, <3>3, <3>10, <3>11, <3>12, <1>0 DEF After
    <3>13. CASE ~(y < BodyOf(x, sizes))
      <4>1. WebLine[j] = <<x + 1, 0>>
        BY <3>7, <3>10, <3>11, <3>13, <1>0 DEF After
      <4>2. CASE j = Length
        <5>1. x = S
          BY <4>1, <4>2, <3>4
        <5> QED
          BY <5>1, <4>2, <3>3, <3>10, <3>11, <3>13, <1>0, <1>p, <1>9 DEF After
      <4>3. CASE j # Length
        <5>1. j \in 1..Length - 1
          BY <3>1, <4>3, <1>5
        <5>2. WebLine[j][1] \in 0..S
          BY <5>1, <3>5, <1>0, <1>p, InLine
        <5>3. WebLine[j][1] = x + 1
          BY <4>1
        <5>4. x # S
          BY <5>2, <5>3
        <5> QED
          BY <5>4, <4>1, <4>3, <3>3, <3>10, <3>11, <3>13, <1>0, <1>p DEF After
      <4> QED
        BY <4>2, <4>3
    <3> QED
      BY <3>12, <3>13
  <2>3. CASE j > Length
    <3>1. j = Length + 1
      BY <2>3, <1>5
    <3>2. i = Length
      <4>1. ~IsHead(WebLine'[Length])
        BY <1>9 DEF IsHead, Web!Noise
      <4>2. i # Length => Length \in i + 1..j - 1
        BY <2>1, <3>1, <1>5
      <4> QED
        BY <4>1, <4>2 DEF Neighbours
    <3> QED
      BY <3>1, <3>2, <1>0, <1>p, <1>9 DEF After
  <2> QED
    BY <2>2, <2>3, <1>5
<1>11. Cut(First, wire)'
  BY <1>0 DEF WebInv, Cut, First, FrameEnds, Web!datalen
<1>12. stage' \in {"head", "data"} => ~Web!Unflagged' /\ ~Web!Whole'
  BY <1>0 DEF WebInv, Web!Unflagged, Web!Whole, Web!Flagged, Web!datasize
<1>13. Web!PacksIntact' /\ Web!BrokenByNoise'
  BY <1>0, <1>l, LastTaken DEF WebInv, Web!PacksIntact, Web!BrokenByNoise
<1> QED
  BY <1>3, <1>4, <1>10, <1>11, <1>12, <1>13 DEF WebInv

LEMMA LengthNat == ASSUME WebTypes PROVE Web!datalen \in Nat
<1>1. high \in Nat /\ low \in Nat /\ Short \in Nat
  BY FrameNumbers DEF WebTypes
<1>2. high * Short \in Nat
  BY <1>1
<1> QED
  BY <1>1, <1>2 DEF Web!datalen

LEMMA SendFrameStep ==
    ASSUME WebInv, NEW k \in 0..MaxFrame, Web!SendFrame(k)
    PROVE  WebInv'
<1>t. WebTypes /\ AllBytes
  BY DEF WebInv
<1>0. /\ k <= Len(stream)
      /\ wire' = wire \o <<Web!FrameHead(k)>> \o SubSeq(stream, 1, k)
      /\ stream' = SubSeq(stream, k + 1, Len(stream))
      /\ sizes' = sizes /\ noise' = noise /\ stage' = stage /\ low' = low
      /\ high' = high /\ total_data' = total_data /\ packs' = packs
  BY DEF Web!SendFrame
<1>l. /\ Len(total_data) \in Nat /\ Len(wire) \in Nat /\ Len(stream) \in Nat
      /\ Len(packs) \in Nat /\ Len(sizes) \in Nat /\ Length \in Nat
  BY <1>t, LineParts
<1>p. PICK a \in Nat, w \in Nat, t \in Nat :
        a = Len(total_data) /\ w = Len(wire) /\ t = Len(stream)
  BY <1>l
<1>k. k \in Nat /\ k <= t /\ k <= MaxFrame
  BY <1>0, <1>p, FrameNumbers
<1>q. wire \in Seq(Int \X Int) /\ stream \in Seq(Int \X Int) /\ <<-1, k>> \in Int \X Int
  BY <1>t, <1>k DEF WebTypes
<1>1. /\ stream' \in Seq(Int \X Int) /\ Len(stream') = t - k
      /\ \A i \in 1..t - k : stream'[i] = stream[k + i]
  <2>1. k \in 0..t
    BY <1>k
  <2>2. stream' = SubSeq(stream, k + 1, t)
    BY <1>0, <1>p
  <2>3. /\ SubSeq(stream, k + 1, t) \in Seq(Int \X Int)
        /\ Len(SubSeq(stream, k + 1, t)) = t - k
        /\ \A i \in 1..t - k : SubSeq(stream, k + 1, t)[i] = stream[k + i]
    BY <1>p, <1>q, <2>1, TakenApart, SMTT(30)
  <2> QED
    BY <2>2, <2>3
<1>r. PICK R \in Seq(Int \X Int) : /\ R = SubSeq(stream, 1, k) /\ Len(R) = k
                                   /\ \A i \in 1..k : R[i] = stream[i]
  <2>1. k \in 0..t
    BY <1>k
  <2>2. Splits(stream, k, t, SubSeq(stream, 1, k), SubSeq(stream, k + 1, t))
    BY <1>p, <1>q, <2>1, Split
  <2> QED
    BY <2>2 DEF Splits
<1>v. PICK V \in Seq(Int \X Int) : /\ V = wire \o <<Web!FrameHead(k)>> /\ Len(V) = w + 1
                                   /\ \A i \in 1..w : V[i] = wire[i]
                                   /\ V[w + 1] = <<-1, k>>
  <2> DEFINE H == <<Web!FrameHead(k)>>
  <2>1. H \in Seq(Int \X Int) /\ Len(H) = 1 /\ H[1] = <<-1, k>>
    BY <1>q DEF Web!FrameHead
  <2> HIDE DEF H
  <2>2. 1 \in Nat /\ 1 \in 1..1
    OBVIOUS
  <2>3. /\ wire \o H \in Seq(Int \X Int) /\ Len(wire \o H) = w + 1
        /\ \A i \in 1..w : (wire \o H)[i] = wire[i]
        /\ \A i \in 1..1 : (wire \o H)[w + i] = H[i]
    <3>1. Joins(wire \o H, wire, w, H, 1)
      BY <1>p, <1>q, <2>1, <2>2, PutTogether
    <3> QED
      BY <3>1 DEF Joins
  <2> QED
    BY <2>1, <2>2, <2>3 DEF H
<1>2. /\ wire' \in Seq(Int \X Int) /\ Len(wire') = w + 1 + k
      /\ \A i \in 1..w : wire'[i] = wire[i]
      /\ wire'[w + 1] = <<-1, k>>
      /\ \A i \in 1..k : wire'[w + 1 + i] = stream[i]
  <2>0. PICK v \in Nat : v = w + 1 /\ Len(V) = v
    BY <1>v
  <2>1. wire' = V \o R /\ Len(R) = k
    BY <1>0, <1>r, <1>v
  <2>2. /\ V \o R \in Seq(Int \X Int) /\ Len(V \o R) = v + k
        /\ \A i \in 1..v : (V \o R)[i] = V[i]
        /\ \A i \in 1..k : (V \o R)[v + i] = R[i]
    <3>1. Joins(V \o R, V, v, R, k)
      BY <2>0, <2>1, <1>k, PutTogether
    <3> QED
      BY <3>1 DEF Joins
  <2>3. w + 1 \in 1..w + 1 /\ \A i \in 1..w : i \in 1..w + 1
    OBVIOUS
  <2> QED
    BY <2>0, <2>1, <2>2, <2>3, <1>r, <1>v
<1>n. Len(wire') = w + 1 + k /\ Len(stream') = t - k /\ t - k \in Nat /\ w + 1 + k \in Nat
  BY <1>1, <1>2, <1>k
<1>m. PICK b \in Nat, c \in Nat : b = w + 1 + k /\ c = t - k
  BY <1>k
<1>3. WebTypes'
  BY <1>0, <1>1, <1>2, <1>t DEF WebTypes
<1>4. AllBytes'
  <2>1. ASSUME NEW i \in 1..t - k PROVE IsByte(stream'[i], sizes, noise)
    <3>1. k + i \in 1..t
      BY <1>k
    <3> QED
      BY <3>1, <1>1, <1>p, <1>t DEF AllBytes
  <2>2. ASSUME NEW i \in 1..w + 1 + k
        PROVE  IsHead(wire'[i]) \/ IsByte(wire'[i], sizes, noise)
    <3>1. CASE i <= w
      BY <3>1, <1>2, <1>p, <1>t DEF AllBytes
    <3>2. CASE i = w + 1
      BY <3>2, <1>2 DEF IsHead
    <3>3. CASE i > w + 1
      <4>1. PICK m \in 1..k : m = i - w - 1
        BY <3>3, <1>k
      <4>2. i = w + 1 + m /\ m \in 1..t
        BY <4>1, <1>k
      <4>3. wire'[i] = stream[m]
        BY <4>2, <1>2
      <4> QED
        BY <4>2, <4>3, <1>p, <1>t DEF AllBytes
    <3> QED
      BY <3>1, <3>2, <3>3
  <2> QED
    BY <1>0, <1>n, <1>t, <2>1, <2>2 DEF AllBytes
<1>5. Length = a + w + t + 2 /\ Length' = Length + 1
      /\ a + b + c + 2 = Length + 1
  <2>1. Length = a + w + t + 2
    BY <1>p DEF Length
  <2>2. Length' = a + b + c + 2
    BY <1>0, <1>n, <1>m, <1>p DEF Length
  <2> QED
    BY <2>1, <2>2, <1>k, <1>m
<1> DEFINE last == <<Len(packs), BodyOf(Len(packs), sizes)>>
           coming == <<Len(sizes) + 1, 0>>
<1>6. \A i \in 1..a + b + c + 2 : WebLine'[i]
        = At(i, last, total_data, a, wire', b, stream', c, coming)
  <2>1. WebLine' = Line(last, total_data, wire', stream', coming)
    BY <1>0 DEF WebLine
  <2> HIDE DEF last, coming
  <2> QED
    <3>1. Len(wire') = b /\ Len(stream') = c
      BY <1>n, <1>m
    <3>2. \A i \in 1..a + b + c + 2 : Line(last, total_data, wire', stream', coming)[i]
            = At(i, last, total_data, a, wire', b, stream', c, coming)
      <4>1. Spells(Line(last, total_data, wire', stream', coming), last, total_data, a,
                   wire', b, stream', c, coming)
        BY <1>p, <3>1, LineSpells
      <4> QED
        BY <4>1 DEF Spells
    <3> QED
      BY <2>1, <3>2
<1>7. \A i \in 1..a + w + t + 2 : WebLine[i]
        = At(i, last, total_data, a, wire, w, stream, t, coming)
  <2>1. Spells(WebLine, <<Len(packs), BodyOf(Len(packs), sizes)>>, total_data, a,
               wire, w, stream, t, <<Len(sizes) + 1, 0>>)
    BY <1>p, LineHere
  <2> QED
    BY <2>1, <1>p DEF Spells
<1> HIDE DEF last, coming
<1>8. ASSUME NEW i \in 1..Length + 1
      PROVE  /\ i < a + w + 2 => WebLine'[i] = WebLine[i]
             /\ i > a + w + 2 => WebLine'[i] = WebLine[i - 1]
  <2>1. WebLine'[i] = At(i, last, total_data, a, wire', b, stream', c, coming)
    BY <1>5, <1>6
  <2>2. CASE i <= 1 + a
    <3>1. i \in 1..a + w + t + 2 /\ i <= 1 + a + w /\ i < a + w + 2
      BY <2>2
    <3>2. WebLine[i] = At(i, last, total_data, a, wire, w, stream, t, coming)
      BY <3>1, <1>7
    <3> QED
      BY <2>1, <2>2, <3>1, <3>2 DEF At
  <2>3. CASE i > 1 + a /\ i < a + w + 2
    <3>1. /\ i \in 1..a + w + t + 2 /\ ~(i <= 1 + a) /\ i <= 1 + a + w
          /\ i <= 1 + a + b /\ i # 1 /\ i - 1 - a \in 1..w
      BY <2>3, <1>k, <1>m
    <3>2. WebLine[i] = At(i, last, total_data, a, wire, w, stream, t, coming)
      BY <3>1, <1>7
    <3>3. WebLine'[i] = wire'[i - 1 - a] /\ WebLine[i] = wire[i - 1 - a]
      BY <2>1, <3>1, <3>2 DEF At
    <3> QED
      BY <2>3, <3>1, <3>3, <1>2
  <2>4. CASE i > a + w + 2 /\ i <= 1 + a + b
    <3>1. /\ i - 1 \in 1..a + w + t + 2 /\ ~(i <= 1 + a) /\ ~(i - 1 <= 1 + a)
          /\ ~(i - 1 <= 1 + a + w) /\ i - 1 <= 1 + a + w + t /\ i # 1 /\ i - 1 # 1
      BY <2>4, <1>k, <1>m
    <3>2. PICK m \in 1..k : m = i - 1 - 1 - a - w
      BY <2>4, <1>k, <1>m
    <3>3. i - 1 - a = w + 1 + m /\ i - 1 - 1 - a - w = m
      BY <3>2
    <3>4. WebLine[i - 1] = At(i - 1, last, total_data, a, wire, w, stream, t, coming)
      BY <3>1, <1>7
    <3>5. WebLine'[i] = wire'[i - 1 - a] /\ WebLine[i - 1] = stream[i - 1 - 1 - a - w]
      BY <2>1, <2>4, <3>1, <3>4 DEF At
    <3>6. wire'[w + 1 + m] = stream[m]
      BY <1>2
    <3>7. WebLine'[i] = WebLine[i - 1]
      BY <3>3, <3>5, <3>6
    <3>8. ~(i < a + w + 2)
      BY <2>4
    <3> QED
      BY <3>7, <3>8
  <2>5. CASE i > 1 + a + b /\ i < Length + 1
    <3>1. /\ i - 1 \in 1..a + w + t + 2 /\ ~(i <= 1 + a) /\ ~(i - 1 <= 1 + a)
          /\ ~(i <= 1 + a + b) /\ i <= 1 + a + b + c
          /\ ~(i - 1 <= 1 + a + w) /\ i - 1 <= 1 + a + w + t /\ i # 1 /\ i - 1 # 1
          /\ i > a + w + 2
      BY <2>5, <1>5, <1>k, <1>m
    <3>2. PICK m \in 1..c : m = i - 1 - a - b
      BY <2>5, <1>5, <1>k, <1>m
    <3>3. i - 1 - 1 - a - w = k + m
      BY <3>2, <1>k, <1>m
    <3>4. WebLine[i - 1] = At(i - 1, last, total_data, a, wire, w, stream, t, coming)
      BY <3>1, <1>7
    <3>5. /\ WebLine'[i] = stream'[i - 1 - a - b]
          /\ WebLine[i - 1] = stream[i - 1 - 1 - a - w]
      BY <2>1, <3>1, <3>4 DEF At
    <3>6. stream'[m] = stream[k + m]
      BY <1>1, <1>m
    <3>7. WebLine'[i] = WebLine[i - 1]
      BY <3>2, <3>3, <3>5, <3>6
    <3>8. ~(i < a + w + 2)
      BY <3>1
    <3> QED
      BY <3>7, <3>8
  <2>6. CASE i = Length + 1
    <3>1. /\ i - 1 \in 1..a + w + t + 2 /\ ~(i <= 1 + a) /\ ~(i - 1 <= 1 + a)
          /\ ~(i <= 1 + a + b) /\ ~(i <= 1 + a + b + c)
          /\ ~(i - 1 <= 1 + a + w) /\ ~(i - 1 <= 1 + a + w + t) /\ i # 1 /\ i - 1 # 1
          /\ i > a + w + 2
      BY <2>6, <1>5, <1>k, <1>m
    <3>4. WebLine[i - 1] = At(i - 1, last, total_data, a, wire, w, stream, t, coming)
      BY <3>1, <1>7
    <3>5. WebLine'[i] = coming /\ WebLine[i - 1] = coming
      BY <2>1, <3>1, <3>4 DEF At
    <3> QED
      BY <3>1, <3>5
  <2>7. i = a + w + 2 => ~(i < a + w + 2) /\ ~(i > a + w + 2)
    OBVIOUS
  <2>8. \/ i <= 1 + a
        \/ i > 1 + a /\ i < a + w + 2
        \/ i = a + w + 2
        \/ i > a + w + 2 /\ i <= 1 + a + b
        \/ i > 1 + a + b /\ i < Length + 1
        \/ i = Length + 1
    <3>1. PICK L \in Nat : L = Length /\ i \in 1..L + 1
      BY <1>l
    <3> QED
      BY <3>1
  <2> QED
    BY <2>2, <2>3, <2>4, <2>5, <2>6, <2>7, <2>8
<1>9. WebLine'[a + w + 2] = <<-1, k>> /\ a + w + 2 \in 1..Length + 1
  <2>1. /\ a + w + 2 \in 1..Length + 1 /\ ~(a + w + 2 <= 1 + a) /\ a + w + 2 # 1
        /\ a + w + 2 <= 1 + a + b /\ a + w + 2 - 1 - a = w + 1
    BY <1>5, <1>k, <1>m
  <2>2. WebLine'[a + w + 2] =
          At(a + w + 2, last, total_data, a, wire', b, stream', c, coming)
    BY <2>1, <1>5, <1>6
  <2>3. WebLine'[a + w + 2] = wire'[w + 1]
    BY <2>1, <2>2 DEF At
  <2> QED
    BY <2>1, <2>3, <1>2
<1>10. Linked(WebLine, Length, sizes, noise)'
  <2>1. Linked(WebLine, Length, sizes, noise)
    BY DEF WebInv
  <2>2. IsHead(WebLine'[a + w + 2])
    BY <1>9 DEF IsHead
  <2>3. Linked(WebLine', Length + 1, sizes, noise)
    BY <2>1, <2>2, <1>8, <1>9, <1>l, PutHead
  <2> QED
    BY <2>3, <1>0, <1>5
<1>11. Cut(First, wire)'
  <2>0. PICK f \in Nat : f = First /\ First' = f /\ Cut(f, wire)
    <3>1. First \in Nat
      BY <1>t, LengthNat DEF First
    <3>2. First' = First
      BY <1>0 DEF First, Web!datalen
    <3> QED
      BY <3>1, <3>2 DEF WebInv
  <2>1. ASSUME NEW i \in Nat, i <= w, FrameEnds(wire, i) PROVE FrameEnds(wire', i)
    <3>1. CASE i = w
      BY <3>1, <1>2, <1>n, <1>k DEF FrameEnds, IsHead
    <3>2. CASE i < w
      <4>1. i + 1 \in 1..w
        BY <3>2
      <4>2. IsHead(wire'[i + 1])
        BY <4>1, <3>2, <2>1, <1>2, <1>p DEF FrameEnds
      <4> QED
        BY <3>2, <4>2, <1>n, <1>k DEF FrameEnds
    <3> QED
      BY <3>1, <3>2, <2>1
  <2>2. f <= w /\ FrameEnds(wire', f) /\ \A i \in 1..f : ~IsHead(wire'[i])
    <3>1. f <= w /\ FrameEnds(wire, f) /\ \A i \in 1..f : ~IsHead(wire[i])
      BY <2>0, <1>p DEF Cut
    <3>2. \A i \in 1..f : i \in 1..w
      BY <3>1
    <3> QED
      BY <3>1, <3>2, <2>1, <1>2
  <2>3. ASSUME NEW i \in 1..w + 1 + k, IsHead(wire'[i])
        PROVE  /\ wire'[i][2] \in 0..MaxFrame /\ i + wire'[i][2] <= w + 1 + k
               /\ FrameEnds(wire', i + wire'[i][2])
               /\ \A m \in i + 1..i + wire'[i][2] : ~IsHead(wire'[m])
    <3>1. CASE i <= w
      <4>0. i \in 1..w
        BY <3>1
      <4>1. i \in 1..w /\ wire'[i] = wire[i]
        BY <4>0, <1>2
      <4>2. PICK z \in 0..MaxFrame : z = wire[i][2]
        BY <4>1, <2>0, <2>3, <1>p DEF Cut
      <4>3. /\ i + z <= w /\ FrameEnds(wire, i + z)
            /\ \A m \in i + 1..i + z : ~IsHead(wire[m])
        BY <4>1, <4>2, <2>0, <2>3, <1>p DEF Cut
      <4>4. i + z \in Nat /\ z \in Nat
        BY FrameNumbers
      <4>5. FrameEnds(wire', i + z)
        BY <4>3, <4>4, <2>1
      <4>6. ASSUME NEW m \in i + 1..i + z PROVE ~IsHead(wire'[m])
        <5>1. m \in 1..w
          BY <4>3, <4>4
        <5> QED
          BY <5>1, <4>3, <1>2
      <4>7. i + z <= w + 1 + k
        BY <4>3, <4>4, <1>k
      <4> QED
        BY <4>1, <4>2, <4>5, <4>6, <4>7
    <3>2. CASE i = w + 1
      <4>1. wire'[i][2] = k
        BY <3>2, <1>2
      <4>2. i + k = w + 1 + k
        BY <3>2, <1>k
      <4>3. FrameEnds(wire', i + k)
        BY <4>2, <1>n DEF FrameEnds
      <4>4. ASSUME NEW m \in i + 1..i + k PROVE ~IsHead(wire'[m])
        <5>1. PICK q \in 1..k : q = m - w - 1
          BY <3>2, <1>k
        <5>2. m = w + 1 + q /\ q \in 1..t
          BY <5>1, <1>k
        <5>3. wire'[m] = stream[q] /\ IsByte(stream[q], sizes, noise)
          BY <5>2, <1>2, <1>p, <1>t DEF AllBytes
        <5> QED
          BY <5>3 DEF IsByte, IsHead, Web!Noise
      <4> QED
        BY <4>1, <4>2, <4>3, <4>4, <1>k
    <3>3. CASE i > w + 1
      <4>1. PICK q \in 1..k : q = i - w - 1
        BY <3>3, <1>k
      <4>2. i = w + 1 + q /\ q \in 1..t
        BY <4>1, <1>k
      <4>3. wire'[i] = stream[q] /\ IsByte(stream[q], sizes, noise)
        BY <4>2, <1>2, <1>p, <1>t DEF AllBytes
      <4> QED
        BY <4>3, <2>3 DEF IsByte, IsHead, Web!Noise
    <3> QED
      BY <3>1, <3>2, <3>3
  <2>4. f <= w + 1 + k
    BY <2>2, <1>k
  <2> QED
    BY <2>0, <2>2, <2>3, <2>4, <1>n DEF Cut
<1>12. stage' \in {"head", "data"} => ~Web!Unflagged' /\ ~Web!Whole'
  BY <1>0 DEF WebInv, Web!Unflagged, Web!Whole, Web!Flagged, Web!datasize
<1>13. Web!PacksIntact' /\ Web!BrokenByNoise'
  BY <1>0 DEF WebInv, Web!PacksIntact, Web!BrokenByNoise
<1> QED
  BY <1>3, <1>4, <1>10, <1>11, <1>12, <1>13 DEF WebInv

(* A frame's head is read; its length is the datalen that is read next.    *)
LEMMA ReadHeadStep ==
    ASSUME WebInv, exact', Web!ReadHead
    PROVE  WebInv'
<1>t. WebTypes /\ AllBytes
  BY DEF WebInv
<1>q. /\ stage = "head" /\ wire # <<>> /\ wire \in Seq(Int \X Int)
      /\ total_data' = total_data /\ sizes' = sizes /\ stream' = stream
      /\ noise' = noise /\ packs' = packs /\ wire' = Tail(wire)
  BY <1>t DEF Web!ReadHead, WebTypes
<1>l. /\ Len(total_data) \in Nat /\ Len(wire) \in Nat /\ Len(stream) \in Nat
      /\ Len(packs) \in Nat /\ Len(sizes) \in Nat /\ Length \in Nat
  BY <1>t, LineParts
<1>p. PICK a \in Nat, w \in Nat, t \in Nat :
        a = Len(total_data) /\ w = Len(wire) /\ t = Len(stream)
  BY <1>l
<1>w. w > 0 /\ 1 \in 1..w
  BY <1>q, <1>p
<1>c. Cut(0, wire)
  BY <1>q DEF WebInv, First
<1>h. IsHead(wire[1])
  <2>1. FrameEnds(wire, 0) /\ 0 + 1 = 1
    BY <1>c DEF Cut
  <2> QED
    BY <2>1, <1>p, <1>w DEF FrameEnds
<1>k. PICK k \in 0..MaxFrame : k = wire[1][2]
  BY <1>c, <1>h, <1>p, <1>w DEF Cut
<1>n. k \in Nat
  BY FrameNumbers
<1>0. stage' = "data" /\ Web!datalen' = k /\ high' \in Nat /\ low' \in Nat
  <2>1. Head(wire) = wire[1] /\ wire[1] \in Int \X Int
    BY <1>q, <1>p, <1>w
  <2>2. wire[1] = <<-1, k>>
    BY <2>1, <1>h, <1>k DEF IsHead
  <2>3. Head(wire) = Web!FrameHead(k) /\ Head(wire)[2] = k
    BY <2>1, <2>2 DEF Web!FrameHead
  <2>4. /\ stage' = "data" /\ low' = k % Short
        /\ high' = IF k < Short THEN high ELSE k \div Short
        /\ exact' = (exact /\ Web!datalen' = k)
    BY <2>3 DEF Web!ReadHead, Web!datalen
  <2>5. k % Short \in Nat /\ k \div Short \in Nat
    BY <1>n, FrameNumbers
  <2>6. high \in Nat
    BY <1>t DEF WebTypes
  <2> QED
    BY <2>4, <2>5, <2>6
<1>2. /\ wire' \in Seq(Int \X Int) /\ Len(wire') = w - 1
      /\ \A i \in 1..w - 1 : wire'[i] = wire[i + 1]
  BY <1>q, <1>p, <1>w, HeadTailProperties
<1>v. w - 1 \in Nat /\ Len(wire') = w - 1
  BY <1>2, <1>w
<1>3. WebTypes'
  BY <1>0, <1>q, <1>2, <1>t DEF WebTypes
<1>4. AllBytes'
  <2>1. ASSUME NEW i \in 1..w - 1
        PROVE  IsHead(wire'[i]) \/ IsByte(wire'[i], sizes, noise)
    <3>1. i + 1 \in 1..w
      OBVIOUS
    <3> QED
      BY <3>1, <1>2, <1>p, <1>t DEF AllBytes
  <2> QED
    BY <1>q, <1>v, <1>t, <2>1 DEF AllBytes
<1>m. PICK b \in Nat : b = w - 1 /\ Len(wire') = b
  BY <1>v
<1>5. Length = a + w + t + 2 /\ Length' = Length - 1 /\ a + b + t + 2 = Length - 1
  <2>1. Length = a + w + t + 2
    BY <1>p DEF Length
  <2>2. Length' = a + b + t + 2
    BY <1>q, <1>m, <1>p DEF Length
  <2> QED
    BY <2>1, <2>2, <1>m
<1> DEFINE last == <<Len(packs), BodyOf(Len(packs), sizes)>>
           coming == <<Len(sizes) + 1, 0>>
<1>6. \A i \in 1..a + b + t + 2 : WebLine'[i]
        = At(i, last, total_data, a, wire', b, stream, t, coming)
  <2>1. WebLine' = Line(last, total_data, wire', stream, coming)
    BY <1>q DEF WebLine
  <2> HIDE DEF last, coming
  <2>2. \A i \in 1..a + b + t + 2 : Line(last, total_data, wire', stream, coming)[i]
          = At(i, last, total_data, a, wire', b, stream, t, coming)
    <3>1. Spells(Line(last, total_data, wire', stream, coming), last, total_data, a,
                 wire', b, stream, t, coming)
      BY <1>p, <1>m, LineSpells
    <3> QED
      BY <3>1 DEF Spells
  <2> QED
    BY <2>1, <2>2
<1>7. \A i \in 1..a + w + t + 2 : WebLine[i]
        = At(i, last, total_data, a, wire, w, stream, t, coming)
  <2>1. Spells(WebLine, <<Len(packs), BodyOf(Len(packs), sizes)>>, total_data, a,
               wire, w, stream, t, <<Len(sizes) + 1, 0>>)
    BY <1>p, LineHere
  <2> QED
    BY <2>1, <1>p DEF Spells
<1> HIDE DEF last, coming
<1>8. ASSUME NEW i \in 1..Length - 1
      PROVE  /\ i < a + 2 => WebLine'[i] = WebLine[i]
             /\ i >= a + 2 => WebLine'[i] = WebLine[i + 1]
  <2>1. WebLine'[i] = At(i, last, total_data, a, wire', b, stream, t, coming)
    BY <1>5, <1>6
  <2>2. CASE i < a + 2
    <3>1. i \in 1..a + w + t + 2 /\ i <= 1 + a /\ ~(i >= a + 2)
      BY <2>2
    <3>2. WebLine[i] = At(i, last, total_data, a, wire, w, stream, t, coming)
      BY <3>1, <1>7
    <3> QED
      BY <2>1, <3>1, <3>2 DEF At
  <2>3. CASE i >= a + 2 /\ i <= 1 + a + b
    <3>1. /\ i + 1 \in 1..a + w + t + 2 /\ ~(i <= 1 + a) /\ ~(i + 1 <= 1 + a)
          /\ i + 1 <= 1 + a + w /\ i # 1 /\ i + 1 # 1
      BY <2>3, <1>m
    <3>2. PICK m \in 1..w - 1 : m = i - 1 - a
      BY <2>3, <1>m
    <3>3. i - 1 - a = m /\ i + 1 - 1 - a = m + 1
      BY <3>2
    <3>4. WebLine[i + 1] = At(i + 1, last, total_data, a, wire, w, stream, t, coming)
      BY <3>1, <1>7
    <3>5. WebLine'[i] = wire'[i - 1 - a] /\ WebLine[i + 1] = wire[i + 1 - 1 - a]
      BY <2>1, <2>3, <3>1, <3>4 DEF At
    <3>6. wire'[m] = wire[m + 1]
      BY <1>2
    <3>7. WebLine'[i] = WebLine[i + 1]
      BY <3>3, <3>5, <3>6
    <3> QED
      BY <2>3, <3>7
  <2>4. CASE i > 1 + a + b
    <3>1. /\ i + 1 \in 1..a + w + t + 2 /\ ~(i <= 1 + a) /\ ~(i + 1 <= 1 + a)
          /\ ~(i <= 1 + a + b) /\ ~(i + 1 <= 1 + a + w) /\ i # 1 /\ i + 1 # 1
          /\ (i <= 1 + a + b + t <=> i + 1 <= 1 + a + w + t)
          /\ i - 1 - a - b = i + 1 - 1 - a - w /\ ~(i < a + 2)
      BY <2>4, <1>m, <1>5
    <3>4. WebLine[i + 1] = At(i + 1, last, total_data, a, wire, w, stream, t, coming)
      BY <3>1, <1>7
    <3>5. WebLine'[i] = IF i <= 1 + a + b + t THEN stream[i - 1 - a - b] ELSE coming
      BY <2>1, <3>1 DEF At
    <3>6. WebLine[i + 1] = IF i + 1 <= 1 + a + w + t THEN stream[i + 1 - 1 - a - w]
                           ELSE coming
      BY <3>1, <3>4 DEF At
    <3>7. WebLine'[i] = WebLine[i + 1]
      BY <3>1, <3>5, <3>6
    <3> QED
      BY <3>1, <3>7
  <2> QED
    BY <2>2, <2>3, <2>4
<1>9. WebLine[a + 2] = wire[1] /\ a + 2 \in 1..Length
  <2>1. a + 2 = 1 + 1 + a /\ a + 2 \in 1..Length
    BY <1>5, <1>w
  <2>2. WebLine[1 + 1 + a] = wire[1]
    BY <1>t, <1>p, <1>w, LineParts
  <2> QED
    BY <2>1, <2>2
<1>10. Linked(WebLine, Length, sizes, noise)'
  <2>1. Linked(WebLine, Length, sizes, noise)
    BY DEF WebInv
  <2>2. IsHead(WebLine[a + 2])
    BY <1>9, <1>h
  <2>3. Linked(WebLine', Length - 1, sizes, noise)
    BY <2>1, <2>2, <1>8, <1>9, <1>l, DropHead
  <2> QED
    BY <2>3, <1>q, <1>5
<1>11. Cut(First, wire)'
  <2>0. First' = k
    BY <1>0 DEF First, Web!datalen
  <2>1. ASSUME NEW i \in Nat, i + 1 <= w, FrameEnds(wire, i + 1) PROVE FrameEnds(wire', i)
    <3>1. CASE i + 1 = w
      BY <3>1, <1>v DEF FrameEnds
    <3>2. CASE i + 1 < w
      <4>1. i + 1 \in 1..w - 1
        BY <3>2
      <4>2. IsHead(wire[i + 1 + 1])
        BY <3>2, <2>1, <1>p DEF FrameEnds
      <4>3. IsHead(wire'[i + 1])
        BY <4>1, <4>2, <1>2
      <4> QED
        BY <3>2, <4>3, <1>v DEF FrameEnds
    <3> QED
      BY <3>1, <3>2, <2>1
  <2>2. k + 1 <= w /\ FrameEnds(wire, k + 1) /\ \A m \in 2..k + 1 : ~IsHead(wire[m])
    <3>1. 1 + k = k + 1 /\ 1 + 1 = 2
      BY <1>n
    <3> QED
      BY <3>1, <1>c, <1>h, <1>k, <1>p, <1>w DEF Cut
  <2>3. k <= w - 1 /\ FrameEnds(wire', k)
    BY <2>1, <2>2, <1>n
  <2>4. ASSUME NEW i \in 1..k PROVE ~IsHead(wire'[i])
    <3>1. i \in 1..w - 1 /\ i + 1 \in 2..k + 1
      BY <2>2, <1>n
    <3> QED
      BY <3>1, <2>2, <1>2
  <2>5. ASSUME NEW i \in 1..w - 1, IsHead(wire'[i])
        PROVE  /\ wire'[i][2] \in 0..MaxFrame /\ i + wire'[i][2] <= w - 1
               /\ FrameEnds(wire', i + wire'[i][2])
               /\ \A m \in i + 1..i + wire'[i][2] : ~IsHead(wire'[m])
    <3>1. i + 1 \in 1..w /\ wire'[i] = wire[i + 1]
      BY <1>2
    <3>2. PICK z \in 0..MaxFrame : z = wire[i + 1][2]
      BY <3>1, <2>5, <1>c, <1>p DEF Cut
    <3>3. /\ i + 1 + z <= w /\ FrameEnds(wire, i + 1 + z)
          /\ \A m \in i + 1 + 1..i + 1 + z : ~IsHead(wire[m])
      BY <3>1, <3>2, <2>5, <1>c, <1>p DEF Cut
    <3>4. z \in Nat /\ i + z \in Nat /\ i + 1 + z = i + z + 1 /\ i + z <= w - 1
      BY <3>3, FrameNumbers
    <3>5. FrameEnds(wire', i + z)
      BY <3>3, <3>4, <2>1
    <3>6. ASSUME NEW m \in i + 1..i + z PROVE ~IsHead(wire'[m])
      <4>1. m \in 1..w - 1 /\ m + 1 \in i + 1 + 1..i + 1 + z
        BY <3>4
      <4> QED
        BY <4>1, <3>3, <1>2
    <3> QED
      BY <3>1, <3>2, <3>4, <3>5, <3>6
  <2> QED
    BY <2>0, <2>3, <2>4, <2>5, <1>v DEF Cut
<1>12. ~Web!Unflagged' /\ ~Web!Whole'
  BY <1>q DEF WebInv, Web!Unflagged, Web!Whole, Web!Flagged, Web!datasize
<1>13. Web!PacksIntact' /\ Web!BrokenByNoise'
  BY <1>0, <1>q DEF WebInv, Web!PacksIntact, Web!BrokenByNoise
<1> QED
  BY <1>3, <1>4, <1>10, <1>11, <1>12, <1>13 DEF WebInv

(* The payload goes from the wire to total_data, and the line is as it was. *)
LEMMA ReadDataStep ==
    ASSUME WebInv, exact', NEW n \in 0..Len(wire), Web!ReadData(n)
    PROVE  WebInv'
<1>t. WebTypes /\ AllBytes
  BY DEF WebInv
<1>0. /\ stage = "data" /\ n = Web!datalen /\ stage' = "packs"
      /\ total_data' = total_data \o SubSeq(wire, 1, n)
                         \o [i \in 1..Web!datalen - n |-> Web!Unread]
      /\ wire' = SubSeq(wire, n + 1, Len(wire))
      /\ sizes' = sizes /\ stream' = stream /\ noise' = noise /\ packs' = packs
      /\ low' = low /\ high' = high
  BY DEF Web!ReadData
<1>l. /\ Len(total_data) \in Nat /\ Len(wire) \in Nat /\ Len(stream) \in Nat
      /\ Len(packs) \in Nat /\ Len(sizes) \in Nat /\ Length \in Nat
  BY <1>t, LineParts
<1>p. PICK a \in Nat, w \in Nat, t \in Nat :
        a = Len(total_data) /\ w = Len(wire) /\ t = Len(stream)
  BY <1>l
<1>n. n \in Nat /\ n <= w /\ Web!datalen = n
  BY <1>0, <1>p
<1>q. total_data \in Seq(Int \X Int) /\ wire \in Seq(Int \X Int) /\ n \in 0..w
  BY <1>t, <1>n DEF WebTypes
<1>c. Cut(n, wire)
  BY <1>0, <1>n DEF WebInv, First
<1>r. PICK R \in Seq(Int \X Int) : /\ R = SubSeq(wire, 1, n) /\ Len(R) = n
                                   /\ \A i \in 1..n : R[i] = wire[i]
  <2>1. Splits(wire, n, w, SubSeq(wire, 1, n), SubSeq(wire, n + 1, w))
    BY <1>p, <1>q, Split
  <2> QED
    BY <2>1 DEF Splits
<1>1. /\ total_data' \in Seq(Int \X Int) /\ Len(total_data') = a + n
      /\ \A i \in 1..a : total_data'[i] = total_data[i]
      /\ \A i \in 1..n : total_data'[a + i] = wire[i]
  <2>1. [i \in 1..Web!datalen - n |-> Web!Unread] = <<>>
    <3>1. Web!datalen - n = 0
      BY <1>n
    <3> QED
      BY <3>1
  <2>2. Joins(total_data \o R, total_data, a, R, n)
    BY <1>p, <1>q, <1>r, <1>n, PutTogether
  <2>3. total_data' = total_data \o R
    <3>1. (total_data \o R) \o <<>> = total_data \o R
      BY <2>2, ConcatEmptySeq DEF Joins
    <3> QED
      BY <1>0, <1>r, <2>1, <3>1
  <2> QED
    BY <2>2, <2>3, <1>r DEF Joins
<1>2. /\ wire' \in Seq(Int \X Int) /\ Len(wire') = w - n
      /\ \A i \in 1..w - n : wire'[i] = wire[n + i]
  <2>1. wire' = SubSeq(wire, n + 1, w)
    BY <1>0, <1>p
  <2>2. /\ SubSeq(wire, n + 1, w) \in Seq(Int \X Int)
        /\ Len(SubSeq(wire, n + 1, w)) = w - n
        /\ \A i \in 1..w - n : SubSeq(wire, n + 1, w)[i] = wire[n + i]
    BY <1>p, <1>q, TakenApart
  <2> QED
    BY <2>1, <2>2
<1>m. PICK d \in Nat, b \in Nat :
        d = a + n /\ b = w - n /\ Len(total_data') = d /\ Len(wire') = b
  <2>1. a + n \in Nat /\ w - n \in Nat
    BY <1>n
  <2>2. Len(total_data') = a + n /\ Len(wire') = w - n
    BY <1>1, <1>2
  <2> QED
    BY <2>1, <2>2
<1>3. WebTypes'
  BY <1>0, <1>1, <1>2, <1>t DEF WebTypes
<1>4. AllBytes'
  <2>1. ASSUME NEW i \in 1..d PROVE IsByte(total_data'[i], sizes, noise)
    <3>1. CASE i <= a
      BY <3>1, <1>1, <1>p, <1>t DEF AllBytes
    <3>2. CASE i > a
      <4>1. PICK m \in 1..n : m = i - a
        BY <3>2, <1>m, <1>n
      <4>2. i = a + m /\ m \in 1..w
        BY <4>1, <1>n
      <4>3. total_data'[i] = wire[m]
        BY <4>2, <1>1
      <4>4. ~IsHead(wire[m])
        BY <1>c DEF Cut
      <4> QED
        BY <4>2, <4>3, <4>4, <1>p, <1>t DEF AllBytes
    <3> QED
      BY <3>1, <3>2
  <2>2. ASSUME NEW i \in 1..b PROVE IsHead(wire'[i]) \/ IsByte(wire'[i], sizes, noise)
    <3>1. n + i \in 1..w /\ i \in 1..w - n
      BY <1>m, <1>n
    <3> QED
      BY <3>1, <1>2, <1>p, <1>t DEF AllBytes
  <2> QED
    BY <1>0, <1>m, <1>t, <2>1, <2>2 DEF AllBytes
<1>5. Length = a + w + t + 2 /\ Length' = Length /\ d + b + t + 2 = Length
  <2>1. Length = a + w + t + 2
    BY <1>p DEF Length
  <2>2. Length' = d + b + t + 2
    BY <1>0, <1>m, <1>p DEF Length
  <2> QED
    BY <2>1, <2>2, <1>m, <1>n
<1> DEFINE last == <<Len(packs), BodyOf(Len(packs), sizes)>>
           coming == <<Len(sizes) + 1, 0>>
<1>6. \A i \in 1..d + b + t + 2 : WebLine'[i]
        = At(i, last, total_data', d, wire', b, stream, t, coming)
  <2>1. WebLine' = Line(last, total_data', wire', stream, coming)
    BY <1>0 DEF WebLine
  <2> HIDE DEF last, coming
  <2>2. \A i \in 1..d + b + t + 2 : Line(last, total_data', wire', stream, coming)[i]
          = At(i, last, total_data', d, wire', b, stream, t, coming)
    <3>1. Spells(Line(last, total_data', wire', stream, coming), last, total_data', d,
                 wire', b, stream, t, coming)
      BY <1>p, <1>m, LineSpells
    <3> QED
      BY <3>1 DEF Spells
  <2> QED
    BY <2>1, <2>2
<1>7. \A i \in 1..a + w + t + 2 : WebLine[i]
        = At(i, last, total_data, a, wire, w, stream, t, coming)
  <2>1. Spells(WebLine, <<Len(packs), BodyOf(Len(packs), sizes)>>, total_data, a,
               wire, w, stream, t, <<Len(sizes) + 1, 0>>)
    BY <1>p, LineHere
  <2> QED
    BY <2>1, <1>p DEF Spells
<1> HIDE DEF last, coming
<1>8. ASSUME NEW i \in 1..Length PROVE WebLine'[i] = WebLine[i]
  <2>1. /\ WebLine'[i] = At(i, last, total_data', d, wire', b, stream, t, coming)
        /\ WebLine[i] = At(i, last, total_data, a, wire, w, stream, t, coming)
    BY <1>5, <1>6, <1>7
  <2>2. CASE i = 1
    BY <2>1, <2>2 DEF At
  <2>3. CASE i # 1 /\ i <= 1 + a
    <3>1. i <= 1 + d /\ i - 1 \in 1..a
      BY <2>3, <1>m, <1>n
    <3>2. WebLine'[i] = total_data'[i - 1] /\ WebLine[i] = total_data[i - 1]
      BY <2>1, <2>3, <3>1 DEF At
    <3> QED
      BY <3>1, <3>2, <1>1
  <2>4. CASE i > 1 + a /\ i <= 1 + d
    <3>1. i # 1 /\ ~(i <= 1 + a) /\ i <= 1 + a + w
      BY <2>4, <1>m, <1>n
    <3>2. PICK m \in 1..n : m = i - 1 - a
      BY <2>4, <1>m, <1>n
    <3>3. i - 1 = a + m /\ i - 1 - a = m
      BY <3>2
    <3>4. WebLine'[i] = total_data'[i - 1] /\ WebLine[i] = wire[i - 1 - a]
      BY <2>1, <2>4, <3>1 DEF At
    <3>5. total_data'[a + m] = wire[m]
      BY <1>1
    <3> QED
      BY <3>3, <3>4, <3>5
  <2>5. CASE i > 1 + d /\ i <= 1 + d + b
    <3>1. i # 1 /\ ~(i <= 1 + a) /\ i <= 1 + a + w /\ ~(i <= 1 + d)
      BY <2>5, <1>m, <1>n
    <3>2. PICK m \in 1..w - n : m = i - 1 - d
      BY <2>5, <1>m, <1>n
    <3>3. i - 1 - d = m /\ i - 1 - a = n + m
      BY <3>2, <1>m, <1>n
    <3>4. WebLine'[i] = wire'[i - 1 - d] /\ WebLine[i] = wire[i - 1 - a]
      BY <2>1, <2>5, <3>1 DEF At
    <3>5. wire'[m] = wire[n + m]
      BY <1>2
    <3> QED
      BY <3>3, <3>4, <3>5
  <2>6. CASE i > 1 + d + b
    <3>1. /\ i # 1 /\ ~(i <= 1 + a) /\ ~(i <= 1 + a + w) /\ ~(i <= 1 + d)
          /\ ~(i <= 1 + d + b) /\ i - 1 - d - b = i - 1 - a - w
          /\ (i <= 1 + d + b + t <=> i <= 1 + a + w + t)
      BY <2>6, <1>m, <1>n
    <3>2. WebLine'[i] = IF i <= 1 + d + b + t THEN stream[i - 1 - d - b] ELSE coming
      BY <2>1, <3>1 DEF At
    <3>3. WebLine[i] = IF i <= 1 + a + w + t THEN stream[i - 1 - a - w] ELSE coming
      BY <2>1, <3>1 DEF At
    <3> QED
      BY <3>1, <3>2, <3>3
  <2> QED
    BY <2>2, <2>3, <2>4, <2>5, <2>6
<1>10. Linked(WebLine, Length, sizes, noise)'
  <2>1. Linked(WebLine, Length, sizes, noise) /\ 0 \in Nat /\ 0 <= Length
    BY <1>l DEF WebInv
  <2>2. ASSUME NEW i \in 1..Length - 0 PROVE WebLine'[i] = WebLine[i + 0]
    <3>1. i \in 1..Length /\ i + 0 = i
      BY <1>l
    <3> QED
      BY <3>1, <1>8
  <2>3. Linked(WebLine', Length - 0, sizes, noise)
    BY <2>1, <2>2, <1>l, Behind
  <2>4. Length - 0 = Length
    BY <1>l
  <2> QED
    BY <2>3, <2>4, <1>0, <1>5
<1>11. Cut(First, wire)'
  <2>0. First' = 0
    BY <1>0 DEF First
  <2>1. ASSUME NEW i \in Nat, n + i <= w, FrameEnds(wire, n + i) PROVE FrameEnds(wire', i)
    <3>1. CASE n + i = w
      BY <3>1, <1>m, <1>n DEF FrameEnds
    <3>2. CASE n + i < w
      <4>1. i + 1 \in 1..w - n /\ n + i + 1 = n + (i + 1)
        BY <3>2, <1>n
      <4>2. IsHead(wire[n + i + 1])
        BY <3>2, <2>1, <1>p, <1>n DEF FrameEnds
      <4>3. wire'[i + 1] = wire[n + (i + 1)]
        BY <4>1, <1>2
      <4>4. IsHead(wire'[i + 1])
        BY <4>1, <4>2, <4>3
      <4>5. i < b
        BY <3>2, <1>m, <1>n
      <4> QED
        BY <4>4, <4>5, <1>m DEF FrameEnds
    <3> QED
      BY <3>1, <3>2, <2>1, <1>n
  <2>2. FrameEnds(wire', 0) /\ 0 <= b
    <3>1. FrameEnds(wire, n) /\ n + 0 = n /\ 0 \in Nat
      BY <1>c, <1>n DEF Cut
    <3> QED
      BY <3>1, <2>1, <1>n
  <2>5. ASSUME NEW i \in 1..b, IsHead(wire'[i])
        PROVE  /\ wire'[i][2] \in 0..MaxFrame /\ i + wire'[i][2] <= b
               /\ FrameEnds(wire', i + wire'[i][2])
               /\ \A m \in i + 1..i + wire'[i][2] : ~IsHead(wire'[m])
    <3>0. i \in 1..w - n /\ n + i \in 1..w
      BY <1>m, <1>n
    <3>1. wire'[i] = wire[n + i]
      BY <3>0, <1>2
    <3>2. PICK z \in 0..MaxFrame : z = wire[n + i][2]
      BY <3>0, <3>1, <2>5, <1>c, <1>p DEF Cut
    <3>3. /\ n + i + z <= w /\ FrameEnds(wire, n + i + z)
          /\ \A m \in n + i + 1..n + i + z : ~IsHead(wire[m])
      BY <3>0, <3>1, <3>2, <2>5, <1>c, <1>p DEF Cut
    <3>4. /\ z \in Nat /\ i + z \in Nat /\ n + i + z = n + (i + z) /\ i + z <= b
      BY <3>3, <1>m, <1>n, FrameNumbers
    <3>5. FrameEnds(wire', i + z)
      BY <3>3, <3>4, <2>1
    <3>6. ASSUME NEW m \in i + 1..i + z PROVE ~IsHead(wire'[m])
      <4>1. m \in 1..w - n /\ n + m \in n + i + 1..n + i + z
        BY <3>4, <1>m, <1>n
      <4> QED
        BY <4>1, <3>3, <1>2
    <3> QED
      BY <3>1, <3>2, <3>4, <3>5, <3>6
  <2> QED
    <3>1. PICK v \in Seq(Int \X Int) : v = wire' /\ Len(v) = b
      BY <1>2, <1>m
    <3>2. Cut(0, v)
      BY <3>1, <2>2, <2>5 DEF Cut
    <3> QED
      BY <3>1, <3>2, <2>0
<1>13. Web!PacksIntact' /\ Web!BrokenByNoise'
  BY <1>0 DEF WebInv, Web!PacksIntact, Web!BrokenByNoise
<1> QED
  BY <1>0, <1>3, <1>4, <1>10, <1>11, <1>13 DEF WebInv

(* The pack in front of total_data is taken, head and body. *)
LEMMA GetPackStep == ASSUME WebInv, MaxBody < Short, Web!GetPack PROVE WebInv'
<1>t. WebTypes /\ AllBytes
  BY DEF WebInv
<1>l. /\ Len(total_data) \in Nat /\ Len(wire) \in Nat /\ Len(stream) \in Nat
      /\ Len(packs) \in Nat /\ Len(sizes) \in Nat /\ Length \in Nat
  BY <1>t, LineParts
<1>p. PICK a \in Nat, w \in Nat, t \in Nat :
        a = Len(total_data) /\ w = Len(wire) /\ t = Len(stream)
  BY <1>l
<1>q. /\ stage = "packs" /\ Web!Whole /\ Len(total_data) >= HeadLen /\ ~Web!Unflagged
      /\ sizes' = sizes /\ stream' = stream /\ noise' = noise /\ wire' = wire
      /\ stage' = stage /\ low' = low /\ high' = high
  BY DEF Web!GetPack, Web!Whole, Web!Unflagged
<1>f. PICK p \in 1..Len(sizes) : /\ p = Len(packs) + 1 /\ noise # Len(packs)
                                 /\ total_data # <<>> /\ total_data[1] = FirstOf(p)
                                 /\ total_data[HeadLen][1] = p
  BY <1>q, FrontKind
<1>x. PICK x \in Nat : x = sizes[p] /\ Web!datasize = x
  <2>1. sizes[p] \in Nat /\ sizes[p] < Short /\ Short \in Nat
    BY <1>t, SizeOf, FrameNumbers
  <2>2. sizes[p] % Short = sizes[p]
    BY <2>1, SmallRest
  <2> QED
    BY <2>1, <2>2, <1>f DEF Web!datasize
<1>z. PICK z \in Nat : z = BodyOf(p, sizes) /\ 1 + z = HeadLen + x
  BY <1>t, <1>x, SizeOf, FrameNumbers
<1>0. /\ packs' = Append(packs, SubSeq(total_data, 1, 1 + z))
      /\ total_data' = SubSeq(total_data, 1 + z + 1, Len(total_data))
      /\ 1 + z <= a
  BY <1>x, <1>z, <1>p, <1>q DEF Web!GetPack, Web!Whole
<1>n. PICK y \in Nat : y = 1 + z /\ y \in 0..a
  BY <1>0
<1>r. /\ SubSeq(total_data, 1, y) \in Seq(Int \X Int) /\ Len(SubSeq(total_data, 1, y)) = y
      /\ \A i \in 1..y : SubSeq(total_data, 1, y)[i] = total_data[i]
      /\ SubSeq(total_data, y + 1, a) \in Seq(Int \X Int)
      /\ Len(SubSeq(total_data, y + 1, a)) = a - y
      /\ \A i \in 1..a - y : SubSeq(total_data, y + 1, a)[i] = total_data[y + i]
  <2>1. total_data \in Seq(Int \X Int)
    BY <1>t DEF WebTypes
  <2>2. Splits(total_data, y, a, SubSeq(total_data, 1, y), SubSeq(total_data, y + 1, a))
    BY <2>1, <1>n, <1>p, Split
  <2> QED
    BY <2>2 DEF Splits
<1>1. /\ total_data' \in Seq(Int \X Int) /\ Len(total_data') = a - y
      /\ \A i \in 1..a - y : total_data'[i] = total_data[y + i]
  <2>1. total_data' = SubSeq(total_data, y + 1, a)
    BY <1>0, <1>n, <1>p
  <2> QED
    BY <2>1, <1>r
<1>b. \A i \in 0..z : total_data[i + 1] = <<p, i>>
  <2>1. \A i \in 0..z : i < Len(total_data)
    BY <1>0, <1>p
  <2> QED
    BY <2>1, <1>f, <1>q, <1>z, PackInFront
<1>2. SubSeq(total_data, 1, y) = Web!Bytes(p, x)
  <2>1. ASSUME NEW i \in 1..y PROVE SubSeq(total_data, 1, y)[i] = <<p, i - 1>>
    <3>1. i - 1 \in 0..z /\ (i - 1) + 1 = i
      BY <1>n
    <3>2. total_data[(i - 1) + 1] = <<p, i - 1>>
      BY <3>1, <1>b
    <3> QED
      BY <3>1, <3>2, <1>r
  <2>2. DOMAIN SubSeq(total_data, 1, y) = 1..y
    BY <1>r
  <2>3. SubSeq(total_data, 1, y) = [i \in 1..y |-> SubSeq(total_data, 1, y)[i]]
    BY <2>2, <1>r
  <2>4. SubSeq(total_data, 1, y) = [i \in 1..y |-> <<p, i - 1>>]
    BY <2>1, <2>3
  <2>5. y = HeadLen + x
    BY <1>n, <1>z
  <2> QED
    BY <2>4, <2>5 DEF Web!Bytes
<1>3. /\ packs' \in Seq(Seq(Int \X Int)) /\ Len(packs') = p
      /\ \A i \in 1..p - 1 : packs'[i] = packs[i]
      /\ packs'[p] = Web!Bytes(p, x) /\ DOMAIN packs' = 1..p
  <2>1. packs \in Seq(Seq(Int \X Int)) /\ packs' = Append(packs, SubSeq(total_data, 1, y))
    BY <1>t, <1>0, <1>n DEF WebTypes
  <2>2. p - 1 = Len(packs) /\ p \in Nat /\ p = Len(packs) + 1
    BY <1>f, <1>l
  <2>3. PICK b \in Seq(Int \X Int) : b = SubSeq(total_data, 1, y) /\ b = Web!Bytes(p, x)
    BY <1>r, <1>2
  <2>4. /\ Append(packs, b) \in Seq(Seq(Int \X Int))
        /\ Len(Append(packs, b)) = Len(packs) + 1
        /\ \A i \in 1..Len(packs) : Append(packs, b)[i] = packs[i]
        /\ Append(packs, b)[Len(packs) + 1] = b
    BY <2>1, AppendProperties
  <2>5. packs' = Append(packs, b)
    BY <2>1, <2>3
  <2>6. packs' \in Seq(Seq(Int \X Int)) /\ Len(packs') = p /\ packs'[p] = b
    BY <2>2, <2>4, <2>5
  <2>7. \A i \in 1..p - 1 : packs'[i] = packs[i]
    BY <2>2, <2>4, <2>5
  <2>8. DOMAIN packs' = 1..p
    BY <2>6
  <2> QED
    BY <2>3, <2>6, <2>7, <2>8
<1>4. WebTypes'
  BY <1>q, <1>1, <1>3, <1>t DEF WebTypes
<1>m. PICK d \in Nat : d = a - y /\ Len(total_data') = d
  BY <1>1, <1>n
<1>5. AllBytes'
  <2>1. ASSUME NEW i \in 1..d PROVE IsByte(total_data'[i], sizes, noise)
    <3>1. y + i \in 1..a /\ i \in 1..a - y
      BY <1>m, <1>n
    <3> QED
      BY <3>1, <1>1, <1>p, <1>t DEF AllBytes
  <2> QED
    BY <1>q, <1>m, <1>t, <2>1 DEF AllBytes
<1>6. Length = a + w + t + 2 /\ Length' = Length - y /\ d + w + t + 2 = Length - y
      /\ y <= Length
  <2>1. Length = a + w + t + 2
    BY <1>p DEF Length
  <2>2. Length' = d + w + t + 2
    BY <1>q, <1>m, <1>p DEF Length
  <2> QED
    BY <2>1, <2>2, <1>m, <1>n
<1> DEFINE last == <<Len(packs), BodyOf(Len(packs), sizes)>>
           coming == <<Len(sizes) + 1, 0>>
<1>7. \A i \in 1..d + w + t + 2 : WebLine'[i]
        = At(i, <<p, z>>, total_data', d, wire, w, stream, t, coming)
  <2>1. BodyOf(p, sizes) = z
    BY <1>z
  <2>2. WebLine' = Line(<<p, z>>, total_data', wire, stream, coming)
    BY <2>1, <1>q, <1>3 DEF WebLine
  <2> HIDE DEF last, coming
  <2>3. \A i \in 1..d + w + t + 2 : Line(<<p, z>>, total_data', wire, stream, coming)[i]
          = At(i, <<p, z>>, total_data', d, wire, w, stream, t, coming)
    <3>1. Spells(Line(<<p, z>>, total_data', wire, stream, coming), <<p, z>>,
                 total_data', d, wire, w, stream, t, coming)
      BY <1>p, <1>m, LineSpells
    <3> QED
      BY <3>1 DEF Spells
  <2> QED
    BY <2>2, <2>3
<1>8. \A i \in 1..a + w + t + 2 : WebLine[i]
        = At(i, last, total_data, a, wire, w, stream, t, coming)
  <2>1. Spells(WebLine, <<Len(packs), BodyOf(Len(packs), sizes)>>, total_data, a,
               wire, w, stream, t, <<Len(sizes) + 1, 0>>)
    BY <1>p, LineHere
  <2> QED
    BY <2>1, <1>p DEF Spells
<1> HIDE DEF last, coming
<1>9. ASSUME NEW i \in 1..Length - y PROVE WebLine'[i] = WebLine[i + y]
  <2>0. i \in 1..d + w + t + 2 /\ i + y \in 1..a + w + t + 2
    BY <1>6, <1>n
  <2>1. /\ WebLine'[i] = At(i, <<p, z>>, total_data', d, wire, w, stream, t, coming)
        /\ WebLine[i + y] = At(i + y, last, total_data, a, wire, w, stream, t, coming)
    BY <2>0, <1>7, <1>8
  <2>2. CASE i = 1
    <3>1. i + y # 1 /\ i + y <= 1 + a /\ i + y - 1 = z + 1 /\ z \in 0..z
      BY <2>2, <1>n
    <3>2. WebLine'[i] = <<p, z>> /\ WebLine[i + y] = total_data[i + y - 1]
      BY <2>1, <2>2, <3>1 DEF At
    <3>3. total_data[z + 1] = <<p, z>>
      BY <3>1, <1>b
    <3> QED
      BY <3>1, <3>2, <3>3
  <2>3. CASE i # 1 /\ i <= 1 + d
    <3>1. i + y # 1 /\ i + y <= 1 + a
      BY <2>3, <1>m, <1>n
    <3>2. PICK m \in 1..a - y : m = i - 1
      BY <2>3, <1>m, <1>n
    <3>3. i - 1 = m /\ i + y - 1 = y + m
      BY <3>2
    <3>4. WebLine'[i] = total_data'[i - 1] /\ WebLine[i + y] = total_data[i + y - 1]
      BY <2>1, <2>3, <3>1 DEF At
    <3>5. total_data'[m] = total_data[y + m]
      BY <1>1
    <3> QED
      BY <3>3, <3>4, <3>5
  <2>4. CASE i > 1 + d /\ i <= 1 + d + w
    <3>1. /\ i # 1 /\ ~(i <= 1 + d) /\ i + y # 1 /\ ~(i + y <= 1 + a)
          /\ i + y <= 1 + a + w /\ i - 1 - d = i + y - 1 - a
      BY <2>4, <1>m, <1>n
    <3>2. WebLine'[i] = wire[i - 1 - d] /\ WebLine[i + y] = wire[i + y - 1 - a]
      BY <2>1, <2>4, <3>1 DEF At
    <3> QED
      BY <3>1, <3>2
  <2>5. CASE i > 1 + d + w
    <3>1. /\ i # 1 /\ ~(i <= 1 + d) /\ i + y # 1 /\ ~(i + y <= 1 + a)
          /\ ~(i <= 1 + d + w) /\ ~(i + y <= 1 + a + w)
          /\ i - 1 - d - w = i + y - 1 - a - w
          /\ (i <= 1 + d + w + t <=> i + y <= 1 + a + w + t)
      BY <2>5, <1>m, <1>n
    <3>2. WebLine'[i] = IF i <= 1 + d + w + t THEN stream[i - 1 - d - w] ELSE coming
      BY <2>1, <3>1 DEF At
    <3>3. WebLine[i + y] = IF i + y <= 1 + a + w + t THEN stream[i + y - 1 - a - w]
                           ELSE coming
      BY <2>1, <3>1 DEF At
    <3> QED
      BY <3>1, <3>2, <3>3
  <2> QED
    BY <2>2, <2>3, <2>4, <2>5
<1>10. Linked(WebLine, Length, sizes, noise)'
  <2>1. Linked(WebLine, Length, sizes, noise)
    BY DEF WebInv
  <2>2. Linked(WebLine', Length - y, sizes, noise)
    BY <2>1, <1>6, <1>9, <1>l, Behind
  <2> QED
    BY <2>2, <1>q, <1>6
<1>11. Cut(First, wire)'
  BY <1>q DEF WebInv, Cut, First, FrameEnds, Web!datalen
<1>12. Web!PacksIntact'
  <2>1. p <= IF noise >= 0 THEN noise ELSE Len(sizes)
    <3>1. Len(packs) <= IF noise >= 0 THEN noise ELSE Len(sizes)
      BY DEF WebInv, Web!PacksIntact
    <3>2. noise \in Int
      BY <1>t DEF WebTypes
    <3> QED
      BY <3>1, <3>2, <1>f, <1>l
  <2>2. ASSUME NEW i \in 1..p PROVE packs'[i] = Web!Bytes(i, sizes[i])
    <3>1. CASE i = p
      BY <3>1, <1>3, <1>x
    <3>2. CASE i # p
      <4>1. i \in 1..p - 1 /\ i \in 1..Len(packs)
        BY <3>2, <1>f, <1>l
      <4>2. DOMAIN packs = 1..Len(packs)
        BY <1>t DEF WebTypes
      <4> QED
        BY <4>1, <4>2, <1>3 DEF WebInv, Web!PacksIntact
    <3> QED
      BY <3>1, <3>2
  <2> QED
    BY <2>1, <2>2, <1>3, <1>q DEF Web!PacksIntact
<1>13. Web!BrokenByNoise'
  BY <1>q DEF WebInv, Web!BrokenByNoise
<1> QED
  BY <1>q, <1>4, <1>5, <1>10, <1>11, <1>12, <1>13 DEF WebInv

(* The reader gives up, or turns to the next frame. *)
LEMMA LeaveStep ==
    ASSUME WebInv, Web!Unlawful \/ Web!NextFrame
    PROVE  WebInv'
<1>1. /\ sizes' = sizes /\ stream' = stream /\ noise' = noise /\ wire' = wire
      /\ low' = low /\ high' = high /\ total_data' = total_data /\ packs' = packs
      /\ stage = "packs"
      /\ \/ stage' = "broken" /\ Web!Unflagged
         \/ stage' = "head" /\ ~Web!Unflagged /\ ~Web!Whole
  BY DEF Web!Unlawful, Web!NextFrame
<1>2. WebTypes'
  BY <1>1 DEF WebInv, WebTypes
<1>3. AllBytes' /\ Linked(WebLine, Length, sizes, noise)'
  <2>1. WebLine' = WebLine /\ Length' = Length
    BY <1>1 DEF WebLine, Length
  <2> QED
    BY <1>1, <2>1 DEF WebInv, AllBytes
<1>4. Cut(First, wire)'
  BY <1>1 DEF WebInv, Cut, First, FrameEnds, Web!datalen
<1>5. stage' \in {"head", "data"} => ~Web!Unflagged' /\ ~Web!Whole'
  BY <1>1 DEF Web!Unflagged, Web!Whole, Web!Flagged, Web!datasize
<1>6. Web!PacksIntact'
  BY <1>1 DEF WebInv, Web!PacksIntact
<1>7. Web!BrokenByNoise'
  <2>1. CASE stage' = "broken" /\ Web!Unflagged
    <3>1. noise = Len(packs) /\ Len(packs) \in Nat
      BY <2>1, FrontKind, LineParts DEF Web!Unflagged, WebInv
    <3> QED
      BY <1>1, <3>1 DEF Web!BrokenByNoise
  <2>2. CASE stage' = "head"
    BY <2>2 DEF Web!BrokenByNoise
  <2> QED
    BY <1>1, <2>1, <2>2
<1> QED
  BY <1>2, <1>3, <1>4, <1>5, <1>6, <1>7 DEF WebInv

(* total_data does not end within a pack when all has been read: the byte  *)
(* after it is the head of the pack to come.                               *)
LEMMA NotEnded ==
    ASSUME WebInv, wire = <<>>, stream = <<>>, NEW a \in Nat, a = Len(total_data), a > 0,
           NEW p \in 1..Len(sizes), NEW n \in Nat, n < BodyOf(p, sizes),
           total_data[a] = <<p, n>>
    PROVE  FALSE
<1>t. WebTypes
  BY DEF WebInv
<1>l. /\ Length = a + 2 /\ Len(sizes) \in Nat /\ WebLine[a + 2] = <<Len(sizes) + 1, 0>>
      /\ BodyOf(p, sizes) \in Nat
  BY <1>t, LineParts, SizeOf DEF Length
<1>1. a \in 1..Len(total_data) /\ WebLine[a + 1] = <<p, n>>
  BY <1>t, LineParts
<1>2. ~IsHead(WebLine[a + 1]) /\ ~IsHead(WebLine[a + 2])
  BY <1>1, <1>l DEF IsHead
<1>3. Neighbours(WebLine, Length, a + 1, a + 2)
  BY <1>l, <1>2 DEF Neighbours
<1>4. a + 1 \in 1..Length /\ a + 2 \in 1..Length
  BY <1>l
<1>5. WebLine[a + 2] = After(<<p, n>>, sizes, noise)
  BY <1>1, <1>3, <1>4 DEF WebInv, Linked
<1>6. After(<<p, n>>, sizes, noise) = <<p, n + 1>>
  BY <1>l DEF After, Web!Noise
<1>7. n + 1 # 0
  OBVIOUS
<1> QED
  BY <1>5, <1>6, <1>7, <1>l

(* Nothing is left over when all has been read: an incomplete pack in      *)
(* total_data would need a byte that is not the head of the next pack.     *)
LEMMA AllTaken ==
    ASSUME WebInv, MaxBody < Short, stage = "head", wire = <<>>, stream = <<>>
    PROVE  Len(packs) = Len(sizes)
<1>t. WebTypes /\ AllBytes /\ ~Web!Unflagged /\ ~Web!Whole
  BY DEF WebInv
<1>l. /\ Len(total_data) \in Nat /\ Len(packs) \in Nat /\ Len(sizes) \in Nat
      /\ Length \in Nat /\ Length = Len(total_data) + 2
      /\ WebLine[Length] = <<Len(sizes) + 1, 0>>
  BY <1>t, LineParts DEF Length
<1>1. CASE total_data = <<>>
  <2>1. Length = 2 /\ WebLine[2] = <<Len(sizes) + 1, 0>>
    BY <1>1, <1>l
  <2>2. WebLine[1] = <<Len(packs), BodyOf(Len(packs), sizes)>>
    BY <1>t, LineParts
  <2>3. Neighbours(WebLine, Length, 1, 2)
    BY <2>1, <2>2, <1>l DEF Neighbours, IsHead
  <2>4. WebLine[2] = After(WebLine[1], sizes, noise)
    <3>1. 1 \in 1..Length /\ 2 \in 1..Length
      BY <2>1
    <3>2. Linked(WebLine, Length, sizes, noise)
      BY DEF WebInv
    <3> QED
      BY <3>1, <3>2, <2>3 DEF Linked
  <2>5. WebLine[1] # Web!Noise
    BY <2>2 DEF Web!Noise, BodyOf
  <2>6. WebLine[2] = Web!Noise \/ WebLine[2] = <<Len(packs) + 1, 0>>
    BY <2>2, <2>4, <2>5, LastTaken DEF After
  <2> QED
    BY <2>1, <2>6, <1>l DEF Web!Noise
<1>a. PICK a \in Nat : a = Len(total_data)
  BY <1>l
<1>2. CASE total_data # <<>> /\ noise # Len(packs)
  <2>1. PICK p \in 1..Len(sizes) : p = Len(packs) + 1 /\ total_data[1] = FirstOf(p)
    BY <1>2, FrontHead
  <2>2. a > 0 /\ 0 + a = a
    BY <1>2, <1>a, <1>t DEF WebTypes
  <2>3. BodyOf(p, sizes) \in Nat /\ a <= BodyOf(p, sizes)
    <3>1. /\ sizes[p] \in Nat /\ sizes[p] < Short /\ Short \in Nat
          /\ BodyOf(p, sizes) = HeadLen - 1 + sizes[p] /\ BodyOf(p, sizes) \in Nat
          /\ HeadLen \in Nat
      BY <1>t, SizeOf, FrameNumbers
    <3>2. sizes[p] % Short = sizes[p]
      BY <3>1, SmallRest
    <3>3. a >= HeadLen => ~(a >= HeadLen + sizes[p])
      <4>1. a >= HeadLen => total_data[HeadLen][1] = p
        BY <1>2, <1>a, <2>1, FrontKind
      <4> QED
        BY <1>t, <1>a, <4>1, <3>2 DEF Web!Whole, Web!Unflagged, Web!datasize
    <3> QED
      BY <3>1, <3>3
  <2>4. \A n \in 0..BodyOf(p, sizes) : n < a => total_data[n + 1] = <<p, n>>
    BY <1>2, <1>a, <2>1, PackInFront
  <2>5. total_data[a] = <<p, a - 1>>
    <3>1. a - 1 \in 0..BodyOf(p, sizes) /\ a - 1 < a /\ (a - 1) + 1 = a
      BY <2>2, <2>3
    <3> QED
      BY <2>4, <3>1
  <2>6. a - 1 \in Nat /\ a - 1 < BodyOf(p, sizes)
    BY <2>2, <2>3
  <2> QED
    BY <1>a, <2>2, <2>5, <2>6, NotEnded
<1>3. CASE total_data # <<>> /\ noise = Len(packs)
  <2>1. total_data[1] = Web!Noise /\ 1 \in 1..Len(total_data)
    BY <1>3, FrontByte
  <2>2. a < HeadLen /\ a >= 1
    BY <1>a, <1>3, <1>t, <2>1, FrontKind, FrameNumbers
  <2>3. CASE a = 1
    <3>1. WebLine[2] = Web!Noise /\ Length = 3 /\ WebLine[3] = <<Len(sizes) + 1, 0>>
      <4>1. 1 + 1 = 2
        OBVIOUS
      <4> QED
        BY <1>a, <1>l, <1>t, <2>1, <2>3, <4>1, LineParts
    <3>2. Neighbours(WebLine, Length, 2, 3) /\ 2 \in 1..Length /\ 3 \in 1..Length
      BY <1>l, <3>1 DEF Neighbours, IsHead, Web!Noise
    <3>3. WebLine[3] = After(Web!Noise, sizes, noise)
      BY <3>1, <3>2 DEF WebInv, Linked
    <3>4. <<Len(sizes) + 1, 0>> = <<noise + 1, 0>>
      BY <3>1, <3>3 DEF After
    <3> QED
      BY <1>l, <1>3, <3>4
  <2>4. CASE a > 1
    <3>1. 1 \in 1..Len(total_data) - 1 /\ 1 + 1 = 2 /\ 2 \in 1..Len(total_data)
      BY <1>a, <2>4
    <3>2. total_data[2] = FirstOf(noise + 1)
      BY <2>1, <3>1, NextByte DEF After, FirstOf
    <3>3. noise + 1 \in 1..Len(sizes)
      <4>1. IsByte(total_data[2], sizes, noise)
        BY <1>t, <3>1 DEF AllBytes
      <4>2. total_data[2][1] = noise + 1 /\ total_data[2] # Web!Noise
        BY <1>l, <1>3, <3>2 DEF FirstOf, Web!Noise
      <4> QED
        BY <4>1, <4>2 DEF IsByte
    <3>4. PICK p \in 1..Len(sizes) : p = noise + 1
      BY <3>3
    <3>5. 1 \in Nat /\ 1 < Len(total_data) /\ total_data[1 + 1] = FirstOf(p)
      BY <1>a, <2>4, <3>1, <3>2, <3>4
    <3>6. \A n \in 0..BodyOf(p, sizes) : 1 + n < a => total_data[1 + n + 1] = <<p, n>>
      BY <1>a, <3>5, PackFollows
    <3>7. /\ a - 2 \in 0..BodyOf(p, sizes) /\ 1 + (a - 2) < a /\ 1 + (a - 2) + 1 = a
          /\ a - 2 \in Nat /\ a - 2 < BodyOf(p, sizes)
      BY <1>t, <2>2, <2>4, SizeOf, FrameNumbers
    <3>8. total_data[a] = <<p, a - 2>>
      BY <3>6, <3>7
    <3> QED
      BY <1>a, <2>2, <3>7, <3>8, NotEnded
  <2> QED
    BY <2>2, <2>3, <2>4
<1> QED
  BY <1>1, <1>2, <1>3

(* As long as the bodies of packs are below 65536 bytes, and until a       *)
(* payload comes in parts or is read with another length than its own: the *)
(* packs come out of the frames whole and in order, however the client     *)
(* cuts its stream, inside the heads of packs too; none is held back once  *)
(* the reader waits for the next frame and all that was sent has been      *)
(* read; only noise breaks the connection.                                 *)
THEOREM FramesReadRight == MaxBody < Short => (Web!Spec => []FramesInv)
<1> SUFFICES ASSUME MaxBody < Short
             PROVE  Web!Spec => []FramesInv
  OBVIOUS
<1>1. Web!Init => (exact => WebInv)
  BY WebInit
<1>2. (exact => WebInv) /\ [Web!Next]_(Web!vars) => (exact => WebInv)'
  <2> SUFFICES ASSUME exact => WebInv, [Web!Next]_(Web!vars), exact' PROVE WebInv'
    OBVIOUS
  <2>0. WebInv
    BY DEF Web!Next, Web!vars, Web!SendPack, Web!SendNoise, Web!SendFrame, Web!ReadHead,
       Web!ReadData, Web!GetPack, Web!Unlawful, Web!NextFrame
  <2>1. CASE Web!Next
    BY <2>0, <2>1, SendPackStep, SendNoiseStep, SendFrameStep, ReadHeadStep, ReadDataStep,
       GetPackStep, LeaveStep DEF Web!Next
  <2>2. CASE UNCHANGED Web!vars
    BY <2>0, <2>2 DEF Web!vars, WebInv, WebTypes, AllBytes, WebLine, Length, First, Cut,
       FrameEnds, Web!Unflagged, Web!Whole, Web!Flagged, Web!datasize, Web!datalen,
       Web!PacksIntact, Web!BrokenByNoise
  <2> QED
    BY <2>1, <2>2
<1>3. (exact => WebInv) => FramesInv
  BY AllTaken DEF FramesInv, Web!FramesInv, Web!NoneHeldBack, WebInv
<1> QED
  BY <1>1, <1>2, <1>3, PTL DEF Web!Spec

-----------------------------------------------------------------------------
(* Division, and how the blocks of a wheel lie in the range of a tick. *)
LEMMA Division ==
    ASSUME NEW x \in Int, NEW m \in Nat \ {0}
    PROVE  /\ x \div m \in Int /\ x % m \in 0..m - 1
           /\ x = m * (x \div m) + (x % m)
  OBVIOUS

LEMMA Larger ==
    ASSUME NEW m \in Nat \ {0}, NEW d \in Int
    PROVE  (d >= 1 => m * d >= m) /\ (d <= -1 => m * d <= -m)
<1>1. d >= 1 => m * d >= m
  OBVIOUS
<1>2. d <= -1 => m * d <= -m
  OBVIOUS
<1> QED
  BY <1>1, <1>2

LEMMA OneQuotient ==
    ASSUME NEW m \in Nat \ {0}, NEW q \in Int, NEW r \in 0..m - 1,
           NEW p \in Int, NEW s \in 0..m - 1, m * q + r = m * p + s
    PROVE  q = p /\ r = s
<1>0. m * (q - p) = s - r
  OBVIOUS
<1>1. ~(q - p >= 1) /\ ~(q - p <= -1)
  BY <1>0, Larger
<1>2. q = p
  BY <1>1
<1> QED
  BY <1>2

LEMMA DividedBy ==
    ASSUME NEW m \in Nat \ {0}, NEW q \in Int, NEW r \in 0..m - 1, NEW x \in Int,
           x = m * q + r
    PROVE  x \div m = q /\ x % m = r
<1>1. /\ x \div m \in Int /\ x % m \in 0..m - 1
      /\ x = m * (x \div m) + (x % m)
  BY Division
<1> QED
  BY <1>1, OneQuotient

(* x is q blocks of m ticks, and r more. *)
Consists(x, m, q, r) ==
    /\ x \in Int /\ m \in Nat \ {0} /\ q \in Int /\ r \in 0..m - 1
    /\ x = m * q + r

LEMMA Divided ==
    ASSUME NEW m, NEW q, NEW r, NEW x, Consists(x, m, q, r)
    PROVE  x \div m = q /\ x % m = r
  BY DividedBy DEF Consists

(* T ticks are M blocks of S. *)
Blocks(T, S, M) ==
    /\ T \in Nat \ {0} /\ S \in Nat \ {0} /\ M \in Nat \ {0} /\ T = S * M

LEMMA Parts ==
    ASSUME NEW x \in Int, NEW m \in Nat \ {0}
    PROVE  \E q, r : Consists(x, m, q, r) /\ q = x \div m /\ r = x % m
<1>1. Consists(x, m, x \div m, x % m)
  BY Division DEF Consists
<1> QED
  BY <1>1

LEMMA Spread ==
    ASSUME NEW a \in Int, NEW b \in Int, NEW c \in Int
    PROVE  a * (b + c) = a * b + a * c /\ a * (b - c) = a * b - a * c
  OBVIOUS

(* The rest of a difference. *)
LEMMA Around ==
    ASSUME NEW T \in Nat \ {0}, NEW x \in 0..T - 1, NEW y \in 0..T - 1
    PROVE  (x - y) % T = IF y <= x THEN x - y ELSE x - y + T
<1>1. CASE y <= x
  <2>1. Consists(x - y, T, 0, x - y)
    BY <1>1 DEF Consists
  <2> QED
    BY <1>1, <2>1, Divided
<1>2. CASE ~(y <= x)
  <2>1. Consists(x - y, T, -1, x - y + T)
    BY <1>2 DEF Consists
  <2> QED
    BY <1>2, <2>1, Divided
<1> QED
  BY <1>1, <1>2

(* The tick d after y. *)
LEMMA Onward ==
    ASSUME NEW T \in Nat \ {0}, NEW y \in 0..T - 1, NEW d \in 0..T - 1
    PROVE  /\ (y + d) % T = IF y + d < T THEN y + d ELSE y + d - T
           /\ (y + d) % T \in 0..T - 1
           /\ (((y + d) % T) - y) % T = d
<1>1. (y + d) % T = IF y + d < T THEN y + d ELSE y + d - T
  <2>1. CASE y + d < T
    <3>1. Consists(y + d, T, 0, y + d)
      BY <2>1 DEF Consists
    <3> QED
      BY <2>1, <3>1, Divided
  <2>2. CASE ~(y + d < T)
    <3>1. Consists(y + d, T, 1, y + d - T)
      BY <2>2 DEF Consists
    <3> QED
      BY <2>2, <3>1, Divided
  <2> QED
    BY <2>1, <2>2
<1>2. PICK z \in 0..T - 1 : z = (y + d) % T
  BY <1>1
<1>3. (z - y) % T = IF y <= z THEN z - y ELSE z - y + T
  BY Around
<1> QED
  BY <1>1, <1>2, <1>3

LEMMA BlockFits ==
    ASSUME NEW S \in Nat \ {0}, NEW M \in Nat \ {0}, NEW q \in Int, S * q < S * M
    PROVE  S * q + S <= S * M
<1>1. S * (q - M) < 0
  OBVIOUS
<1>2. ~(q - M >= 0)
  BY <1>1
<1>3. q - M <= -1
  BY <1>2
<1>4. S * (q - M) <= -S
  BY <1>3, Larger
<1> QED
  BY <1>4

(* Ticks of the same block of S ticks have the same quotient. *)
LEMMA SameBlock ==
    ASSUME NEW S, NEW M, NEW T, Blocks(T, S, M),
           NEW L \in 0..T - 1, NEW A \in Nat, (L % S) + A < S
    PROVE  L + A < T /\ (L + A) \div S = L \div S /\ (L + A) % S = (L % S) + A
<1>0. S \in Nat \ {0} /\ M \in Nat \ {0} /\ T \in Nat \ {0} /\ L \in Int
  BY DEF Blocks
<1>1. PICK q, r : Consists(L, S, q, r) /\ q = L \div S /\ r = L % S
  BY <1>0, Parts
<1>2. q \in Int /\ r \in 0..S - 1 /\ L = S * q + r
  BY <1>1 DEF Consists
<1>3. S * q < S * M
  BY <1>0, <1>2 DEF Blocks
<1>4. S * q + S <= T
  BY <1>0, <1>2, <1>3, BlockFits DEF Blocks
<1>5. L + A < T /\ Consists(L + A, S, q, r + A)
  BY <1>0, <1>1, <1>2, <1>4 DEF Consists
<1>6. (L + A) \div S = q /\ (L + A) % S = r + A
  BY <1>5, Divided
<1> QED
  BY <1>1, <1>5, <1>6

(* The tick after L is in the same block, or begins one. *)
LEMMA NextRest ==
    ASSUME NEW S, NEW M, NEW T, Blocks(T, S, M), 1 < T, NEW L \in 0..T - 1
    PROVE  \/ ((L + 1) % T) % S = (L % S) + 1
           \/ ((L + 1) % T) % S = 0
<1>0. S \in Nat \ {0} /\ M \in Nat \ {0} /\ T \in Nat \ {0} /\ L \in Int
  BY DEF Blocks
<1>1. PICK q, r : Consists(L, S, q, r) /\ q = L \div S /\ r = L % S
  BY <1>0, Parts
<1>2. (L + 1) % T = IF L + 1 < T THEN L + 1 ELSE 0
  <2>1. 1 \in 0..T - 1
    BY <1>0
  <2>2. (L + 1) % T = IF L + 1 < T THEN L + 1 ELSE L + 1 - T
    BY <1>0, <2>1, Onward
  <2> QED
    BY <1>0, <2>2
<1>3. CASE r + 1 < S
  <2>1. (L % S) + 1 < S /\ 1 \in Nat
    BY <1>1, <1>3
  <2>2. L + 1 < T /\ (L + 1) % S = (L % S) + 1
    BY <2>1, SameBlock
  <2> QED
    BY <2>2, <1>2
<1>4. CASE ~(r + 1 < S)
  <2>1. Consists(L + 1, S, q + 1, 0)
    <3>1. q \in Int /\ r \in 0..S - 1 /\ L = S * q + r
      BY <1>1 DEF Consists
    <3>2. S * (q + 1) = S * q + S * 1
      BY <1>0, <3>1, Spread
    <3>3. L + 1 = S * (q + 1) + 0
      BY <1>0, <1>4, <3>1, <3>2
    <3> QED
      BY <1>0, <3>1, <3>3 DEF Consists
  <2>2. Consists(0, S, 0, 0)
    BY <1>0 DEF Consists
  <2>3. (L + 1) % S = 0 /\ 0 % S = 0
    BY <2>1, <2>2, Divided
  <2> QED
    BY <1>2, <2>3
<1> QED
  BY <1>3, <1>4

(* Two ticks less than R apart, with the same rest by R, are the same. *)
LEMMA SameRest ==
    ASSUME NEW R, NEW M, NEW T, Blocks(T, R, M),
           NEW L \in 0..T - 1, NEW e \in 0..T - 1, e % R = L % R, (e - L) % T < R
    PROVE  e = L
<1>0. R \in Nat \ {0} /\ M \in Nat \ {0} /\ T \in Nat \ {0} /\ L \in Int /\ e \in Int
  BY DEF Blocks
<1>1. PICK q, r : Consists(L, R, q, r) /\ q = L \div R /\ r = L % R
  BY <1>0, Parts
<1>2. PICK p, s : Consists(e, R, p, s) /\ p = e \div R /\ s = e % R
  BY <1>0, Parts
<1>s. r = s
  BY <1>1, <1>2
<1>n. /\ q \in Int /\ r \in 0..R - 1 /\ L = R * q + r
      /\ p \in Int /\ e = R * p + r
  BY <1>1, <1>2, <1>s DEF Consists
<1>3. (e - L) % T = IF L <= e THEN e - L ELSE e - L + T
  BY <1>0, Around
<1>4. R * (p - q) = R * p - R * q
  BY <1>0, <1>n, Spread
<1>5. CASE L <= e
  <2>1. e - L \in 0..R - 1
    BY <1>0, <1>3, <1>5
  <2>2. Consists(e - L, R, 0, e - L) /\ Consists(e - L, R, p - q, 0)
    BY <1>0, <1>n, <1>4, <2>1 DEF Consists
  <2>3. (e - L) % R = e - L /\ (e - L) % R = 0
    BY <2>2, Divided
  <2> QED
    BY <1>0, <2>3
<1>6. CASE ~(L <= e)
  <2>0. R * (p - q + M) = R * (p - q) + R * M
    BY <1>0, <1>n, Spread
  <2>1. e - L + T \in 0..R - 1
    BY <1>0, <1>3, <1>6
  <2>2. Consists(e - L + T, R, 0, e - L + T)
    BY <1>0, <2>1 DEF Consists
  <2>3. Consists(e - L + T, R, p - q + M, 0)
    BY <1>0, <1>n, <1>4, <2>0 DEF Consists, Blocks
  <2>4. (e - L + T) % R = e - L + T /\ (e - L + T) % R = 0
    BY <2>2, <2>3, Divided
  <2> QED
    BY <1>0, <2>4
<1> QED
  BY <1>5, <1>6

(* The start of a block of S * N ticks starts a block of S ticks, and its  *)
(* digit is 0.                                                             *)
LEMMA ZeroDigit ==
    ASSUME NEW S \in Nat \ {0}, NEW N \in Nat \ {0}, NEW L \in Int, L % (S * N) = 0
    PROVE  L % S = 0 /\ (L \div S) % N = 0
<1>0. S * N \in Nat \ {0}
  OBVIOUS
<1>1. PICK q, r : Consists(L, S * N, q, r) /\ q = L \div (S * N) /\ r = L % (S * N)
  BY <1>0, Parts
<1>2. q \in Int /\ L = (S * N) * q
  BY <1>1 DEF Consists
<1>3. Consists(L, S, N * q, 0) /\ Consists(N * q, N, q, 0)
  BY <1>2 DEF Consists
<1> QED
  BY <1>3, Divided

(* The tick x, counted from the tick last. *)
TicksTo(x, last) == (x - last) % Layer!Ticks

LEMMA LayerNumbers ==
    /\ TVR_SIZE \in Nat \ {0, 1} /\ TVN_SIZE \in Nat \ {0, 1}
    /\ MaxLag \in Nat \ {0} /\ MaxLag < Layer!Ticks \div 2 /\ Budget \in Int
    /\ \A e \in Elapses : e \in Nat /\ e > 0 /\ e + MaxLag < Layer!Ticks \div 2
    /\ \A e \in AdjustElapses : e \in Nat /\ e + MaxLag < Layer!Ticks \div 2
    /\ Starts \subseteq 0..Layer!Ticks - 1
    /\ \A c \in Counts : c \in Nat \/ c = Forever
    /\ Forever \notin Nat
  BY SafePartsAssumption DEF Layer!TimerAssumption

LEMMA Product ==
    ASSUME NEW a \in Nat \ {0}, NEW b \in Nat \ {0, 1}
    PROVE  a * b \in Nat \ {0} /\ a < a * b
<1>1. a * (b - 1) >= a
  BY Larger
<1>2. a * (b - 1) = a * b - a * 1
  BY Spread
<1> QED
  BY <1>1, <1>2

LEMMA Narrower ==
    ASSUME NEW T, NEW S \in Nat \ {0}, NEW N \in Nat \ {0, 1}, NEW M, Blocks(T, S * N, M)
    PROVE  Blocks(T, S, N * M)
<1>1. M \in Nat \ {0} /\ T = (S * N) * M /\ T \in Nat \ {0}
  BY DEF Blocks
<1>2. N * M \in Nat \ {0}
  BY <1>1
<1>3. (S * N) * M = S * (N * M)
  BY <1>1
<1> QED
  BY <1>1, <1>2, <1>3 DEF Blocks

LEMMA Spans ==
    /\ Layer!Span(1) = TVR_SIZE /\ Layer!Span(5) = Layer!Ticks
    /\ \A k \in 1..5 : Layer!Span(k) \in Nat \ {0} /\ Layer!Span(k) > 1
    /\ \A k \in 2..5 : Layer!Span(k) = Layer!Span(k - 1) * TVN_SIZE
    /\ \A k \in 1..5 : \E M : Blocks(Layer!Ticks, Layer!Span(k), M)
<1> DEFINE S(k) == Layer!Span(k)
<1>1. /\ S(1) = TVR_SIZE /\ S(2) = S(1) * TVN_SIZE /\ S(3) = S(2) * TVN_SIZE
      /\ S(4) = S(3) * TVN_SIZE /\ S(5) = S(4) * TVN_SIZE /\ S(5) = Layer!Ticks
  BY LayerNumbers DEF Layer!Span, Layer!Ticks
<1> HIDE DEF S
<1>2. TVR_SIZE \in Nat \ {0, 1} /\ TVN_SIZE \in Nat \ {0, 1}
  BY LayerNumbers
<1>3. /\ S(1) \in Nat \ {0} /\ S(1) > 1
      /\ S(2) \in Nat \ {0} /\ S(2) > S(1)
  BY <1>1, <1>2, Product
<1>4. S(3) \in Nat \ {0} /\ S(3) > S(2)
  BY <1>1, <1>2, <1>3, Product
<1>5. S(4) \in Nat \ {0} /\ S(4) > S(3)
  BY <1>1, <1>2, <1>4, Product
<1>6. S(5) \in Nat \ {0} /\ S(5) > S(4)
  BY <1>1, <1>2, <1>5, Product
<1>7. Blocks(Layer!Ticks, S(5), 1)
  BY <1>1, <1>6 DEF Blocks
<1>8. PICK M4 : Blocks(Layer!Ticks, S(4), M4)
  BY <1>1, <1>2, <1>5, <1>7, Narrower
<1>9. PICK M3 : Blocks(Layer!Ticks, S(3), M3)
  BY <1>1, <1>2, <1>4, <1>8, Narrower
<1>10. PICK M2 : Blocks(Layer!Ticks, S(2), M2)
  BY <1>1, <1>2, <1>3, <1>9, Narrower
<1>11. PICK M1 : Blocks(Layer!Ticks, S(1), M1)
  BY <1>1, <1>2, <1>3, <1>10, Narrower
<1>12. \A k \in 1..5 : S(k) \in Nat \ {0} /\ S(k) > 1
  <2> SUFFICES ASSUME NEW k \in 1..5 PROVE S(k) \in Nat \ {0} /\ S(k) > 1
    OBVIOUS
  <2>1. k = 1 \/ k = 2 \/ k = 3 \/ k = 4 \/ k = 5
    OBVIOUS
  <2> QED
    BY <2>1, <1>3, <1>4, <1>5, <1>6
<1>13. \A k \in 2..5 : S(k) = S(k - 1) * TVN_SIZE
  <2> SUFFICES ASSUME NEW k \in 2..5 PROVE S(k) = S(k - 1) * TVN_SIZE
    OBVIOUS
  <2>1. \/ k = 2 /\ k - 1 = 1
        \/ k = 3 /\ k - 1 = 2
        \/ k = 4 /\ k - 1 = 3
        \/ k = 5 /\ k - 1 = 4
    OBVIOUS
  <2> QED
    BY <2>1, <1>1
<1>14. \A k \in 1..5 : \E M : Blocks(Layer!Ticks, S(k), M)
  <2> SUFFICES ASSUME NEW k \in 1..5 PROVE \E M : Blocks(Layer!Ticks, S(k), M)
    OBVIOUS
  <2>1. k = 1 \/ k = 2 \/ k = 3 \/ k = 4 \/ k = 5
    OBVIOUS
  <2> QED
    BY <2>1, <1>7, <1>8, <1>9, <1>10, <1>11
<1> QED
  BY <1>1, <1>12, <1>13, <1>14 DEF S

LEMMA TickNumbers ==
    /\ Layer!Ticks \in Nat \ {0} /\ 1 < Layer!Ticks
    /\ Layer!Ticks \div 2 \in Nat /\ Layer!Ticks \div 2 < Layer!Ticks
<1>1. Layer!Ticks \in Nat \ {0} /\ 1 < Layer!Ticks
  BY Spans
<1> QED
  BY <1>1

LEMMA TicksToTick ==
    ASSUME NEW x \in 0..Layer!Ticks - 1, NEW last \in 0..Layer!Ticks - 1
    PROVE  /\ TicksTo(x, last) \in 0..Layer!Ticks - 1
           /\ TicksTo(x, last) = IF last <= x THEN x - last ELSE x - last + Layer!Ticks
           /\ TicksTo(x, last) = 0 <=> x = last
<1>1. PICK T \in Nat \ {0} : T = Layer!Ticks
  BY TickNumbers
<1>2. TicksTo(x, last) = IF last <= x THEN x - last ELSE x - last + T
  BY <1>1, Around DEF TicksTo
<1> QED
  BY <1>1, <1>2

LEMMA TicksNat ==
    ASSUME NEW x \in 0..Layer!Ticks - 1, NEW last \in 0..Layer!Ticks - 1
    PROVE  TicksTo(x, last) \in Nat
  BY TicksToTick, TickNumbers

LEMMA NextTick ==
    ASSUME NEW last \in 0..Layer!Ticks - 1
    PROVE  (last + 1) % Layer!Ticks \in 0..Layer!Ticks - 1
<1>1. Layer!Ticks \in Nat \ {0} /\ 1 \in 0..Layer!Ticks - 1
  BY TickNumbers
<1> QED
  BY <1>1, Onward

(* A tick that is still to come is one nearer at the next. *)
LEMMA TickNearer ==
    ASSUME NEW x \in 0..Layer!Ticks - 1, NEW last \in 0..Layer!Ticks - 1,
           x # last
    PROVE  /\ (last + 1) % Layer!Ticks \in 0..Layer!Ticks - 1
           /\ TicksTo(x, (last + 1) % Layer!Ticks) = TicksTo(x, last) - 1
<1>1. PICK T \in Nat \ {0} : T = Layer!Ticks /\ 1 < T
  BY TickNumbers
<1>2. /\ (last + 1) % T = IF last + 1 < T THEN last + 1 ELSE last + 1 - T
      /\ (last + 1) % T \in 0..T - 1
  <2>1. 1 \in 0..T - 1 /\ last \in 0..T - 1
    BY <1>1
  <2> QED
    BY <2>1, Onward
<1>3. PICK n \in 0..T - 1 : n = (last + 1) % T
  BY <1>2
<1>4. TicksTo(x, last) = IF last <= x THEN x - last ELSE x - last + T
  BY <1>1, TicksToTick
<1>5. TicksTo(x, n) = IF n <= x THEN x - n ELSE x - n + T
  <2>1. n \in 0..Layer!Ticks - 1
    BY <1>1, <1>3
  <2>2. TicksTo(x, n) = IF n <= x THEN x - n ELSE x - n + Layer!Ticks
    BY <2>1, TicksToTick
  <2> QED
    BY <1>1, <2>2
<1>6. x \in 0..T - 1 /\ last \in 0..T - 1 /\ x # last
  BY <1>1
<1>7. n = IF last + 1 < T THEN last + 1 ELSE 0
  BY <1>2, <1>3, <1>6
<1>8. TicksTo(x, n) = TicksTo(x, last) - 1
  BY <1>4, <1>5, <1>6, <1>7
<1> QED
  BY <1>1, <1>3, <1>8

(* The tick d after x. *)
LEMMA TickFurther ==
    ASSUME NEW x \in 0..Layer!Ticks - 1, NEW last \in 0..Layer!Ticks - 1,
           NEW d \in Nat, TicksTo(x, last) + d < Layer!Ticks
    PROVE  /\ (x + d) % Layer!Ticks \in 0..Layer!Ticks - 1
           /\ TicksTo((x + d) % Layer!Ticks, last) = TicksTo(x, last) + d
<1>1. PICK T \in Nat \ {0} : T = Layer!Ticks
  BY TickNumbers
<1>2. TicksTo(x, last) = IF last <= x THEN x - last ELSE x - last + T
  BY <1>1, TicksToTick
<1>3. d \in 0..T - 1
  BY <1>1, <1>2
<1>4. /\ (x + d) % T = IF x + d < T THEN x + d ELSE x + d - T
      /\ (x + d) % T \in 0..T - 1
  BY <1>1, <1>3, Onward
<1>5. PICK z \in 0..T - 1 : z = (x + d) % T
  BY <1>4
<1>6. TicksTo(z, last) = IF last <= z THEN z - last ELSE z - last + T
  <2>1. z \in 0..Layer!Ticks - 1
    BY <1>1, <1>5
  <2>2. TicksTo(z, last) = IF last <= z THEN z - last ELSE z - last + Layer!Ticks
    BY <2>1, TicksToTick
  <2> QED
    BY <1>1, <2>2
<1>7. x \in 0..T - 1 /\ last \in 0..T - 1 /\ TicksTo(x, last) + d < T
  BY <1>1
<1>8. TicksTo(z, last) = TicksTo(x, last) + d
  BY <1>2, <1>3, <1>4, <1>5, <1>6, <1>7
<1> QED
  BY <1>1, <1>5, <1>8

(* __AddTimer takes the lowest wheel that reaches the expiry. *)
LEMMA ListOf ==
    ASSUME NEW e \in 0..Layer!Ticks - 1, NEW last \in 0..Layer!Ticks - 1,
           TicksTo(e, last) < Layer!Ticks \div 2
    PROVE  \E k \in 1..5 : /\ Layer!List(e, last) = <<k, Layer!Digit(e, k)>>
                           /\ TicksTo(e, last) < Layer!Span(k)
                           /\ k > 1 => TicksTo(e, last) >= Layer!Span(k - 1)
<1> DEFINE Fits(k) == /\ TicksTo(e, last) < Layer!Span(k)
                      /\ \A j \in 1..k - 1 : TicksTo(e, last) >= Layer!Span(j)
           least == CHOOSE k \in 1..5 : Fits(k)
<1>1. TicksTo(e, last) \in 0..Layer!Ticks - 1 /\ Layer!Ticks \in Nat
  BY TicksToTick, TickNumbers
<1>2. \E k \in 1..5 : Fits(k)
  <2>1. \A k \in 1..5 : Layer!Span(k) \in Nat
    BY Spans
  <2>2. TicksTo(e, last) < Layer!Span(5)
    BY <1>1, Spans
  <2>3. CASE TicksTo(e, last) < Layer!Span(1)
    BY <2>3
  <2>4. CASE TicksTo(e, last) >= Layer!Span(1) /\ TicksTo(e, last) < Layer!Span(2)
    <3>1. \A j \in 1..2 - 1 : j = 1
      OBVIOUS
    <3> QED
      BY <2>4, <3>1
  <2>5. CASE /\ TicksTo(e, last) >= Layer!Span(1) /\ TicksTo(e, last) >= Layer!Span(2)
             /\ TicksTo(e, last) < Layer!Span(3)
    <3>1. \A j \in 1..3 - 1 : j = 1 \/ j = 2
      OBVIOUS
    <3> QED
      BY <2>5, <3>1
  <2>6. CASE /\ TicksTo(e, last) >= Layer!Span(1) /\ TicksTo(e, last) >= Layer!Span(2)
             /\ TicksTo(e, last) >= Layer!Span(3) /\ TicksTo(e, last) < Layer!Span(4)
    <3>1. \A j \in 1..4 - 1 : j = 1 \/ j = 2 \/ j = 3
      OBVIOUS
    <3> QED
      BY <2>6, <3>1
  <2>7. CASE /\ TicksTo(e, last) >= Layer!Span(1) /\ TicksTo(e, last) >= Layer!Span(2)
             /\ TicksTo(e, last) >= Layer!Span(3) /\ TicksTo(e, last) >= Layer!Span(4)
    <3>1. \A j \in 1..5 - 1 : j = 1 \/ j = 2 \/ j = 3 \/ j = 4
      OBVIOUS
    <3> QED
      BY <2>2, <2>7, <3>1
  <2> QED
    BY <1>1, <2>1, <2>3, <2>4, <2>5, <2>6, <2>7
<1>3. least \in 1..5 /\ Fits(least)
  <2> HIDE DEF Fits
  <2> QED
    BY <1>2
<1>4. Layer!List(e, last) = <<least, Layer!Digit(e, least)>>
  <2>1. ~(TicksTo(e, last) >= Layer!Ticks \div 2)
    BY <1>1, TickNumbers
  <2> QED
    BY <2>1 DEF Layer!List, TicksTo
<1>5. PICK k \in 1..5 : k = least
  BY <1>3
<1> HIDE DEF least
<1>6. k > 1 => TicksTo(e, last) >= Layer!Span(k - 1)
  BY <1>3, <1>5
<1> QED
  BY <1>3, <1>4, <1>5, <1>6

(* At the start of a block of wheel k - 1 the list of wheel k is spread. *)
LEMMA BlockCascades ==
    ASSUME NEW k \in 2..5, last_tick_ \in 0..Layer!Ticks - 1,
           last_tick_ % Layer!Span(k - 1) = 0
    PROVE  Layer!Cascades(k)
<1> DEFINE Z(j) == last_tick_ % Layer!Span(j) = 0
           D(j) == Layer!Digit(last_tick_, j) = 0
<1>0. last_tick_ \in Int
  BY TickNumbers
<1>1. ASSUME NEW j \in 2..5, Z(j)
      PROVE  Z(j - 1) /\ D(j)
  <2>1. Layer!Span(j) = Layer!Span(j - 1) * TVN_SIZE /\ Layer!Span(j - 1) \in Nat \ {0}
    BY Spans
  <2>2. /\ last_tick_ % Layer!Span(j - 1) = 0
        /\ (last_tick_ \div Layer!Span(j - 1)) % TVN_SIZE = 0
    <3>1. TVN_SIZE \in Nat \ {0}
      BY LayerNumbers
    <3>2. last_tick_ % (Layer!Span(j - 1) * TVN_SIZE) = 0
      BY <1>1, <2>1
    <3> QED
      BY <1>0, <2>1, <3>1, <3>2, ZeroDigit
  <2> QED
    BY <2>2 DEF Layer!Digit
<1>2. Z(1) => D(1)
  BY Spans DEF Layer!Digit
<1>3. Z(k - 1)
  OBVIOUS
<1> HIDE DEF Z, D
<1>4. /\ Z(4) => Z(3) /\ D(4)
      /\ Z(3) => Z(2) /\ D(3)
      /\ Z(2) => Z(1) /\ D(2)
  <2>1. 4 - 1 = 3 /\ 3 - 1 = 2 /\ 2 - 1 = 1
    OBVIOUS
  <2> QED
    BY <1>1, <2>1
<1>5. ASSUME NEW j \in 1..k - 1
      PROVE  D(j)
  <2>1. \/ k = 2 /\ k - 1 = 1 /\ j = 1
        \/ k = 3 /\ k - 1 = 2 /\ (j = 1 \/ j = 2)
        \/ k = 4 /\ k - 1 = 3 /\ (j = 1 \/ j = 2 \/ j = 3)
        \/ k = 5 /\ k - 1 = 4 /\ (j = 1 \/ j = 2 \/ j = 3 \/ j = 4)
    OBVIOUS
  <2> QED
    BY <1>2, <1>3, <1>4, <2>1
<1> QED
  BY <1>5 DEF Layer!Cascades, D

-----------------------------------------------------------------------------
(* A timer of wheel k is within the reach of the wheel, and its list is    *)
(* still to be spread: the block of wheel k - 1 that last_tick_ is in ends *)
(* before the expiry, or it only begins and TakeTick has not been there.   *)
Coming(k, e, last, st) ==
    /\ TicksTo(e, last) < Layer!Span(k) /\ TicksTo(e, last) < Layer!Ticks \div 2
    /\ st \in {"work", "callback"} => TicksTo(e, last) > 0
    /\ k > 1 => \/ (last % Layer!Span(k - 1)) + TicksTo(e, last) >= Layer!Span(k - 1)
                \/ last % Layer!Span(k - 1) = 0 /\ st \in {"idle", "loop"}

Waits(w, e, last, st) ==
    \E k \in 1..5 : w = <<k, Layer!Digit(e, k)>> /\ Coming(k, e, last, st)

Delays == Elapses \union AdjustElapses

Settled(w, e, d, last, st) ==
    \/ w = Layer!Free
    \/ /\ d \in Delays
       /\ \/ w = Layer!Work /\ e = last /\ st \in {"work", "callback"}
          \/ w = Layer!Run /\ st = "callback"
          \/ Waits(w, e, last, st)

LayerTypes ==
    /\ is_exact_ \in BOOLEAN
    /\ now \in 0..Layer!Ticks - 1 /\ last_tick_ \in 0..Layer!Ticks - 1
    /\ expires \in [Timer -> 0..Layer!Ticks - 1]
    /\ elapse \in [Timer -> {0} \union Delays]
    /\ where = [t \in Timer |-> where[t]]
    /\ rounds \in [Timer -> Nat \union {Forever}]
    /\ pc \in {"idle", "loop", "work", "callback"}
    /\ tick \in 0..Layer!Ticks - 1 /\ cur_tick \in 0..Layer!Ticks - 1
    /\ is_time_out \in BOOLEAN

(* Update() works up to tick, which it has read from a clock that is never *)
(* more than MaxLag ahead, and gives up only after it.                     *)
Clocks ==
    /\ TicksTo(now, last_tick_) <= MaxLag
    /\ pc # "idle" => /\ TicksTo(tick, last_tick_) <= TicksTo(cur_tick, last_tick_)
                      /\ TicksTo(cur_tick, last_tick_) <= TicksTo(now, last_tick_)
    /\ pc \in {"work", "callback"} => TicksTo(tick, last_tick_) > 0
    /\ pc = "idle" => ~is_time_out
    /\ is_time_out => Layer!Watches /\ TicksTo(now, last_tick_) > TicksTo(tick, last_tick_)

Settling ==
    \A t \in Timer : Settled(where[t], expires[t], elapse[t], last_tick_, pc)

OneRuns ==
    /\ \A t, u \in Timer : where[t] = Layer!Run /\ where[u] = Layer!Run => t = u
    /\ pc = "callback" => \E t \in Timer : where[t] = Layer!Run

LayerInv == LayerTypes /\ Clocks /\ Settling /\ OneRuns

LEMMA Apart ==
    ASSUME NEW w, NEW e, NEW last, NEW s, Waits(w, e, last, s)
    PROVE  w # Layer!Free /\ w # Layer!Work /\ w # Layer!Run
<1>1. PICK k \in 1..5 : w = <<k, Layer!Digit(e, k)>>
  BY DEF Waits
<1>2. w[1] # 0
  BY <1>1
<1> QED
  BY <1>2 DEF Layer!Free, Layer!Work, Layer!Run

LEMMA ThreePlaces ==
    Layer!Free # Layer!Work /\ Layer!Free # Layer!Run /\ Layer!Work # Layer!Run
  BY DEF Layer!Free, Layer!Work, Layer!Run

LEMMA SameStage ==
    ASSUME NEW w, NEW e, NEW last, NEW s, NEW r, Waits(w, e, last, s),
           \/ s \in {"idle", "loop"} /\ r \in {"idle", "loop"}
           \/ s \in {"work", "callback"} /\ r \in {"work", "callback"}
    PROVE  Waits(w, e, last, r)
<1>1. PICK k \in 1..5 : w = <<k, Layer!Digit(e, k)>> /\ Coming(k, e, last, s)
  BY DEF Waits
<1>2. Coming(k, e, last, r)
  BY <1>1 DEF Coming
<1> QED
  BY <1>1, <1>2 DEF Waits

(* __AddTimer puts a timer where it waits. *)
LEMMA PlacedWaits ==
    ASSUME NEW e \in 0..Layer!Ticks - 1, NEW last \in 0..Layer!Ticks - 1, NEW s,
           TicksTo(e, last) < Layer!Ticks \div 2,
           s \in {"work", "callback"} => TicksTo(e, last) > 0
    PROVE  Waits(Layer!List(e, last), e, last, s)
<1>1. PICK k \in 1..5 : /\ Layer!List(e, last) = <<k, Layer!Digit(e, k)>>
                        /\ TicksTo(e, last) < Layer!Span(k)
                        /\ k > 1 => TicksTo(e, last) >= Layer!Span(k - 1)
  BY ListOf
<1>2. k > 1 => (last % Layer!Span(k - 1)) + TicksTo(e, last) >= Layer!Span(k - 1)
  <2> HAVE k > 1
  <2>1. PICK S \in Nat \ {0} : S = Layer!Span(k - 1)
    BY Spans
  <2>2. last % S \in 0..S - 1
    <3>1. last \in Int
      BY TickNumbers
    <3> QED
      BY <2>1, <3>1, Division
  <2>3. TicksTo(e, last) \in Nat
    BY TicksToTick, TickNumbers
  <2> QED
    BY <1>1, <2>1, <2>2, <2>3
<1>3. Coming(k, e, last, s)
  BY <1>1, <1>2 DEF Coming
<1> QED
  BY <1>1, <1>3 DEF Waits

LEMMA LayerStart ==
    ASSUME Layer!Init
    PROVE  LayerInv
<1>1. now \in 0..Layer!Ticks - 1 /\ last_tick_ = now /\ pc = "idle" /\ is_time_out = FALSE
  BY LayerNumbers DEF Layer!Init
<1>2. TicksTo(now, last_tick_) = 0
  BY <1>1, TicksToTick
<1>3. LayerTypes
  <2>1. 0 \in 0..Layer!Ticks - 1 /\ 0 \in {0} \union Delays /\ 0 \in Nat \union {Forever}
    BY TickNumbers
  <2>2. is_exact_ \in BOOLEAN /\ is_time_out \in BOOLEAN
    BY DEF Layer!Init
  <2>3. /\ expires \in [Timer -> 0..Layer!Ticks - 1]
        /\ elapse \in [Timer -> {0} \union Delays]
        /\ rounds \in [Timer -> Nat \union {Forever}]
        /\ where = [t \in Timer |-> where[t]]
    BY <2>1 DEF Layer!Init
  <2>4. tick \in 0..Layer!Ticks - 1 /\ cur_tick \in 0..Layer!Ticks - 1
    BY <2>1 DEF Layer!Init
  <2> QED
    BY <1>1, <2>2, <2>3, <2>4 DEF LayerTypes
<1>4. Clocks
  BY <1>1, <1>2, LayerNumbers DEF Clocks
<1>5. Settling /\ OneRuns
  BY <1>1, ThreePlaces DEF Layer!Init, Settling, Settled, OneRuns
<1> QED
  BY <1>3, <1>4, <1>5 DEF LayerInv

(* Whatever happens to one timer, the others stay where they are. *)
LEMMA OthersStay ==
    ASSUME LayerInv, NEW t \in Timer,
           \A u \in Timer \ {t} : /\ where'[u] = where[u] /\ expires'[u] = expires[u]
                                  /\ elapse'[u] = elapse[u],
           last_tick_' = last_tick_,
           \/ pc' = pc
           \/ pc = "work" /\ pc' = "callback"
           \/ pc = "callback" /\ pc' = "work" /\ where[t] = Layer!Run,
           Settled(where'[t], expires'[t], elapse'[t], last_tick_', pc')
    PROVE  Settling'
<1> SUFFICES ASSUME NEW u \in Timer
             PROVE  Settled(where'[u], expires'[u], elapse'[u], last_tick_', pc')
  BY DEF Settling
<1>1. CASE u = t
  BY <1>1
<1>2. CASE u # t
  <2>1. Settled(where[u], expires[u], elapse[u], last_tick_, pc)
    BY DEF LayerInv, Settling
  <2>2. where'[u] = where[u] /\ expires'[u] = expires[u] /\ elapse'[u] = elapse[u]
    BY <1>2
  <2>3. CASE pc' = pc
    BY <2>1, <2>2, <2>3
  <2>4. CASE pc = "work" /\ pc' = "callback"
    <3>1. Waits(where[u], expires[u], last_tick_, pc)
            => Waits(where[u], expires[u], last_tick_, pc')
      BY <2>4, SameStage
    <3> QED
      BY <2>1, <2>2, <2>4, <3>1 DEF Settled
  <2>5. CASE pc = "callback" /\ pc' = "work" /\ where[t] = Layer!Run
    <3>1. Waits(where[u], expires[u], last_tick_, pc)
            => Waits(where[u], expires[u], last_tick_, pc')
      BY <2>5, SameStage
    <3>2. where[u] # Layer!Run
      BY <1>2, <2>5 DEF LayerInv, OneRuns
    <3> QED
      BY <2>1, <2>2, <2>5, <3>1, <3>2 DEF Settled
  <2> QED
    BY <2>3, <2>4, <2>5
<1> QED
  BY <1>1, <1>2

LEMMA PlaceSettles ==
    ASSUME LayerInv, NEW t \in Timer, NEW x, Layer!Place(t, x),
           x % Layer!Ticks \in 0..Layer!Ticks - 1,
           TicksTo(x % Layer!Ticks, last_tick_) > 0,
           TicksTo(x % Layer!Ticks, last_tick_) < Layer!Ticks \div 2,
           last_tick_' = last_tick_, elapse'[t] \in Delays
    PROVE  /\ Settled(where'[t], expires'[t], elapse'[t], last_tick_', pc')
           /\ where'[t] # Layer!Run
           /\ \A u \in Timer \ {t} : where'[u] = where[u] /\ expires'[u] = expires[u]
           /\ expires' \in [Timer -> 0..Layer!Ticks - 1]
           /\ where' = [u \in Timer |-> where'[u]]
<1>0. LayerTypes
  BY DEF LayerInv
<1>1. PICK e \in 0..Layer!Ticks - 1 : e = x % Layer!Ticks
  OBVIOUS
<1>2. /\ where' = [where EXCEPT ![t] = Layer!List(e, last_tick_)]
      /\ expires' = [expires EXCEPT ![t] = e]
  BY <1>1 DEF Layer!Place
<1>3. /\ where'[t] = Layer!List(e, last_tick_) /\ expires'[t] = e
      /\ \A u \in Timer \ {t} : where'[u] = where[u] /\ expires'[u] = expires[u]
      /\ where' = [u \in Timer |-> where'[u]]
      /\ expires' \in [Timer -> 0..Layer!Ticks - 1]
  BY <1>0, <1>2 DEF LayerTypes
<1>4. Waits(where'[t], e, last_tick_, pc')
  <2>1. last_tick_ \in 0..Layer!Ticks - 1
    BY <1>0 DEF LayerTypes
  <2>2. Waits(Layer!List(e, last_tick_), e, last_tick_, pc')
    BY <1>1, <2>1, PlacedWaits
  <2> QED
    BY <1>3, <2>2
<1>5. where'[t] # Layer!Run
  BY <1>4, Apart
<1> QED
  BY <1>3, <1>4, <1>5 DEF Settled

LEMMA DestroySettles ==
    ASSUME LayerInv, NEW t \in Timer, Layer!Destroy(t)
    PROVE  /\ Settled(where'[t], expires'[t], elapse'[t], last_tick_', pc')
           /\ where'[t] # Layer!Run
           /\ \A u \in Timer \ {t} : /\ where'[u] = where[u] /\ expires'[u] = expires[u]
                                     /\ elapse'[u] = elapse[u]
           /\ expires' \in [Timer -> 0..Layer!Ticks - 1]
           /\ where' = [u \in Timer |-> where'[u]]
           /\ elapse' \in [Timer -> {0} \union Delays]
           /\ rounds' \in [Timer -> Nat \union {Forever}]
<1>0. /\ where = [u \in Timer |-> where[u]] /\ elapse \in [Timer -> {0} \union Delays]
      /\ expires \in [Timer -> 0..Layer!Ticks - 1]
      /\ rounds \in [Timer -> Nat \union {Forever}]
  BY DEF LayerInv, LayerTypes
<1>1. 0 \in 0..Layer!Ticks - 1
  BY TickNumbers
<1>2. where'[t] = Layer!Free
  BY <1>0 DEF Layer!Destroy
<1>3. where'[t] # Layer!Run
  BY <1>2, ThreePlaces
<1>4. \A u \in Timer \ {t} : /\ where'[u] = where[u] /\ expires'[u] = expires[u]
                             /\ elapse'[u] = elapse[u]
  BY <1>0 DEF Layer!Destroy
<1>5. where' = [u \in Timer |-> where'[u]]
  BY <1>0 DEF Layer!Destroy
<1>6. /\ expires' \in [Timer -> 0..Layer!Ticks - 1]
      /\ elapse' \in [Timer -> {0} \union Delays]
      /\ rounds' \in [Timer -> Nat \union {Forever}]
  BY <1>0, <1>1 DEF Layer!Destroy
<1> QED
  BY <1>2, <1>3, <1>4, <1>5, <1>6 DEF Settled

(* The clocks of Update() while the owner or a timer moves. *)
LEMMA ClocksStay ==
    ASSUME Clocks, UNCHANGED <<is_exact_, now, last_tick_, tick, cur_tick, is_time_out>>,
           \/ pc' = pc
           \/ pc \in {"work", "callback"} /\ pc' \in {"work", "callback"}
    PROVE  Clocks'
  BY DEF Clocks, Layer!Watches

(* No callback begins or ends. *)
LEMMA RunStays ==
    ASSUME OneRuns, NEW t \in Timer, where[t] # Layer!Run, where'[t] # Layer!Run,
           \A u \in Timer \ {t} : where'[u] = where[u],
           pc' = "callback" => pc = "callback"
    PROVE  OneRuns'
<1>1. \A u \in Timer : where'[u] = Layer!Run <=> where[u] = Layer!Run
  OBVIOUS
<1> QED
  BY <1>1 DEF OneRuns

LEMMA ClockTickStep ==
    ASSUME LayerInv, Layer!ClockTick, is_exact_' = is_exact_
    PROVE  LayerInv'
<1>0. LayerTypes /\ Clocks /\ Settling /\ OneRuns
  BY DEF LayerInv
<1>1. PICK T \in Nat \ {0} : T = Layer!Ticks /\ MaxLag < T /\ MaxLag \in Nat
  BY TickNumbers, LayerNumbers
<1>2. now \in 0..T - 1 /\ last_tick_ \in 0..T - 1
  BY <1>0, <1>1 DEF LayerTypes
<1>3. TicksTo(now, last_tick_) < MaxLag /\ now' = (now + 1) % T /\ last_tick_' = last_tick_
  BY <1>1 DEF Layer!ClockTick, TicksTo
<1>4. TicksTo(now, last_tick_) \in Nat
  BY <1>1, <1>2, TicksToTick
<1>5. now' \in 0..T - 1 /\ TicksTo(now', last_tick_) = TicksTo(now, last_tick_) + 1
  <2>1. 1 \in Nat /\ TicksTo(now, last_tick_) + 1 < T
    BY <1>1, <1>3, <1>4
  <2> QED
    BY <1>1, <1>2, <1>3, <2>1, TickFurther
<1>6. UNCHANGED <<where, expires, elapse, rounds, pc, tick, cur_tick, is_time_out>>
  BY DEF Layer!ClockTick, Layer!updateVars
<1>7. LayerTypes'
  BY <1>0, <1>1, <1>3, <1>5, <1>6 DEF LayerTypes
<1>8. Clocks'
  <2>1. \A x \in 0..T - 1 : TicksTo(x, last_tick_) \in Nat
    BY <1>1, <1>2, TicksToTick
  <2>2. TicksTo(tick, last_tick_) \in Nat /\ TicksTo(cur_tick, last_tick_) \in Nat
    BY <1>0, <1>1, <2>1 DEF LayerTypes
  <2>3. PICK a \in Nat : a = TicksTo(now, last_tick_) /\ TicksTo(now', last_tick_) = a + 1
    BY <1>4, <1>5
  <2>4. Layer!Watches' = Layer!Watches
    BY DEF Layer!Watches
  <2> QED
    BY <1>0, <1>1, <1>3, <1>6, <2>2, <2>3, <2>4 DEF Clocks
<1>9. Settling' /\ OneRuns'
  BY <1>0, <1>3, <1>6 DEF Settling, OneRuns
<1> QED
  BY <1>7, <1>8, <1>9 DEF LayerInv

(* A delay asked for now lies ahead, and within half the range. *)
LEMMA DelayAhead ==
    ASSUME 0 \notin AdjustElapses, NEW d \in Delays,
           NEW x \in 0..Layer!Ticks - 1, NEW last \in 0..Layer!Ticks - 1,
           TicksTo(x, last) <= MaxLag
    PROVE  /\ (x + d) % Layer!Ticks \in 0..Layer!Ticks - 1
           /\ TicksTo((x + d) % Layer!Ticks, last) > 0
           /\ TicksTo((x + d) % Layer!Ticks, last) < Layer!Ticks \div 2
<1>1. d \in Nat /\ d > 0 /\ d + MaxLag < Layer!Ticks \div 2
  BY LayerNumbers DEF Delays
<1>2. TicksTo(x, last) \in Nat /\ MaxLag \in Nat
  BY TicksToTick, TickNumbers, LayerNumbers
<1>3. PICK h \in Nat : h = Layer!Ticks \div 2 /\ h < Layer!Ticks
  BY TickNumbers
<1>4. TicksTo(x, last) + d < Layer!Ticks /\ TicksTo(x, last) + d > 0 /\ TicksTo(x, last) + d < h
  BY <1>1, <1>2, <1>3, TickNumbers
<1>5. /\ (x + d) % Layer!Ticks \in 0..Layer!Ticks - 1
      /\ TicksTo((x + d) % Layer!Ticks, last) = TicksTo(x, last) + d
  BY <1>1, <1>4, TickFurther
<1> QED
  BY <1>3, <1>4, <1>5

LEMMA AddTimerStep ==
    ASSUME LayerInv, 0 \notin AdjustElapses, NEW t \in Timer, NEW d \in Elapses,
           NEW c \in Counts, Layer!AddTimer(t, d, c), is_exact_' = is_exact_
    PROVE  LayerInv'
<1>0. LayerTypes /\ Clocks /\ Settling /\ OneRuns
  BY DEF LayerInv
<1>1. /\ where[t] = Layer!Free /\ Layer!Place(t, last_tick_ + d)
      /\ elapse' = [elapse EXCEPT ![t] = d] /\ rounds' = [rounds EXCEPT ![t] = c]
      /\ UNCHANGED <<now, last_tick_, pc, tick, cur_tick, is_time_out>>
  BY DEF Layer!AddTimer, Layer!updateVars
<1>2. elapse' \in [Timer -> {0} \union Delays] /\ elapse'[t] = d /\ d \in Delays
      /\ \A u \in Timer \ {t} : elapse'[u] = elapse[u]
  BY <1>0, <1>1 DEF LayerTypes, Delays
<1>3. rounds' \in [Timer -> Nat \union {Forever}]
  BY <1>0, <1>1, LayerNumbers DEF LayerTypes
<1>4. last_tick_ \in 0..Layer!Ticks - 1 /\ TicksTo(last_tick_, last_tick_) = 0
  BY <1>0, TicksToTick DEF LayerTypes
<1>5. /\ (last_tick_ + d) % Layer!Ticks \in 0..Layer!Ticks - 1
      /\ TicksTo((last_tick_ + d) % Layer!Ticks, last_tick_) > 0
      /\ TicksTo((last_tick_ + d) % Layer!Ticks, last_tick_) < Layer!Ticks \div 2
  BY <1>2, <1>4, DelayAhead, LayerNumbers
<1>6. /\ Settled(where'[t], expires'[t], elapse'[t], last_tick_', pc')
      /\ where'[t] # Layer!Run
      /\ \A u \in Timer \ {t} : where'[u] = where[u] /\ expires'[u] = expires[u]
      /\ expires' \in [Timer -> 0..Layer!Ticks - 1]
      /\ where' = [u \in Timer |-> where'[u]]
  BY <1>1, <1>2, <1>5, PlaceSettles
<1>7. LayerTypes'
  BY <1>0, <1>1, <1>2, <1>3, <1>6 DEF LayerTypes
<1>8. Clocks'
  BY <1>0, <1>1, ClocksStay
<1>9. Settling'
  BY <1>1, <1>2, <1>6, OthersStay
<1>10. OneRuns'
  BY <1>0, <1>1, <1>6, ThreePlaces, RunStays
<1> QED
  BY <1>7, <1>8, <1>9, <1>10 DEF LayerInv

LEMMA AdjustTimerStep ==
    ASSUME LayerInv, 0 \notin AdjustElapses, NEW t \in Timer, NEW d \in AdjustElapses,
           NEW c \in Counts, Layer!AdjustTimer(t, d, c), is_exact_' = is_exact_
    PROVE  LayerInv'
<1>0. LayerTypes /\ Clocks /\ Settling /\ OneRuns
  BY DEF LayerInv
<1>1. where[t] # Layer!Free /\ UNCHANGED <<now, last_tick_, pc, tick, cur_tick, is_time_out>>
  BY DEF Layer!AdjustTimer, Layer!updateVars
<1>2. Clocks'
  BY <1>0, <1>1, ClocksStay
<1>3. last_tick_ \in 0..Layer!Ticks - 1 /\ TicksTo(last_tick_, last_tick_) = 0 /\ d \in Delays
  BY <1>0, TicksToTick DEF LayerTypes, Delays
<1>4. /\ (last_tick_ + d) % Layer!Ticks \in 0..Layer!Ticks - 1
      /\ TicksTo((last_tick_ + d) % Layer!Ticks, last_tick_) > 0
      /\ TicksTo((last_tick_ + d) % Layer!Ticks, last_tick_) < Layer!Ticks \div 2
  BY <1>3, DelayAhead, LayerNumbers
<1>5. CASE UNCHANGED <<expires, where, elapse, rounds>>
  <2>1. LayerTypes'
    BY <1>0, <1>1, <1>5 DEF LayerTypes
  <2>2. Settling' /\ OneRuns'
    BY <1>0, <1>1, <1>5 DEF Settling, OneRuns
  <2> QED
    BY <1>2, <2>1, <2>2 DEF LayerInv
<1>6. CASE /\ elapse' = [elapse EXCEPT ![t] = d] /\ rounds' = [rounds EXCEPT ![t] = c]
           /\ \/ Layer!__TimerPending(t) /\ Layer!Place(t, last_tick_ + d)
              \/ /\ ~Layer!__TimerPending(t)
                 /\ expires' = [expires EXCEPT ![t] = (last_tick_ + d) % Layer!Ticks]
                 /\ where' = where
  <2>1. /\ elapse' \in [Timer -> {0} \union Delays] /\ elapse'[t] = d
        /\ \A u \in Timer \ {t} : elapse'[u] = elapse[u]
    BY <1>0, <1>3, <1>6 DEF LayerTypes
  <2>2. rounds' \in [Timer -> Nat \union {Forever}]
    BY <1>0, <1>6, LayerNumbers DEF LayerTypes
  <2>3. CASE Layer!__TimerPending(t) /\ Layer!Place(t, last_tick_ + d)
    <3>1. /\ Settled(where'[t], expires'[t], elapse'[t], last_tick_', pc')
          /\ where'[t] # Layer!Run
          /\ \A u \in Timer \ {t} : where'[u] = where[u] /\ expires'[u] = expires[u]
          /\ expires' \in [Timer -> 0..Layer!Ticks - 1]
          /\ where' = [u \in Timer |-> where'[u]]
      BY <1>1, <1>3, <1>4, <2>1, <2>3, PlaceSettles
    <3>2. LayerTypes'
      BY <1>0, <1>1, <2>1, <2>2, <3>1 DEF LayerTypes
    <3>3. Settling'
      BY <1>1, <2>1, <3>1, OthersStay
    <3>4. where[t] # Layer!Run
      BY <2>3 DEF Layer!__TimerPending
    <3>5. OneRuns'
      BY <1>0, <1>1, <3>1, <3>4, RunStays
    <3> QED
      BY <1>2, <3>2, <3>3, <3>5 DEF LayerInv
  <2>4. CASE /\ ~Layer!__TimerPending(t) /\ where' = where
             /\ expires' = [expires EXCEPT ![t] = (last_tick_ + d) % Layer!Ticks]
    <3>1. where[t] = Layer!Run
      BY <1>1, <2>4 DEF Layer!__TimerPending
    <3>2. pc = "callback"
      <4>1. Settled(where[t], expires[t], elapse[t], last_tick_, pc)
        BY <1>0 DEF Settling
      <4> QED
        BY <3>1, <4>1, ThreePlaces, Apart DEF Settled
    <3>3. Settled(where'[t], expires'[t], elapse'[t], last_tick_', pc')
      BY <1>1, <1>3, <2>1, <2>4, <3>1, <3>2 DEF Settled
    <3>4. /\ \A u \in Timer \ {t} : where'[u] = where[u] /\ expires'[u] = expires[u]
          /\ expires' \in [Timer -> 0..Layer!Ticks - 1]
      BY <1>0, <1>4, <2>4 DEF LayerTypes
    <3>5. LayerTypes'
      BY <1>0, <1>1, <2>1, <2>2, <2>4, <3>4 DEF LayerTypes
    <3>6. Settling'
      BY <1>1, <2>1, <3>3, <3>4, OthersStay
    <3>7. OneRuns'
      BY <1>0, <1>1, <2>4 DEF OneRuns
    <3> QED
      BY <1>2, <3>5, <3>6, <3>7 DEF LayerInv
  <2> QED
    BY <1>6, <2>3, <2>4
<1> QED
  BY <1>5, <1>6 DEF Layer!AdjustTimer

LEMMA RemoveTimerStep ==
    ASSUME LayerInv, NEW t \in Timer, Layer!RemoveTimer(t), is_exact_' = is_exact_
    PROVE  LayerInv'
<1>0. LayerTypes /\ Clocks /\ Settling /\ OneRuns
  BY DEF LayerInv
<1>1. where[t] # Layer!Free /\ UNCHANGED <<now, last_tick_, pc, tick, cur_tick, is_time_out>>
  BY DEF Layer!RemoveTimer, Layer!updateVars
<1>2. Clocks'
  BY <1>0, <1>1, ClocksStay
<1>3. CASE Layer!__TimerPending(t) /\ Layer!Destroy(t)
  <2>1. /\ Settled(where'[t], expires'[t], elapse'[t], last_tick_', pc')
        /\ where'[t] # Layer!Run
        /\ \A u \in Timer \ {t} : /\ where'[u] = where[u] /\ expires'[u] = expires[u]
                                  /\ elapse'[u] = elapse[u]
        /\ expires' \in [Timer -> 0..Layer!Ticks - 1]
        /\ where' = [u \in Timer |-> where'[u]]
        /\ elapse' \in [Timer -> {0} \union Delays]
        /\ rounds' \in [Timer -> Nat \union {Forever}]
    BY <1>3, DestroySettles
  <2>2. LayerTypes'
    BY <1>0, <1>1, <2>1 DEF LayerTypes
  <2>3. Settling'
    BY <1>1, <2>1, OthersStay
  <2>4. where[t] # Layer!Run
    BY <1>3 DEF Layer!__TimerPending
  <2>5. OneRuns'
    BY <1>0, <1>1, <2>1, <2>4, RunStays
  <2> QED
    BY <1>2, <2>2, <2>3, <2>5 DEF LayerInv
<1>4. CASE rounds' = [rounds EXCEPT ![t] = 0] /\ UNCHANGED <<where, expires, elapse>>
  <2>1. rounds' \in [Timer -> Nat \union {Forever}]
    BY <1>0, <1>4 DEF LayerTypes
  <2>2. LayerTypes'
    BY <1>0, <1>1, <1>4, <2>1 DEF LayerTypes
  <2>3. Settling' /\ OneRuns'
    BY <1>0, <1>1, <1>4 DEF Settling, OneRuns
  <2> QED
    BY <1>2, <2>2, <2>3 DEF LayerInv
<1> QED
  BY <1>3, <1>4 DEF Layer!RemoveTimer

LEMMA DropEmptyStep ==
    ASSUME LayerInv, NEW t \in Timer, Layer!DropEmpty(t), is_exact_' = is_exact_
    PROVE  LayerInv'
<1>0. LayerTypes /\ Clocks /\ Settling /\ OneRuns
  BY DEF LayerInv
<1>1. /\ where[t] = Layer!Work /\ Layer!Destroy(t)
      /\ UNCHANGED <<now, last_tick_, pc, tick, cur_tick, is_time_out>>
  BY DEF Layer!DropEmpty, Layer!updateVars
<1>2. Clocks'
  BY <1>0, <1>1, ClocksStay
<1>3. /\ Settled(where'[t], expires'[t], elapse'[t], last_tick_', pc')
      /\ where'[t] # Layer!Run
      /\ \A u \in Timer \ {t} : /\ where'[u] = where[u] /\ expires'[u] = expires[u]
                                /\ elapse'[u] = elapse[u]
      /\ expires' \in [Timer -> 0..Layer!Ticks - 1]
      /\ where' = [u \in Timer |-> where'[u]]
      /\ elapse' \in [Timer -> {0} \union Delays]
      /\ rounds' \in [Timer -> Nat \union {Forever}]
  BY <1>1, DestroySettles
<1>4. LayerTypes'
  BY <1>0, <1>1, <1>3 DEF LayerTypes
<1>5. Settling'
  BY <1>1, <1>3, OthersStay
<1>6. OneRuns'
  BY <1>0, <1>1, <1>3, ThreePlaces, RunStays
<1> QED
  BY <1>2, <1>4, <1>5, <1>6 DEF LayerInv

(* Update() begins, and returns. *)
LEMMA UpdateStep ==
    ASSUME LayerInv, Layer!UpdateBegin \/ Layer!UpdateReturn, is_exact_' = is_exact_
    PROVE  LayerInv'
<1>0. LayerTypes /\ Clocks /\ Settling /\ OneRuns
  BY DEF LayerInv
<1>1. /\ pc \in {"idle", "loop"} /\ pc' \in {"idle", "loop"}
      /\ is_time_out' = FALSE
      /\ UNCHANGED <<now, last_tick_, where, expires, elapse, rounds>>
  BY DEF Layer!UpdateBegin, Layer!UpdateReturn
<1>2. /\ tick' \in 0..Layer!Ticks - 1 /\ cur_tick' \in 0..Layer!Ticks - 1
      /\ pc' # "idle" => tick' = now /\ cur_tick' = now
  <2>1. 0 \in 0..Layer!Ticks - 1
    BY TickNumbers
  <2> QED
    BY <1>0, <2>1 DEF Layer!UpdateBegin, Layer!UpdateReturn, LayerTypes
<1>3. LayerTypes'
  <2>1. is_time_out' \in BOOLEAN
    BY <1>1
  <2> QED
    BY <1>0, <1>1, <1>2, <2>1 DEF LayerTypes
<1>4. Clocks'
  <2>1. TicksTo(now, last_tick_) \in Int
    BY <1>0, TicksToTick, TickNumbers DEF LayerTypes
  <2>2. ~is_time_out'
    BY <1>1
  <2>3. pc' # "idle" => TicksTo(tick', last_tick_') <= TicksTo(cur_tick', last_tick_')
                        /\ TicksTo(cur_tick', last_tick_') <= TicksTo(now', last_tick_')
    BY <1>1, <1>2, <2>1
  <2> QED
    BY <1>0, <1>1, <2>2, <2>3 DEF Clocks
<1>5. Settling'
  <2> SUFFICES ASSUME NEW u \in Timer
               PROVE  Settled(where'[u], expires'[u], elapse'[u], last_tick_', pc')
    BY DEF Settling
  <2>1. Settled(where[u], expires[u], elapse[u], last_tick_, pc)
    BY <1>0 DEF Settling
  <2>2. Waits(where[u], expires[u], last_tick_, pc)
          => Waits(where[u], expires[u], last_tick_, pc')
    BY <1>1, SameStage
  <2> QED
    BY <1>1, <2>1, <2>2 DEF Settled
<1>6. OneRuns'
  BY <1>0, <1>1 DEF OneRuns
<1> QED
  BY <1>3, <1>4, <1>5, <1>6 DEF LayerInv

(* The next tick is one nearer to every timer that waits. *)
LEMMA WaitsOn ==
    ASSUME NEW w, NEW e \in 0..Layer!Ticks - 1, NEW last \in 0..Layer!Ticks - 1,
           Waits(w, e, last, "work")
    PROVE  Waits(w, e, (last + 1) % Layer!Ticks, "loop")
<1>1. PICK k \in 1..5 : w = <<k, Layer!Digit(e, k)>> /\ Coming(k, e, last, "work")
  BY DEF Waits
<1>2. PICK n \in 0..Layer!Ticks - 1 : n = (last + 1) % Layer!Ticks
  BY NextTick
<1>3. PICK a \in Nat : a = TicksTo(e, last) /\ a > 0
  BY <1>1, TicksNat DEF Coming
<1>4. TicksTo(e, n) = a - 1
  <2>1. e # last
    BY <1>3, TicksToTick
  <2> QED
    BY <1>2, <1>3, <2>1, TickNearer
<1>5. TicksTo(e, n) < Layer!Span(k) /\ TicksTo(e, n) < Layer!Ticks \div 2
  BY <1>1, <1>3, <1>4, Spans, TickNumbers DEF Coming
<1>6. k > 1 => \/ (n % Layer!Span(k - 1)) + TicksTo(e, n) >= Layer!Span(k - 1)
               \/ n % Layer!Span(k - 1) = 0
  <2> HAVE k > 1
  <2>1. PICK S \in Nat \ {0} : S = Layer!Span(k - 1)
    BY Spans
  <2>2. PICK M : Blocks(Layer!Ticks, S, M)
    BY <2>1, Spans
  <2>3. n % S = (last % S) + 1 \/ n % S = 0
    BY <1>2, <2>2, NextRest, TickNumbers
  <2>4. PICK r \in 0..S - 1 : r = last % S
    <3>1. last \in Int
      BY TickNumbers
    <3> QED
      BY <3>1, Division
  <2>5. r + a >= S
    BY <1>1, <1>3, <2>1, <2>4 DEF Coming
  <2> QED
    BY <1>3, <1>4, <2>1, <2>3, <2>4, <2>5
<1>7. Coming(k, e, n, "loop")
  BY <1>5, <1>6 DEF Coming
<1> QED
  BY <1>1, <1>2, <1>7 DEF Waits

LEMMA TickDoneStep ==
    ASSUME LayerInv, Layer!TickDone, is_exact_' = is_exact_
    PROVE  LayerInv'
<1>0. LayerTypes /\ Clocks /\ Settling /\ OneRuns
  BY DEF LayerInv
<1>1. /\ pc = "work" /\ pc' = "loop" /\ \A t \in Timer : where[t] # Layer!Work
      /\ last_tick_' = (last_tick_ + 1) % Layer!Ticks
      /\ UNCHANGED <<now, where, expires, elapse, rounds, tick, cur_tick, is_time_out>>
  BY DEF Layer!TickDone
<1>2. /\ last_tick_ \in 0..Layer!Ticks - 1 /\ now \in 0..Layer!Ticks - 1
      /\ tick \in 0..Layer!Ticks - 1 /\ cur_tick \in 0..Layer!Ticks - 1
  BY <1>0 DEF LayerTypes
<1>3. last_tick_' \in 0..Layer!Ticks - 1
  BY <1>1, <1>2, NextTick
<1>4. LayerTypes'
  BY <1>0, <1>1, <1>3 DEF LayerTypes
<1>5. Clocks'
  <2>1. /\ TicksTo(tick, last_tick_) \in Nat /\ TicksTo(cur_tick, last_tick_) \in Nat
        /\ TicksTo(now, last_tick_) \in Nat
    BY <1>2, TicksNat
  <2>2. /\ TicksTo(tick, last_tick_) > 0
        /\ TicksTo(tick, last_tick_) <= TicksTo(cur_tick, last_tick_)
        /\ TicksTo(cur_tick, last_tick_) <= TicksTo(now, last_tick_)
        /\ TicksTo(now, last_tick_) <= MaxLag
    BY <1>0, <1>1 DEF Clocks
  <2>3. tick # last_tick_ /\ cur_tick # last_tick_ /\ now # last_tick_
    BY <1>2, <2>1, <2>2, TicksToTick
  <2>4. /\ TicksTo(tick, last_tick_') = TicksTo(tick, last_tick_) - 1
        /\ TicksTo(cur_tick, last_tick_') = TicksTo(cur_tick, last_tick_) - 1
        /\ TicksTo(now, last_tick_') = TicksTo(now, last_tick_) - 1
    BY <1>1, <1>2, <2>3, TickNearer
  <2>5. /\ TicksTo(now', last_tick_') <= MaxLag
        /\ TicksTo(tick', last_tick_') <= TicksTo(cur_tick', last_tick_')
        /\ TicksTo(cur_tick', last_tick_') <= TicksTo(now', last_tick_')
    BY <1>1, <2>1, <2>2, <2>4, LayerNumbers
  <2>6. is_time_out' => Layer!Watches' /\ TicksTo(now', last_tick_') > TicksTo(tick', last_tick_')
    <3>1. is_time_out => Layer!Watches /\ TicksTo(now, last_tick_) > TicksTo(tick, last_tick_)
      BY <1>0 DEF Clocks
    <3>2. Layer!Watches' = Layer!Watches
      BY DEF Layer!Watches
    <3>3. TicksTo(now, last_tick_) > TicksTo(tick, last_tick_)
            => TicksTo(now', last_tick_') > TicksTo(tick', last_tick_')
      BY <1>1, <2>1, <2>4
    <3> QED
      BY <1>1, <3>1, <3>2, <3>3
  <2> QED
    BY <1>1, <2>5, <2>6 DEF Clocks
<1>6. Settling'
  <2> SUFFICES ASSUME NEW u \in Timer
               PROVE  Settled(where'[u], expires'[u], elapse'[u], last_tick_', pc')
    BY DEF Settling
  <2>1. Settled(where[u], expires[u], elapse[u], last_tick_, pc)
    BY <1>0 DEF Settling
  <2>2. Waits(where[u], expires[u], last_tick_, "work")
          => Waits(where[u], expires[u], (last_tick_ + 1) % Layer!Ticks, "loop")
    <3>1. expires[u] \in 0..Layer!Ticks - 1
      BY <1>0 DEF LayerTypes
    <3> QED
      BY <1>2, <3>1, WaitsOn
  <2> QED
    BY <1>1, <2>1, <2>2 DEF Settled
<1>7. OneRuns'
  BY <1>0, <1>1 DEF OneRuns
<1> QED
  BY <1>4, <1>5, <1>6, <1>7 DEF LayerInv

(* A timer whose list is not spread at this tick waits for a later block. *)
LEMMA WaitsOnward ==
    ASSUME last_tick_ \in 0..Layer!Ticks - 1, NEW e \in 0..Layer!Ticks - 1, NEW k \in 2..5,
           Coming(k, e, last_tick_, "loop"),
           ~(Layer!Cascades(k) /\ Layer!Digit(e, k) = Layer!Digit(last_tick_, k))
    PROVE  Coming(k, e, last_tick_, "work")
<1>1. PICK S \in Nat \ {0} : S = Layer!Span(k - 1)
  BY Spans
<1>2. PICK M : Blocks(Layer!Ticks, S, M)
  BY <1>1, Spans
<1>3. PICK a \in Nat : a = TicksTo(e, last_tick_)
  BY TicksNat
<1>4. PICK r \in 0..S - 1 : r = last_tick_ % S
  <2>1. last_tick_ \in Int
    BY TickNumbers
  <2> QED
    BY <2>1, Division
<1>5. r + a >= S
  <2>1. SUFFICES ASSUME ~(r + a >= S)
                 PROVE  FALSE
    OBVIOUS
  <2>2. last_tick_ % S = 0
    BY <1>1, <1>3, <1>4, <2>1 DEF Coming
  <2>3. Layer!Cascades(k)
    BY <1>1, <2>2, BlockCascades
  <2>4. last_tick_ + a < Layer!Ticks /\ (last_tick_ + a) \div S = last_tick_ \div S
    <3>1. (last_tick_ % S) + a < S
      BY <1>4, <2>1
    <3> QED
      BY <1>2, <3>1, SameBlock
  <2>5. e = last_tick_ + a
    <3>1. /\ a = IF last_tick_ <= e THEN e - last_tick_ ELSE e - last_tick_ + Layer!Ticks
      BY <1>3, TicksToTick
    <3> QED
      BY <2>4, <3>1, TickNumbers
  <2>6. Layer!Digit(e, k) = Layer!Digit(last_tick_, k)
    BY <1>1, <2>4, <2>5 DEF Layer!Digit
  <2> QED
    BY <2>3, <2>6
<1>6. a > 0
  BY <1>4, <1>5
<1> QED
  BY <1>1, <1>3, <1>4, <1>5, <1>6 DEF Coming

(* tv1_ holds, under the digit of last_tick_, the timers of this tick. *)
LEMMA OwnTick ==
    ASSUME last_tick_ \in 0..Layer!Ticks - 1, NEW e \in 0..Layer!Ticks - 1,
           TicksTo(e, last_tick_) < Layer!Span(1)
    PROVE  Layer!Digit(e, 1) = last_tick_ % TVR_SIZE <=> e = last_tick_
<1>1. Layer!Digit(e, 1) = e % TVR_SIZE
  BY DEF Layer!Digit
<1>2. PICK M : Blocks(Layer!Ticks, TVR_SIZE, M)
  BY Spans
<1>3. e % TVR_SIZE = last_tick_ % TVR_SIZE => e = last_tick_
  BY <1>2, Spans, SameRest DEF TicksTo
<1> QED
  BY <1>1, <1>3

(* A list that is spread: the timers of this tick come to the list of tv1_ *)
(* that is taken next, the others to lists that are not.                   *)
LEMMA SpreadOut ==
    ASSUME last_tick_ \in 0..Layer!Ticks - 1, NEW e \in 0..Layer!Ticks - 1,
           TicksTo(e, last_tick_) < Layer!Ticks \div 2
    PROVE  IF Layer!List(e, last_tick_) = <<1, last_tick_ % TVR_SIZE>>
           THEN e = last_tick_
           ELSE Waits(Layer!List(e, last_tick_), e, last_tick_, "work")
<1>1. PICK k \in 1..5 : /\ Layer!List(e, last_tick_) = <<k, Layer!Digit(e, k)>>
                        /\ TicksTo(e, last_tick_) < Layer!Span(k)
                        /\ k > 1 => TicksTo(e, last_tick_) >= Layer!Span(k - 1)
  BY ListOf
<1>2. CASE Layer!List(e, last_tick_) = <<1, last_tick_ % TVR_SIZE>>
  <2>1. k = 1 /\ Layer!Digit(e, k) = last_tick_ % TVR_SIZE
    BY <1>1, <1>2
  <2> QED
    BY <1>1, <1>2, <2>1, OwnTick
<1>3. CASE Layer!List(e, last_tick_) # <<1, last_tick_ % TVR_SIZE>>
  <2>1. e # last_tick_
    <3>1. SUFFICES ASSUME e = last_tick_
                   PROVE  FALSE
      OBVIOUS
    <3>2. TicksTo(e, last_tick_) = 0
      BY <3>1, TicksToTick
    <3>3. k = 1
      <4>1. k > 1 => Layer!Span(k - 1) \in Nat \ {0}
        BY Spans
      <4> QED
        BY <1>1, <3>2, <4>1
    <3>4. Layer!Digit(e, k) = last_tick_ % TVR_SIZE
      BY <3>1, <3>3 DEF Layer!Digit
    <3> QED
      BY <1>1, <1>3, <3>3, <3>4
  <2>2. TicksTo(e, last_tick_) > 0
    <3>1. TicksTo(e, last_tick_) \in Nat /\ TicksTo(e, last_tick_) # 0
      BY <2>1, TicksToTick, TicksNat
    <3> QED
      BY <3>1
  <2> QED
    BY <1>3, <2>2, PlacedWaits
<1> QED
  BY <1>2, <1>3

LEMMA TakeTickMoves ==
    ASSUME LayerInv, Layer!TakeTick, NEW u \in Timer
    PROVE  /\ Settled(where'[u], expires[u], elapse[u], last_tick_, "work")
           /\ where'[u] # Layer!Run
<1>0. LayerTypes /\ Settling /\ pc = "loop"
  BY DEF LayerInv, Layer!TakeTick
<1>1. last_tick_ \in 0..Layer!Ticks - 1 /\ expires[u] \in 0..Layer!Ticks - 1
  BY <1>0 DEF LayerTypes
<1>2. Settled(where[u], expires[u], elapse[u], last_tick_, "loop")
  BY <1>0 DEF Settling
<1> DEFINE w == where[u]
           e == expires[u]
           spread == \E k \in 2..5 : Layer!Cascades(k) /\ w = <<k, Layer!Digit(last_tick_, k)>>
           c == IF spread THEN Layer!List(e, last_tick_) ELSE w
<1>3. where'[u] = IF c = <<1, last_tick_ % TVR_SIZE>> THEN Layer!Work ELSE c
  <2>1. Layer!__Cascade[u] = c
    BY DEF Layer!__Cascade
  <2> HIDE DEF c
  <2>2. where' = [t \in Timer |-> IF Layer!__Cascade[t] = <<1, last_tick_ % TVR_SIZE>>
                                  THEN Layer!Work ELSE Layer!__Cascade[t]]
    BY DEF Layer!TakeTick
  <2> QED
    BY <2>1, <2>2
<1>4. CASE w = Layer!Free
  <2>1. w[1] = 0
    BY <1>4 DEF Layer!Free
  <2>2. ~spread
    BY <2>1
  <2>3. c = Layer!Free /\ c # <<1, last_tick_ % TVR_SIZE>>
    BY <1>4, <2>1, <2>2
  <2> QED
    BY <1>3, <2>3, ThreePlaces DEF Settled
<1>5. CASE elapse[u] \in Delays /\ Waits(w, e, last_tick_, "loop")
  <2>1. PICK k \in 1..5 : w = <<k, Layer!Digit(e, k)>> /\ Coming(k, e, last_tick_, "loop")
    BY <1>5 DEF Waits
  <2>2. SUFFICES IF c = <<1, last_tick_ % TVR_SIZE>>
                 THEN e = last_tick_ ELSE Waits(c, e, last_tick_, "work")
    <3> HIDE DEF c, e
    <3>1. Waits(c, e, last_tick_, "work") => c # Layer!Run
      BY Apart
    <3>2. CASE c = <<1, last_tick_ % TVR_SIZE>>
      BY <1>3, <1>5, <2>2, <3>2, ThreePlaces DEF Settled, e
    <3>3. CASE c # <<1, last_tick_ % TVR_SIZE>>
      BY <1>3, <1>5, <2>2, <3>1, <3>3 DEF Settled, e
    <3> QED
      BY <3>2, <3>3
  <2>3. CASE spread
    <3>1. TicksTo(e, last_tick_) < Layer!Ticks \div 2
      BY <2>1 DEF Coming
    <3> QED
      BY <1>1, <2>3, <3>1, SpreadOut
  <2>4. CASE ~spread /\ k = 1
    <3>1. c = <<1, Layer!Digit(e, 1)>>
      BY <2>1, <2>4
    <3>2. TicksTo(e, last_tick_) < Layer!Span(1)
      BY <2>1, <2>4 DEF Coming
    <3>3. Layer!Digit(e, 1) = last_tick_ % TVR_SIZE <=> e = last_tick_
      BY <1>1, <3>2, OwnTick
    <3>4. CASE e = last_tick_
      BY <3>1, <3>3, <3>4
    <3>5. CASE e # last_tick_
      <4>1. TicksTo(e, last_tick_) \in Nat /\ TicksTo(e, last_tick_) # 0
        BY <1>1, <3>5, TicksToTick, TicksNat
      <4>2. Coming(1, e, last_tick_, "work")
        BY <2>1, <2>4, <4>1 DEF Coming
      <4>3. c # <<1, last_tick_ % TVR_SIZE>>
        BY <3>1, <3>3, <3>5
      <4> QED
        BY <3>1, <4>2, <4>3 DEF Waits
    <3> QED
      BY <3>4, <3>5
  <2>5. CASE ~spread /\ k \in 2..5
    <3>1. ~(Layer!Cascades(k) /\ Layer!Digit(e, k) = Layer!Digit(last_tick_, k))
      BY <2>1, <2>5
    <3>2. Coming(k, e, last_tick_, "work")
      BY <1>1, <2>1, <2>5, <3>1, WaitsOnward
    <3>3. c = <<k, Layer!Digit(e, k)>> /\ c # <<1, last_tick_ % TVR_SIZE>>
      BY <2>1, <2>5
    <3> QED
      BY <3>2, <3>3 DEF Waits
  <2> QED
    BY <2>3, <2>4, <2>5
<1> QED
  BY <1>2, <1>4, <1>5 DEF Settled

LEMMA TakeTickStep ==
    ASSUME LayerInv, Layer!TakeTick, is_exact_' = is_exact_
    PROVE  LayerInv'
<1>0. LayerTypes /\ Clocks /\ Settling /\ OneRuns
  BY DEF LayerInv
<1>1. /\ pc = "loop" /\ pc' = "work" /\ Layer!TicksLeft
      /\ UNCHANGED <<now, last_tick_, expires, elapse, rounds, tick, cur_tick, is_time_out>>
  BY DEF Layer!TakeTick
<1>2. where' = [t \in Timer |-> where'[t]]
  BY DEF Layer!TakeTick
<1>3. LayerTypes'
  BY <1>0, <1>1, <1>2 DEF LayerTypes
<1>4. Clocks'
  <2>1. tick # last_tick_
    BY <1>1 DEF Layer!TicksLeft
  <2>2. TicksTo(tick, last_tick_) \in Nat /\ TicksTo(tick, last_tick_) # 0
    BY <1>0, <2>1, TicksToTick, TicksNat DEF LayerTypes
  <2>3. TicksTo(tick', last_tick_') > 0
    BY <1>1, <2>2
  <2>4. Layer!Watches' = Layer!Watches
    BY DEF Layer!Watches
  <2> QED
    BY <1>0, <1>1, <2>3, <2>4 DEF Clocks
<1>5. Settling'
  BY <1>1, TakeTickMoves DEF Settling
<1>6. OneRuns'
  BY <1>1, TakeTickMoves DEF OneRuns
<1> QED
  BY <1>3, <1>4, <1>5, <1>6 DEF LayerInv

LEMMA SameTick ==
    ASSUME NEW x \in 0..Layer!Ticks - 1, NEW y \in 0..Layer!Ticks - 1,
           NEW last \in 0..Layer!Ticks - 1, TicksTo(x, last) = TicksTo(y, last)
    PROVE  x = y
<1>1. PICK T \in Nat \ {0} : T = Layer!Ticks
  BY TickNumbers
<1>2. x \in 0..T - 1 /\ y \in 0..T - 1 /\ last \in 0..T - 1
  BY <1>1
<1>3. TicksTo(x, last) = IF last <= x THEN x - last ELSE x - last + T
  BY <1>1, TicksToTick
<1>4. TicksTo(x, last) = IF last <= y THEN y - last ELSE y - last + T
  BY <1>1, TicksToTick
<1>5. last <= x <=> last <= y
  BY <1>2, <1>3, <1>4
<1> QED
  BY <1>2, <1>3, <1>4, <1>5

LEMMA WholeTick ==
    ASSUME NEW x \in 0..Layer!Ticks - 1
    PROVE  x % Layer!Ticks = x
<1>1. Layer!Ticks \in Nat \ {0} /\ x \in Int
  BY TickNumbers
<1>2. Consists(x, Layer!Ticks, 0, x)
  BY <1>1 DEF Consists
<1> QED
  BY <1>2, Divided

(* __NormalUpdate gives up only when the clock is past the tick it works   *)
(* up to: the timer it puts back then expires at a tick still to come.     *)
LEMMA OutOfTime ==
    ASSUME LayerInv, pc = "work", Layer!TimeOut
    PROVE  Layer!Watches /\ TicksTo(now, last_tick_) > TicksTo(tick, last_tick_)
<1>0. LayerTypes /\ Clocks
  BY DEF LayerInv
<1>1. CASE is_time_out
  BY <1>0, <1>1 DEF Clocks
<1>2. CASE Layer!Watches /\ (now - tick) % Layer!Ticks > Budget
  <2>1. /\ now \in 0..Layer!Ticks - 1 /\ tick \in 0..Layer!Ticks - 1
        /\ last_tick_ \in 0..Layer!Ticks - 1 /\ cur_tick \in 0..Layer!Ticks - 1
    BY <1>0 DEF LayerTypes
  <2>2. now # tick
    <3>1. SUFFICES ASSUME now = tick
                   PROVE  FALSE
      OBVIOUS
    <3>2. (now - tick) % Layer!Ticks = 0
      BY <2>1, <3>1, TicksToTick DEF TicksTo
    <3> QED
      BY <1>2, <3>2, LayerNumbers DEF Layer!Watches
  <2>3. TicksTo(now, last_tick_) # TicksTo(tick, last_tick_)
    BY <2>1, <2>2, SameTick
  <2>4. /\ TicksTo(now, last_tick_) \in Nat /\ TicksTo(tick, last_tick_) \in Nat
        /\ TicksTo(cur_tick, last_tick_) \in Nat
    BY <2>1, TicksNat
  <2>5. /\ TicksTo(tick, last_tick_) <= TicksTo(cur_tick, last_tick_)
        /\ TicksTo(cur_tick, last_tick_) <= TicksTo(now, last_tick_)
    BY <1>0 DEF Clocks
  <2> QED
    BY <1>2, <2>3, <2>4, <2>5
<1> QED
  BY <1>1, <1>2 DEF Layer!TimeOut

LEMMA DeferStep ==
    ASSUME LayerInv, NEW t \in Timer, Layer!Defer(t), is_exact_' = is_exact_
    PROVE  LayerInv'
<1>0. LayerTypes /\ Clocks /\ Settling /\ OneRuns
  BY DEF LayerInv
<1>1. /\ pc = "work" /\ where[t] = Layer!Work /\ Layer!TimeOut /\ Layer!Place(t, now)
      /\ cur_tick' = now /\ is_time_out' = TRUE
      /\ UNCHANGED <<now, last_tick_, elapse, rounds, pc, tick>>
  BY DEF Layer!Defer
<1>2. /\ now \in 0..Layer!Ticks - 1 /\ tick \in 0..Layer!Ticks - 1
      /\ last_tick_ \in 0..Layer!Ticks - 1
  BY <1>0 DEF LayerTypes
<1>3. Layer!Watches /\ TicksTo(now, last_tick_) > TicksTo(tick, last_tick_)
  BY <1>1, OutOfTime
<1>4. /\ TicksTo(now, last_tick_) \in Nat /\ TicksTo(tick, last_tick_) \in Nat
      /\ TicksTo(tick, last_tick_) > 0 /\ TicksTo(now, last_tick_) <= MaxLag
  BY <1>0, <1>1, <1>2, TicksNat DEF Clocks
<1>5. elapse'[t] \in Delays
  <2>1. Settled(where[t], expires[t], elapse[t], last_tick_, pc)
    BY <1>0 DEF Settling
  <2> QED
    BY <1>1, <2>1, ThreePlaces DEF Settled
<1>6. /\ now % Layer!Ticks \in 0..Layer!Ticks - 1
      /\ TicksTo(now % Layer!Ticks, last_tick_) > 0
      /\ TicksTo(now % Layer!Ticks, last_tick_) < Layer!Ticks \div 2
  <2>1. now % Layer!Ticks = now
    BY <1>2, WholeTick
  <2>2. TicksTo(now, last_tick_) > 0 /\ TicksTo(now, last_tick_) < Layer!Ticks \div 2
    BY <1>3, <1>4, LayerNumbers, TickNumbers
  <2> QED
    BY <1>2, <2>1, <2>2
<1>7. /\ Settled(where'[t], expires'[t], elapse'[t], last_tick_', pc')
      /\ where'[t] # Layer!Run
      /\ \A u \in Timer \ {t} : where'[u] = where[u] /\ expires'[u] = expires[u]
      /\ expires' \in [Timer -> 0..Layer!Ticks - 1]
      /\ where' = [u \in Timer |-> where'[u]]
  BY <1>1, <1>5, <1>6, PlaceSettles
<1>8. LayerTypes'
  <2>1. is_time_out' \in BOOLEAN
    BY <1>1
  <2> QED
    BY <1>0, <1>1, <1>2, <1>7, <2>1 DEF LayerTypes
<1>9. Clocks'
  <2>1. Layer!Watches'
    BY <1>3 DEF Layer!Watches
  <2>2. /\ TicksTo(tick', last_tick_') <= TicksTo(cur_tick', last_tick_')
        /\ TicksTo(cur_tick', last_tick_') <= TicksTo(now', last_tick_')
    BY <1>1, <1>3, <1>4
  <2> QED
    BY <1>0, <1>1, <1>3, <2>1, <2>2 DEF Clocks
<1>10. Settling'
  BY <1>1, <1>7, OthersStay
<1>11. OneRuns'
  BY <1>0, <1>1, <1>7, ThreePlaces, RunStays
<1> QED
  BY <1>8, <1>9, <1>10, <1>11 DEF LayerInv

LEMMA CallBeginStep ==
    ASSUME LayerInv, NEW t \in Timer, Layer!CallBegin(t), is_exact_' = is_exact_
    PROVE  LayerInv'
<1>0. LayerTypes /\ Clocks /\ Settling /\ OneRuns
  BY DEF LayerInv
<1>1. /\ pc = "work" /\ pc' = "callback" /\ where[t] = Layer!Work /\ rounds[t] # 0
      /\ rounds' = [rounds EXCEPT ![t] = IF @ = Forever THEN @ ELSE @ - 1]
      /\ where' = [where EXCEPT ![t] = Layer!Run]
      /\ cur_tick' = Layer!CurTick
      /\ UNCHANGED <<now, last_tick_, expires, elapse, tick, is_time_out>>
  BY DEF Layer!CallBegin
<1>2. /\ where' = [u \in Timer |-> where'[u]] /\ where'[t] = Layer!Run
      /\ \A u \in Timer \ {t} : where'[u] = where[u]
  BY <1>0, <1>1 DEF LayerTypes
<1>3. rounds' \in [Timer -> Nat \union {Forever}]
  <2>1. rounds \in [Timer -> Nat \union {Forever}]
    BY <1>0 DEF LayerTypes
  <2>2. rounds[t] # Forever => rounds[t] - 1 \in Nat
    BY <1>1, <2>1
  <2> QED
    BY <1>1, <2>1, <2>2
<1>4. cur_tick' = now \/ cur_tick' = cur_tick
  BY <1>1 DEF Layer!CurTick
<1>5. LayerTypes'
  BY <1>0, <1>1, <1>2, <1>3, <1>4 DEF LayerTypes
<1>6. Clocks'
  <2>1. /\ TicksTo(now, last_tick_) \in Nat /\ TicksTo(tick, last_tick_) \in Nat
        /\ TicksTo(cur_tick, last_tick_) \in Nat
    BY <1>0, TicksNat DEF LayerTypes
  <2>2. /\ TicksTo(tick, last_tick_) <= TicksTo(cur_tick, last_tick_)
        /\ TicksTo(cur_tick, last_tick_) <= TicksTo(now, last_tick_)
    BY <1>0, <1>1 DEF Clocks
  <2>3. /\ TicksTo(tick', last_tick_') <= TicksTo(cur_tick', last_tick_')
        /\ TicksTo(cur_tick', last_tick_') <= TicksTo(now', last_tick_')
    BY <1>1, <1>4, <2>1, <2>2
  <2>4. Layer!Watches' = Layer!Watches
    BY DEF Layer!Watches
  <2> QED
    BY <1>0, <1>1, <2>3, <2>4 DEF Clocks
<1>7. Settling'
  <2>1. Settled(where[t], expires[t], elapse[t], last_tick_, pc)
    BY <1>0 DEF Settling
  <2>2. elapse[t] \in Delays
    BY <1>1, <2>1, ThreePlaces DEF Settled
  <2>3. Settled(where'[t], expires'[t], elapse'[t], last_tick_', pc')
    BY <1>1, <1>2, <2>2 DEF Settled
  <2> QED
    BY <1>1, <1>2, <2>3, OthersStay
<1>8. OneRuns'
  <2>1. \A u \in Timer : where[u] # Layer!Run
    <3> SUFFICES ASSUME NEW u \in Timer PROVE where[u] # Layer!Run
      OBVIOUS
    <3>1. Settled(where[u], expires[u], elapse[u], last_tick_, pc)
      BY <1>0 DEF Settling
    <3> QED
      BY <1>1, <3>1, ThreePlaces, Apart DEF Settled
  <2> QED
    BY <1>2, <2>1 DEF OneRuns
<1> QED
  BY <1>5, <1>6, <1>7, <1>8 DEF LayerInv

LEMMA CallReturnStep ==
    ASSUME LayerInv, 0 \notin AdjustElapses, NEW t \in Timer, Layer!CallReturn(t),
           is_exact_' = is_exact_
    PROVE  LayerInv'
<1>0. LayerTypes /\ Clocks /\ Settling /\ OneRuns
  BY DEF LayerInv
<1>1. /\ pc = "callback" /\ pc' = "work" /\ where[t] = Layer!Run
      /\ UNCHANGED <<now, last_tick_, tick, cur_tick, is_time_out>>
  BY DEF Layer!CallReturn
<1>2. Clocks'
  BY <1>0, <1>1, ClocksStay
<1>3. \A u \in Timer \ {t} : where[u] # Layer!Run
  BY <1>0, <1>1 DEF OneRuns
<1>4. CASE Layer!Destroy(t)
  <2>1. /\ Settled(where'[t], expires'[t], elapse'[t], last_tick_', pc')
        /\ where'[t] # Layer!Run
        /\ \A u \in Timer \ {t} : /\ where'[u] = where[u] /\ expires'[u] = expires[u]
                                  /\ elapse'[u] = elapse[u]
        /\ expires' \in [Timer -> 0..Layer!Ticks - 1]
        /\ where' = [u \in Timer |-> where'[u]]
        /\ elapse' \in [Timer -> {0} \union Delays]
        /\ rounds' \in [Timer -> Nat \union {Forever}]
    BY <1>4, DestroySettles
  <2>2. LayerTypes'
    BY <1>0, <1>1, <2>1 DEF LayerTypes
  <2>3. Settling'
    BY <1>1, <2>1, OthersStay
  <2>4. OneRuns'
    BY <1>1, <1>3, <2>1 DEF OneRuns
  <2> QED
    BY <1>2, <2>2, <2>3, <2>4 DEF LayerInv
<1>5. CASE /\ Layer!Place(t, (IF is_exact_ THEN now ELSE cur_tick) + elapse[t])
           /\ UNCHANGED <<elapse, rounds>>
  <2>1. /\ now \in 0..Layer!Ticks - 1 /\ cur_tick \in 0..Layer!Ticks - 1
        /\ last_tick_ \in 0..Layer!Ticks - 1
    BY <1>0 DEF LayerTypes
  <2>2. /\ TicksTo(now, last_tick_) <= MaxLag
        /\ TicksTo(cur_tick, last_tick_) <= MaxLag
    <3>1. TicksTo(now, last_tick_) \in Nat /\ TicksTo(cur_tick, last_tick_) \in Nat
      BY <2>1, TicksNat
    <3>2. /\ TicksTo(now, last_tick_) <= MaxLag
          /\ TicksTo(cur_tick, last_tick_) <= TicksTo(now, last_tick_)
      BY <1>0, <1>1 DEF Clocks
    <3> QED
      BY <3>1, <3>2, LayerNumbers
  <2>3. PICK x \in 0..Layer!Ticks - 1 : /\ x = IF is_exact_ THEN now ELSE cur_tick
                                        /\ TicksTo(x, last_tick_) <= MaxLag
    BY <2>1, <2>2
  <2>4. elapse[t] \in Delays
    <3>1. Settled(where[t], expires[t], elapse[t], last_tick_, pc)
      BY <1>0 DEF Settling
    <3> QED
      BY <1>1, <3>1, ThreePlaces DEF Settled
  <2>5. /\ (x + elapse[t]) % Layer!Ticks \in 0..Layer!Ticks - 1
        /\ TicksTo((x + elapse[t]) % Layer!Ticks, last_tick_) > 0
        /\ TicksTo((x + elapse[t]) % Layer!Ticks, last_tick_) < Layer!Ticks \div 2
    BY <2>1, <2>3, <2>4, DelayAhead
  <2>6. Layer!Place(t, x + elapse[t])
    BY <1>5, <2>3
  <2>7. elapse'[t] \in Delays /\ \A u \in Timer \ {t} : elapse'[u] = elapse[u]
    BY <1>5, <2>4
  <2>8. /\ Settled(where'[t], expires'[t], elapse'[t], last_tick_', pc')
        /\ where'[t] # Layer!Run
        /\ \A u \in Timer \ {t} : where'[u] = where[u] /\ expires'[u] = expires[u]
        /\ expires' \in [Timer -> 0..Layer!Ticks - 1]
        /\ where' = [u \in Timer |-> where'[u]]
    BY <1>1, <2>5, <2>6, <2>7, PlaceSettles
  <2>9. LayerTypes'
    BY <1>0, <1>1, <1>5, <2>8 DEF LayerTypes
  <2>10. Settling'
    BY <1>1, <2>7, <2>8, OthersStay
  <2>11. OneRuns'
    BY <1>1, <1>3, <2>8 DEF OneRuns
  <2> QED
    BY <1>2, <2>9, <2>10, <2>11 DEF LayerInv
<1> QED
  BY <1>4, <1>5 DEF Layer!CallReturn

LEMMA LayerStep ==
    ASSUME LayerInv, 0 \notin AdjustElapses, [Layer!Next]_Layer!vars
    PROVE  LayerInv'
<1>1. CASE UNCHANGED Layer!vars
  <2>1. UNCHANGED <<is_exact_, now, last_tick_, where, expires, elapse, rounds, pc, tick,
                    cur_tick, is_time_out>>
    BY <1>1 DEF Layer!vars
  <2>2. LayerTypes' /\ Settling' /\ OneRuns'
    BY <2>1 DEF LayerInv, LayerTypes, Settling, OneRuns
  <2>3. Clocks'
    BY <2>1, ClocksStay DEF LayerInv
  <2> QED
    BY <2>2, <2>3 DEF LayerInv
<1>2. CASE Layer!ClockTick /\ is_exact_' = is_exact_
  BY <1>2, ClockTickStep
<1>3. CASE Layer!Owner /\ is_exact_' = is_exact_
  <2>1. PICK t \in Timer :
            \/ \E d \in Elapses, c \in Counts : Layer!AddTimer(t, d, c)
            \/ \E d \in AdjustElapses, c \in Counts : Layer!AdjustTimer(t, d, c)
            \/ Layer!RemoveTimer(t)
    BY <1>3 DEF Layer!Owner
  <2> QED
    BY <1>3, <2>1, AddTimerStep, AdjustTimerStep, RemoveTimerStep
<1>4. CASE Layer!Update /\ is_exact_' = is_exact_
  <2>1. CASE Layer!UpdateBegin \/ Layer!UpdateReturn
    BY <1>4, <2>1, UpdateStep
  <2>2. CASE Layer!TakeTick
    BY <1>4, <2>2, TakeTickStep
  <2>3. CASE Layer!TickDone
    BY <1>4, <2>3, TickDoneStep
  <2>4. ASSUME NEW t \in Timer,
               \/ Layer!DropEmpty(t) \/ Layer!Defer(t)
               \/ Layer!CallBegin(t) \/ Layer!CallReturn(t)
        PROVE  LayerInv'
    BY <1>4, <2>4, DropEmptyStep, DeferStep, CallBeginStep, CallReturnStep
  <2> QED
    BY <1>4, <2>1, <2>2, <2>3, <2>4 DEF Layer!Update
<1> QED
  BY <1>1, <1>2, <1>3, <1>4 DEF Layer!Next

LEMMA DigitIs ==
    ASSUME NEW e \in 0..Layer!Ticks - 1, NEW k \in 1..5
    PROVE  Layer!Digit(e, k) \in IF k = 1 THEN 0..TVR_SIZE - 1 ELSE 0..TVN_SIZE - 1
<1>0. e \in Int /\ TVR_SIZE \in Nat \ {0} /\ TVN_SIZE \in Nat \ {0}
  BY TickNumbers, LayerNumbers
<1>1. CASE k = 1
  <2>1. e % TVR_SIZE \in 0..TVR_SIZE - 1
    BY <1>0, Division
  <2> QED
    BY <1>1, <2>1 DEF Layer!Digit
<1>2. CASE k # 1
  <2>1. PICK S \in Nat \ {0} : S = Layer!Span(k - 1)
    BY <1>2, Spans
  <2>2. e \div S \in Int
    BY <1>0, Division
  <2>3. (e \div S) % TVN_SIZE \in 0..TVN_SIZE - 1
    BY <1>0, <2>2, Division
  <2> QED
    BY <1>2, <2>1, <2>3 DEF Layer!Digit
<1> QED
  BY <1>1, <1>2

LEMMA OneAtMost ==
    ASSUME NEW S, \A x, y \in S : x = y
    PROVE  Layer!Cardinality(S) <= 1
<1>0. Layer!Cardinality(S) = Cardinality(S)
  BY DEF Layer!Cardinality, Cardinality, Layer!IsFiniteSet, IsFiniteSet
<1>1. CASE S = {}
  BY <1>0, <1>1, FS_EmptySet
<1>2. CASE S # {}
  <2>1. PICK x : x \in S
    BY <1>2
  <2>2. S = {x}
    BY <2>1
  <2>3. Cardinality({x}) = 1
    BY FS_Singleton
  <2> QED
    BY <1>0, <2>2, <2>3
<1> QED
  BY <1>1, <1>2

LEMMA LayerInvSound ==
    ASSUME LayerInv
    PROVE  LayersInv
<1>0. LayerTypes /\ Settling /\ OneRuns
  BY DEF LayerInv
<1>1. \A t \in Timer : Settled(where[t], expires[t], elapse[t], last_tick_, pc)
  BY <1>0 DEF Settling
<1>2. Layer!TypeOK
  <2> DEFINE Lists == {Layer!Free, Layer!Work, Layer!Run}
                        \union ({1} \X (0..TVR_SIZE - 1))
                        \union ((2..5) \X (0..TVN_SIZE - 1))
  <2>1. where \in [Timer -> Lists]
    <3>1. ASSUME NEW t \in Timer
          PROVE  where[t] \in Lists
      <4>1. CASE Waits(where[t], expires[t], last_tick_, pc)
        <5>1. PICK k \in 1..5 : where[t] = <<k, Layer!Digit(expires[t], k)>>
          BY <4>1 DEF Waits
        <5>2. expires[t] \in 0..Layer!Ticks - 1
          BY <1>0 DEF LayerTypes
        <5>3. Layer!Digit(expires[t], k) \in IF k = 1 THEN 0..TVR_SIZE - 1 ELSE 0..TVN_SIZE - 1
          BY <5>2, DigitIs
        <5>4. CASE k = 1
          BY <5>1, <5>3, <5>4
        <5>5. CASE k # 1
          <6>1. k \in 2..5
            BY <5>5
          <6> QED
            BY <5>1, <5>3, <5>5, <6>1
        <5> QED
          BY <5>4, <5>5
      <4>2. CASE where[t] \in {Layer!Free, Layer!Work, Layer!Run}
        BY <4>2
      <4> QED
        BY <1>1, <4>1, <4>2 DEF Settled
    <3> HIDE DEF Lists
    <3> QED
      BY <1>0, <3>1 DEF LayerTypes
  <2>2. (pc = "callback") = (\E t \in Timer : where[t] = Layer!Run)
    <3>1. pc = "callback" => \E t \in Timer : where[t] = Layer!Run
      BY <1>0 DEF OneRuns
    <3>2. ASSUME NEW t \in Timer, where[t] = Layer!Run
          PROVE  pc = "callback"
      BY <1>1, <3>2, ThreePlaces, Apart DEF Settled
    <3> QED
      BY <3>1, <3>2
  <2>3. Layer!Cardinality({t \in Timer : where[t] = Layer!Run}) <= 1
    <3> DEFINE R == {t \in Timer : where[t] = Layer!Run}
    <3>1. \A t, u \in R : t = u
      BY <1>0 DEF OneRuns
    <3> HIDE DEF R
    <3>2. Layer!Cardinality(R) <= 1
      BY <3>1, OneAtMost
    <3> QED
      BY <3>2 DEF R
  <2>4. \A t \in Timer : rounds[t] \in Nat \/ rounds[t] = Forever
    BY <1>0 DEF LayerTypes
  <2> HIDE DEF Lists
  <2> QED
    BY <1>0, <2>1, <2>2, <2>3, <2>4 DEF LayerTypes, Layer!TypeOK, Delays, Lists
<1>3. Layer!OnTime
  <2> SUFFICES ASSUME NEW t \in Timer, Layer!__TimerPending(t)
               PROVE  IF where[t] = Layer!Work THEN expires[t] = last_tick_
                      ELSE /\ Layer!Ahead(t) < Layer!Ticks \div 2
                           /\ pc \in {"work", "callback"} => expires[t] # last_tick_
    BY DEF Layer!OnTime
  <2>1. where[t] # Layer!Free /\ where[t] # Layer!Run
    BY DEF Layer!__TimerPending
  <2>2. CASE where[t] = Layer!Work
    BY <1>1, <2>2, ThreePlaces, Apart DEF Settled
  <2>3. CASE where[t] # Layer!Work
    <3>1. Waits(where[t], expires[t], last_tick_, pc)
      BY <1>1, <2>1, <2>3 DEF Settled
    <3>2. /\ TicksTo(expires[t], last_tick_) < Layer!Ticks \div 2
          /\ pc \in {"work", "callback"} => TicksTo(expires[t], last_tick_) > 0
      BY <3>1 DEF Waits, Coming
    <3>3. TicksTo(expires[t], last_tick_) = 0 <=> expires[t] = last_tick_
      BY <1>0, TicksToTick DEF LayerTypes
    <3> QED
      BY <2>3, <3>2, <3>3 DEF Layer!Ahead, TicksTo
  <2> QED
    BY <2>2, <2>3
<1> QED
  BY <1>2, <1>3 DEF LayersInv, Layer!LayersInv

(* CTimerLayering calls a timer back at exactly its tick and passes none   *)
(* over, whatever the sizes of the wheels, the delays and the lag of       *)
(* Update(), across the wrap of the tick, and frees none under its own     *)
(* callback.  AdjustTimer must not be given the delay 0, which it does not *)
(* test: that timer goes into the list that has just been taken.           *)
THEOREM LayersSound ==
    ASSUME 0 \notin AdjustElapses
    PROVE  Layer!Spec => []LayersInv
<1>1. Layer!Init => LayerInv
  BY LayerStart
<1>2. LayerInv /\ [Layer!Next]_Layer!vars => LayerInv'
  BY LayerStep
<1>3. LayerInv => LayersInv
  BY LayerInvSound
<1> QED
  BY <1>1, <1>2, <1>3, PTL DEF Layer!Spec

-----------------------------------------------------------------------------
(* TimeWheel.  Five fields, from msec to day, are worth a number of ticks. *)
(* AddTime adds the ticks of a delay, Update() adds one; a timer is put    *)
(* into the wheel of the coarsest field in which it is ahead of the hands, *)
(* and every hand-down keeps it so.                                        *)

Val4(x) == x[4] + Size[4] * x[5]
Val3(x) == x[3] + Size[3] * Val4(x)
Val2(x) == x[2] + Size[2] * Val3(x)
Value(x) == x[1] + Size[1] * Val2(x)

LEMMA Levels ==
    /\ Level = {1, 2, 3, 4, 5}
    /\ 1 \in Level /\ 2 \in Level /\ 3 \in Level /\ 4 \in Level /\ 5 \in Level
    /\ \A l \in Level : l \in Int /\ l >= 1 /\ l <= 5
  BY DEF Level

LEMMA WheelNumbers ==
    /\ NoTimer \notin Timer
    /\ Ms \in Nat \ {0} /\ MaxInt \in Nat /\ Size[1] <= Ms
    /\ Size \in [Level -> Nat \ {0}]
    /\ Size[1] \in Nat \ {0} /\ Size[2] \in Nat \ {0} /\ Size[3] \in Nat \ {0}
    /\ Size[4] \in Nat \ {0} /\ Size[5] \in Nat \ {0}
    /\ Delay \subseteq Nat /\ Count \subseteq {-1} \union (Nat \ {0})
  BY TimeWheelAssumption, Levels

(* Fields within their wheels. *)
InWheels(x) == x \in [Level -> Nat] /\ \A l \in Level : x[l] < Size[l]

LEMMA Products ==
    ASSUME NEW a \in Nat, NEW b \in Nat
    PROVE  a * b \in Nat
  OBVIOUS

LEMMA ValuesNat ==
    ASSUME NEW x \in [Level -> Nat]
    PROVE  Val4(x) \in Nat /\ Val3(x) \in Nat /\ Val2(x) \in Nat /\ Value(x) \in Nat
<1>1. x[1] \in Nat /\ x[2] \in Nat /\ x[3] \in Nat /\ x[4] \in Nat /\ x[5] \in Nat
  BY Levels
<1>2. Val4(x) \in Nat
  BY <1>1, WheelNumbers, Products DEF Val4
<1>3. Val3(x) \in Nat
  BY <1>1, <1>2, WheelNumbers, Products DEF Val3
<1>4. Val2(x) \in Nat
  BY <1>1, <1>3, WheelNumbers, Products DEF Val2
<1>5. Value(x) \in Nat
  BY <1>1, <1>4, WheelNumbers, Products DEF Value
<1> QED
  BY <1>2, <1>3, <1>4, <1>5

(* A field and what is above it. *)
LEMMA Above ==
    ASSUME NEW S \in Nat \ {0}, NEW a \in 0..S - 1, NEW b \in 0..S - 1,
           NEW A \in Int, NEW B \in Int
    PROVE  /\ A > B => a + S * A > b + S * B
           /\ A = B /\ a > b => a + S * A > b + S * B
<1>1. S * (A - B) = S * A - S * B
  BY Spread
<1>2. A > B => S * (A - B) >= S
  BY Larger
<1> QED
  BY <1>1, <1>2

(* Dividing twice divides by the product. *)
LEMMA Twice ==
    ASSUME NEW x, NEW a, NEW q, NEW r, NEW b, NEW p, NEW s,
           Consists(x, a, q, r), Consists(q, b, p, s)
    PROVE  \E t : Consists(x, a * b, p, t)
<1>1. /\ x \in Int /\ a \in Nat \ {0} /\ q \in Int /\ r \in 0..a - 1 /\ x = a * q + r
      /\ b \in Nat \ {0} /\ p \in Int /\ s \in 0..b - 1 /\ q = b * p + s
  BY DEF Consists
<1>2. a * b \in Nat \ {0}
  BY <1>1
<1>3. a * s + a <= a * b
  <2>1. a * (b - s) >= a
    BY <1>1, Larger
  <2>2. a * (b - s) = a * b - a * s
    BY <1>1, Spread
  <2>3. a * s \in Int
    BY <1>1
  <2> QED
    BY <1>1, <1>2, <2>1, <2>2, <2>3
<1>4. x = (a * b) * p + (a * s + r)
  <2>1. a * (b * p + s) = a * (b * p) + a * s
    BY <1>1, Spread
  <2>2. a * (b * p) = (a * b) * p
    BY <1>1
  <2>3. a * q = (a * b) * p + a * s
    BY <1>1, <2>1, <2>2
  <2>4. (a * b) * p \in Int /\ a * s \in Int
    BY <1>1
  <2> QED
    BY <1>1, <2>3, <2>4
<1>5. a * s \in Nat
  BY <1>1, Products
<1>6. a * s + r \in 0..(a * b) - 1
  BY <1>1, <1>2, <1>3, <1>5
<1>7. Consists(x, a * b, p, a * s + r)
  BY <1>1, <1>2, <1>4, <1>6 DEF Consists
<1> QED
  BY <1>7

LEMMA NatParts ==
    ASSUME NEW x \in Nat, NEW m \in Nat \ {0}
    PROVE  \E q \in Nat, r \in 0..m - 1 :
             /\ Consists(x, m, q, r) /\ q = x \div m /\ r = x % m
             /\ x = m * q + r
<1>0. x \in Int
  OBVIOUS
<1>1. PICK q, r : Consists(x, m, q, r) /\ q = x \div m /\ r = x % m
  BY <1>0, Parts
<1>2. q \in Int /\ r \in 0..m - 1 /\ x = m * q + r
  BY <1>1 DEF Consists
<1>3. q >= 0
  <2>1. q <= -1 => m * q <= -m
    BY <1>2, Larger
  <2> QED
    BY <1>2, <2>1
<1>4. q \in Nat
  BY <1>2, <1>3
<1> QED
  BY <1>1, <1>2, <1>4

(* A number as digits of several bases. *)
InDigits(ms, M, A, B, C, s, r, s2, s3, s4, d2, d3, d4) ==
    /\ s \in Nat /\ r \in 0..M - 1 /\ s2 \in Nat /\ s3 \in Nat /\ s4 \in Nat
    /\ d2 \in 0..A - 1 /\ d3 \in 0..B - 1 /\ d4 \in 0..C - 1
    /\ r = ms % M /\ ms = M * s + r
    /\ d2 = (ms \div M) % A /\ s = A * s2 + d2
    /\ d3 = (ms \div (M * A)) % B /\ s2 = B * s3 + d3
    /\ d4 = (ms \div (M * A * B)) % C /\ s3 = C * s4 + d4
    /\ s4 = ms \div (M * A * B * C)

LEMMA Digits ==
    ASSUME NEW ms \in Nat, NEW M \in Nat \ {0}, NEW A \in Nat \ {0},
           NEW B \in Nat \ {0}, NEW C \in Nat \ {0}
    PROVE  \E s, r, s2, s3, s4, d2, d3, d4 :
             InDigits(ms, M, A, B, C, s, r, s2, s3, s4, d2, d3, d4)
<1>1. PICK s \in Nat, r \in 0..M - 1 :
        /\ Consists(ms, M, s, r) /\ s = ms \div M /\ r = ms % M /\ ms = M * s + r
  BY NatParts
<1>2. PICK s2 \in Nat, d2 \in 0..A - 1 :
        /\ Consists(s, A, s2, d2) /\ s2 = s \div A /\ d2 = s % A /\ s = A * s2 + d2
  BY NatParts
<1>3. PICK s3 \in Nat, d3 \in 0..B - 1 :
        /\ Consists(s2, B, s3, d3) /\ s3 = s2 \div B /\ d3 = s2 % B /\ s2 = B * s3 + d3
  BY NatParts
<1>4. PICK s4 \in Nat, d4 \in 0..C - 1 :
        /\ Consists(s3, C, s4, d4) /\ s4 = s3 \div C /\ d4 = s3 % C /\ s3 = C * s4 + d4
  BY NatParts
<1>5. PICK t : Consists(ms, M * A, s2, t)
  BY <1>1, <1>2, Twice
<1>6. PICK u : Consists(ms, M * A * B, s3, u)
  BY <1>3, <1>5, Twice
<1>7. PICK v : Consists(ms, M * A * B * C, s4, v)
  BY <1>4, <1>6, Twice
<1>8. ms \div (M * A) = s2
  BY <1>5, Divided
<1>9. ms \div (M * A * B) = s3
  BY <1>6, Divided
<1>10. ms \div (M * A * B * C) = s4
  BY <1>7, Divided
<1>11. d2 = (ms \div M) % A /\ d3 = (ms \div (M * A)) % B /\ d4 = (ms \div (M * A * B)) % C
  BY <1>1, <1>2, <1>3, <1>4, <1>8, <1>9, Zenon
<1>12. InDigits(ms, M, A, B, C, s, r, s2, s3, s4, d2, d3, d4)
  BY <1>1, <1>2, <1>3, <1>4, <1>10, <1>11, Zenon DEF InDigits
<1> QED
  BY <1>12, Zenon

(* The fields of a delay are worth its ticks. *)
LEMMA FieldsWorth ==
    ASSUME NEW ms \in Nat
    PROVE  /\ Fields(ms) \in [Level -> Nat]
           /\ \A l \in 1..4 : Fields(ms)[l] < Size[l]
           /\ Value(Fields(ms)) = Ticks(ms) /\ Ticks(ms) \in Nat
<1>0. PICK M \in Nat \ {0}, S \in Nat \ {0}, A \in Nat \ {0}, B \in Nat \ {0},
           C \in Nat \ {0} :
        M = Ms /\ S = Size[1] /\ A = Size[2] /\ B = Size[3] /\ C = Size[4]
  BY WheelNumbers
<1>a. PICK s, r, s2, s3, s4, d2, d3, d4 :
        InDigits(ms, M, A, B, C, s, r, s2, s3, s4, d2, d3, d4)
  BY Digits, Zenon
<1>c. /\ s \in Nat /\ r \in 0..M - 1 /\ s2 \in Nat /\ s3 \in Nat /\ s4 \in Nat
      /\ d2 \in 0..A - 1 /\ d3 \in 0..B - 1 /\ d4 \in 0..C - 1
  BY <1>a, Zenon DEF InDigits
<1>1. /\ r = ms % M
      /\ d2 = (ms \div M) % A
      /\ d3 = (ms \div (M * A)) % B
      /\ d4 = (ms \div (M * A * B)) % C
      /\ s4 = ms \div (M * A * B * C)
  BY <1>a, Zenon DEF InDigits
<1> USE <1>c
<1>8. r * S \in Nat
  BY Products
<1>9. PICK m \in Nat, o \in 0..M - 1 :
        Consists(r * S, M, m, o) /\ m = (r * S) \div M /\ o = (r * S) % M
        /\ r * S = M * m + o
  BY <1>8, NatParts
<1> DEFINE f == Fields(ms)
<1>10. /\ f = [l \in Level |-> f[l]]
       /\ f[1] = m /\ f[2] = d2 /\ f[3] = d3 /\ f[4] = d4 /\ f[5] = s4
  <2>1. f = [l \in Level |-> f[l]] /\ f[1] = ((ms % M) * S) \div M
    BY <1>0, Levels DEF Fields
  <2>2. f[2] = (ms \div M) % A
    BY <1>0, Levels DEF Fields
  <2>3. f[3] = (ms \div (M * A)) % B
    BY <1>0, Levels DEF Fields
  <2>4. f[4] = (ms \div (M * A * B)) % C
    BY <1>0, Levels DEF Fields
  <2>5. f[5] = ms \div (M * A * B * C)
    BY <1>0, Levels DEF Fields, DayMs
  <2> QED
    BY <1>1, <1>9, <2>1, <2>2, <2>3, <2>4, <2>5, Zenon
<1> HIDE DEF f
<1>b. s = A * s2 + d2 /\ s2 = B * s3 + d3 /\ s3 = C * s4 + d4 /\ ms = M * s + r
  BY <1>a, Zenon DEF InDigits
<1>11. Val2(f) = s
  <2>1. Val4(f) = s3
    <3>1. Val4(f) = d4 + C * s4
      BY <1>0, <1>10, Zenon DEF Val4
    <3>2. C * s4 \in Nat
      BY Products
    <3> QED
      BY <1>b, <3>1, <3>2
  <2>2. Val3(f) = s2
    <3>1. Val3(f) = d3 + B * s3
      BY <1>0, <1>10, <2>1, Zenon DEF Val3
    <3>2. B * s3 \in Nat
      BY Products
    <3> QED
      BY <1>b, <3>1, <3>2
  <2>3. Val2(f) = d2 + A * s2
    BY <1>0, <1>10, <2>2, Zenon DEF Val2
  <2>4. A * s2 \in Nat
    BY Products
  <2> QED
    BY <1>b, <2>3, <2>4
<1>12. m < S
  <2>1. SUFFICES ASSUME m >= S PROVE FALSE
    OBVIOUS
  <2>2. S * (M - r) >= S
    BY Larger
  <2>3. S * (M - r) = M * S - r * S
    OBVIOUS
  <2>4. M * (m - S) >= 0
    BY <2>1
  <2>5. M * (m - S) = M * m - M * S
    BY Spread
  <2>6. M * m \in Int /\ M * S \in Int
    OBVIOUS
  <2> QED
    BY <1>8, <1>9, <2>2, <2>3, <2>4, <2>5, <2>6
<1>13. Ticks(ms) = S * s + m
  <2>1. ms * S = M * (S * s + m) + o
    <3>1. ms * S = (M * s) * S + r * S
      BY <1>b
    <3>2. (M * s) * S = M * (S * s)
      OBVIOUS
    <3>3. M * (S * s + m) = M * (S * s) + M * m
      BY Spread
    <3>4. M * (S * s) \in Int /\ M * m \in Int
      OBVIOUS
    <3> QED
      BY <1>9, <3>1, <3>2, <3>3, <3>4
  <2>2. ms * S \in Int /\ S * s + m \in Int
    OBVIOUS
  <2>3. Consists(ms * S, M, S * s + m, o)
    BY <2>1, <2>2 DEF Consists
  <2>4. (ms * S) \div M = S * s + m
    BY <2>3, Divided
  <2> QED
    BY <1>0, <2>4, Zenon DEF Ticks
<1>14. Value(f) = Ticks(ms) /\ Ticks(ms) \in Nat
  <2>1. S * s \in Nat
    BY Products
  <2>2. Value(f) = m + S * s
    BY <1>0, <1>10, <1>11, Zenon DEF Value
  <2> QED
    BY <1>13, <2>1, <2>2
<1>15. f \in [Level -> Nat]
  <2>1. \A l \in Level : f[l] \in Nat
    BY <1>10, Levels
  <2> QED
    BY <1>10, <2>1
<1>16. \A l \in 1..4 : f[l] < Size[l]
  <2>1. \A l \in 1..4 : l = 1 \/ l = 2 \/ l = 3 \/ l = 4
    OBVIOUS
  <2>2. d2 < A /\ d3 < B /\ d4 < C
    OBVIOUS
  <2> QED
    BY <1>0, <1>10, <1>12, <2>1, <2>2
<1> QED
  BY <1>14, <1>15, <1>16 DEF f

(* AddTime carries level by level. *)
CarryStep(from, add, c) ==
    [l \in 0..4 |->
       IF l = 0 THEN FALSE
       ELSE from[l] + add[l] + (IF c[l - 1] THEN 1 ELSE 0) >= Size[l]]

LEMMA CarryIs ==
    ASSUME NEW from, NEW add
    PROVE  Carry(from, add) = CarryStep(from, add, Carry(from, add))
<1> DEFINE c1 == from[1] + add[1] + 0 >= Size[1]
           c2 == from[2] + add[2] + (IF c1 THEN 1 ELSE 0) >= Size[2]
           c3 == from[3] + add[3] + (IF c2 THEN 1 ELSE 0) >= Size[3]
           c4 == from[4] + add[4] + (IF c3 THEN 1 ELSE 0) >= Size[4]
           g == [l \in 0..4 |-> IF l = 0 THEN FALSE ELSE IF l = 1 THEN c1
                                ELSE IF l = 2 THEN c2 ELSE IF l = 3 THEN c3 ELSE c4]
<1>1. \A l \in 0..4 : l = 0 \/ l = 1 \/ l = 2 \/ l = 3 \/ l = 4
  OBVIOUS
<1>2. /\ 0 \in 0..4 /\ 1 \in 0..4 /\ 2 \in 0..4 /\ 3 \in 0..4 /\ 4 \in 0..4
      /\ 1 - 1 = 0 /\ 2 - 1 = 1 /\ 3 - 1 = 2 /\ 4 - 1 = 3
      /\ 1 # 0 /\ 2 # 0 /\ 3 # 0 /\ 4 # 0 /\ 2 # 1 /\ 3 # 1 /\ 4 # 1 /\ 3 # 2 /\ 4 # 2
      /\ 4 # 3
  OBVIOUS
<1>3. g[0] = FALSE /\ g[1] = c1 /\ g[2] = c2 /\ g[3] = c3 /\ g[4] = c4
  BY <1>2, Zenon
<1> HIDE DEF g
<1>4. \A l \in 0..4 : g[l] = IF l = 0 THEN FALSE
            ELSE from[l] + add[l] + (IF g[l - 1] THEN 1 ELSE 0) >= Size[l]
  <2> SUFFICES ASSUME NEW l \in 0..4
               PROVE  g[l] = IF l = 0 THEN FALSE
            ELSE from[l] + add[l] + (IF g[l - 1] THEN 1 ELSE 0) >= Size[l]
    OBVIOUS
  <2>0. CASE l = 0
    BY <1>3, <2>0, Zenon
  <2>1. CASE l = 1
    BY <1>2, <1>3, <2>1, Zenon
  <2>2. CASE l = 2
    BY <1>2, <1>3, <2>2, Zenon
  <2>3. CASE l = 3
    BY <1>2, <1>3, <2>3, Zenon
  <2>4. CASE l = 4
    BY <1>2, <1>3, <2>4, Zenon
  <2> QED
    BY <1>1, <2>0, <2>1, <2>2, <2>3, <2>4, Zenon
<1>5. g = [l \in 0..4 |-> g[l]]
  BY Zenon DEF g
<1>6. g = CarryStep(from, add, g)
  BY <1>4, <1>5, Zenon DEF CarryStep
<1>7. Carry(from, add) = CHOOSE c : c = CarryStep(from, add, c)
  BY Zenon DEF Carry, CarryStep
<1> QED
  BY <1>6, <1>7, Zenon

(* One column of an addition. *)
LEMMA Column ==
    ASSUME NEW S \in Nat \ {0}, NEW a \in 0..S - 1, NEW b \in 0..S - 1,
           NEW c \in 0..1, NEW d \in 0..1, d = 1 <=> a + b + c >= S,
           NEW A \in Int, NEW B \in Int
    PROVE  /\ a + b + c - d * S \in 0..S - 1
           /\ (a + b + c - d * S) + S * (A + B + d) = (a + S * A) + (b + S * B) + c
<1>1. S * (A + B + d) = S * A + S * B + S * d
  <2>1. S * ((A + B) + d) = S * (A + B) + S * d
    BY Spread
  <2>2. S * (A + B) = S * A + S * B
    BY Spread
  <2> QED
    BY <2>1, <2>2
<1>2. CASE d = 0
  BY <1>1, <1>2
<1>3. CASE d = 1
  BY <1>1, <1>3
<1> QED
  BY <1>2, <1>3

LEMMA ColumnFits ==
    ASSUME NEW S \in Nat \ {0}, NEW a \in 0..S - 1, NEW b \in 0..S - 1,
           NEW c \in 0..1, NEW d \in 0..1, d = 1 <=> a + b + c >= S
    PROVE  a + b + c - d * S \in 0..S - 1
  BY Column

(* Adding a delay moves the value by its ticks. *)
LEMMA LaterWorth ==
    ASSUME NEW from \in [Level -> Nat], \A l \in 1..4 : from[l] < Size[l],
           NEW ms \in Nat, point[5] \in Nat
    PROVE  /\ Later(from, ms) \in [Level -> Nat]
           /\ \A l \in 1..4 : Later(from, ms)[l] < Size[l]
           /\ Later(from, ms)[5] >= point[5]
           /\ from[5] = point[5] => Value(Later(from, ms)) = Value(from) + Ticks(ms)
<1> DEFINE add == Fields(ms)
           c == Carry(from, add)
           one(l) == IF c[l] THEN 1 ELSE 0
           x == Later(from, ms)
<1>1. add \in [Level -> Nat] /\ \A l \in 1..4 : add[l] < Size[l]
  BY FieldsWorth
<1>2. Value(add) = Ticks(ms)
  BY FieldsWorth
<1>3. c = CarryStep(from, add, c)
  BY CarryIs, Zenon
<1>4. x = [l \in Level |-> IF l = 5 THEN point[5] + add[5] + one(4)
                           ELSE from[l] + add[l] + one(l - 1) - one(l) * Size[l]]
  BY Zenon DEF Later
<1> HIDE DEF add, c, x
<1>5. /\ 0 \in 0..4 /\ 1 \in 0..4 /\ 2 \in 0..4 /\ 3 \in 0..4 /\ 4 \in 0..4
      /\ 1 - 1 = 0 /\ 2 - 1 = 1 /\ 3 - 1 = 2 /\ 4 - 1 = 3
      /\ 1 # 0 /\ 2 # 0 /\ 3 # 0 /\ 4 # 0
      /\ 1 # 5 /\ 2 # 5 /\ 3 # 5 /\ 4 # 5
  OBVIOUS
<1>6. /\ c[0] = FALSE
      /\ c[1] = (from[1] + add[1] + one(0) >= Size[1])
      /\ c[2] = (from[2] + add[2] + one(1) >= Size[2])
      /\ c[3] = (from[3] + add[3] + one(2) >= Size[3])
      /\ c[4] = (from[4] + add[4] + one(3) >= Size[4])
  <2>1. \A l \in 0..4 : c[l] = IF l = 0 THEN FALSE
            ELSE from[l] + add[l] + (IF c[l - 1] THEN 1 ELSE 0) >= Size[l]
    BY <1>3, Zenon DEF CarryStep
  <2> QED
    BY <1>5, <2>1, Zenon
<1>7. /\ x[1] = from[1] + add[1] + one(0) - one(1) * Size[1]
      /\ x[2] = from[2] + add[2] + one(1) - one(2) * Size[2]
      /\ x[3] = from[3] + add[3] + one(2) - one(3) * Size[3]
      /\ x[4] = from[4] + add[4] + one(3) - one(4) * Size[4]
      /\ x[5] = point[5] + add[5] + one(4)
  BY <1>4, <1>5, Levels, Zenon
<1>8. PICK e0 \in 0..1, e1 \in 0..1, e2 \in 0..1, e3 \in 0..1, e4 \in 0..1 :
        e0 = one(0) /\ e1 = one(1) /\ e2 = one(2) /\ e3 = one(3) /\ e4 = one(4)
  <2>1. /\ one(0) \in 0..1 /\ one(1) \in 0..1 /\ one(2) \in 0..1 /\ one(3) \in 0..1
        /\ one(4) \in 0..1
    OBVIOUS
  <2> HIDE DEF one
  <2> QED
    BY <2>1
<1>9. /\ e0 = 0 /\ (e1 = 1 <=> from[1] + add[1] + e0 >= Size[1])
      /\ (e2 = 1 <=> from[2] + add[2] + e1 >= Size[2])
      /\ (e3 = 1 <=> from[3] + add[3] + e2 >= Size[3])
      /\ (e4 = 1 <=> from[4] + add[4] + e3 >= Size[4])
  <2>0. 0 # 1
    OBVIOUS
  <2>1. e0 = 0
    BY <1>6, <1>8, Zenon
  <2>2. e1 = 1 <=> from[1] + add[1] + e0 >= Size[1]
    BY <1>6, <1>8, <2>0, Zenon
  <2>3. e2 = 1 <=> from[2] + add[2] + e1 >= Size[2]
    BY <1>6, <1>8, <2>0, Zenon
  <2>4. e3 = 1 <=> from[3] + add[3] + e2 >= Size[3]
    BY <1>6, <1>8, <2>0, Zenon
  <2>5. e4 = 1 <=> from[4] + add[4] + e3 >= Size[4]
    BY <1>6, <1>8, <2>0, Zenon
  <2> QED
    BY <2>1, <2>2, <2>3, <2>4, <2>5
<1>10. /\ x[1] = from[1] + add[1] + e0 - e1 * Size[1]
      /\ x[2] = from[2] + add[2] + e1 - e2 * Size[2]
      /\ x[3] = from[3] + add[3] + e2 - e3 * Size[3]
      /\ x[4] = from[4] + add[4] + e3 - e4 * Size[4]
      /\ x[5] = point[5] + add[5] + e4
  BY <1>7, <1>8, Zenon
<1>11. /\ from[1] \in 0..Size[1] - 1 /\ from[2] \in 0..Size[2] - 1
       /\ from[3] \in 0..Size[3] - 1 /\ from[4] \in 0..Size[4] - 1
       /\ add[1] \in 0..Size[1] - 1 /\ add[2] \in 0..Size[2] - 1
       /\ add[3] \in 0..Size[3] - 1 /\ add[4] \in 0..Size[4] - 1
       /\ from[5] \in Nat /\ add[5] \in Nat
  <2>1. 1 \in 1..4 /\ 2 \in 1..4 /\ 3 \in 1..4 /\ 4 \in 1..4
    OBVIOUS
  <2>2. ASSUME NEW y \in [Level -> Nat], \A l \in 1..4 : y[l] < Size[l]
        PROVE  /\ y[1] \in 0..Size[1] - 1 /\ y[2] \in 0..Size[2] - 1
               /\ y[3] \in 0..Size[3] - 1 /\ y[4] \in 0..Size[4] - 1 /\ y[5] \in Nat
    BY <2>1, <2>2, WheelNumbers, Levels
  <2> QED
    BY <1>1, <2>2
<1>12. /\ x[1] \in 0..Size[1] - 1 /\ x[2] \in 0..Size[2] - 1
       /\ x[3] \in 0..Size[3] - 1 /\ x[4] \in 0..Size[4] - 1
       /\ x[5] \in Nat /\ x[5] >= point[5]
  <2>1. x[1] \in 0..Size[1] - 1
    <3>1. from[1] + add[1] + e0 - e1 * Size[1] \in 0..Size[1] - 1
      BY <1>9, <1>11, WheelNumbers, ColumnFits, Zenon
    <3> QED
      BY <1>10, <3>1, Zenon
  <2>2. x[2] \in 0..Size[2] - 1
    <3>1. from[2] + add[2] + e1 - e2 * Size[2] \in 0..Size[2] - 1
      BY <1>9, <1>11, WheelNumbers, ColumnFits, Zenon
    <3> QED
      BY <1>10, <3>1, Zenon
  <2>3. x[3] \in 0..Size[3] - 1
    <3>1. from[3] + add[3] + e2 - e3 * Size[3] \in 0..Size[3] - 1
      BY <1>9, <1>11, WheelNumbers, ColumnFits, Zenon
    <3> QED
      BY <1>10, <3>1, Zenon
  <2>4. x[4] \in 0..Size[4] - 1
    <3>1. from[4] + add[4] + e3 - e4 * Size[4] \in 0..Size[4] - 1
      BY <1>9, <1>11, WheelNumbers, ColumnFits, Zenon
    <3> QED
      BY <1>10, <3>1, Zenon
  <2> QED
    BY <1>10, <1>11, <2>1, <2>2, <2>3, <2>4
<1>13. x \in [Level -> Nat] /\ \A l \in 1..4 : x[l] < Size[l]
  <2>1. \A l \in Level : x[l] \in Nat
    BY <1>12, Levels, WheelNumbers
  <2>2. \A l \in 1..4 : l = 1 \/ l = 2 \/ l = 3 \/ l = 4
    OBVIOUS
  <2>3. \A l \in 1..4 : x[l] < Size[l]
    BY <1>12, <2>2, WheelNumbers
  <2>4. x = [l \in Level |-> x[l]]
    BY <1>4, Zenon
  <2> QED
    BY <2>1, <2>3, <2>4
<1>14. ASSUME from[5] = point[5] PROVE Value(x) = Value(from) + Value(add)
  <2>0. /\ Val4(from) \in Int /\ Val3(from) \in Int /\ Val2(from) \in Int
        /\ Val4(add) \in Int /\ Val3(add) \in Int /\ Val2(add) \in Int
        /\ Value(from) \in Int /\ Value(add) \in Int
    BY <1>1, ValuesNat
  <2>1. Val4(x) = Val4(from) + Val4(add) + e3
    <3>1. x[5] = from[5] + add[5] + e4
      BY <1>10, <1>14
    <3> QED
      BY <1>9, <1>10, <1>11, <3>1, WheelNumbers, Column DEF Val4
  <2>2. Val3(x) = Val3(from) + Val3(add) + e2
    BY <1>9, <1>10, <1>11, <2>0, <2>1, WheelNumbers, Column DEF Val3
  <2>3. Val2(x) = Val2(from) + Val2(add) + e1
    BY <1>9, <1>10, <1>11, <2>0, <2>2, WheelNumbers, Column DEF Val2
  <2>4. Value(x) = Value(from) + Value(add) + e0
    BY <1>9, <1>10, <1>11, <2>0, <2>3, WheelNumbers, Column DEF Value
  <2> QED
    BY <1>9, <2>0, <2>4
<1> QED
  BY <1>2, <1>12, <1>13, <1>14 DEF x, add

(* Which of two times is the later one: the one that is ahead in the       *)
(* coarsest field in which they differ.                                    *)
Ahead(x, p, l) ==
    l \in Level /\ x[l] > p[l] /\ \A k \in Level : k > l => x[k] = p[k]

Digitwise(x) == x \in [Level -> Nat] /\ \A l \in 1..4 : x[l] < Size[l]

LEMMA InDigitwise == ASSUME NEW x, InWheels(x) PROVE Digitwise(x)
<1>1. \A l \in 1..4 : l \in Level
  BY Levels
<1> QED
  BY <1>1 DEF InWheels, Digitwise

LEMMA DigitsOf ==
    ASSUME NEW x, Digitwise(x)
    PROVE  /\ x[1] \in 0..Size[1] - 1 /\ x[2] \in 0..Size[2] - 1
           /\ x[3] \in 0..Size[3] - 1 /\ x[4] \in 0..Size[4] - 1 /\ x[5] \in Nat
           /\ x[1] \in Nat /\ x[2] \in Nat /\ x[3] \in Nat /\ x[4] \in Nat
<1>1. 1 \in 1..4 /\ 2 \in 1..4 /\ 3 \in 1..4 /\ 4 \in 1..4
  OBVIOUS
<1> QED
  BY <1>1, WheelNumbers, Levels DEF Digitwise

LEMMA AheadLater ==
    ASSUME NEW x, NEW p, Digitwise(x), Digitwise(p), NEW l, Ahead(x, p, l)
    PROVE  Value(x) > Value(p)
<1>0. /\ Val4(x) \in Int /\ Val3(x) \in Int /\ Val2(x) \in Int /\ Value(x) \in Int
      /\ Val4(p) \in Int /\ Val3(p) \in Int /\ Val2(p) \in Int /\ Value(p) \in Int
  BY ValuesNat DEF Digitwise
<1>d. /\ x[1] \in 0..Size[1] - 1 /\ x[2] \in 0..Size[2] - 1
      /\ x[3] \in 0..Size[3] - 1 /\ x[4] \in 0..Size[4] - 1 /\ x[5] \in Int
      /\ p[1] \in 0..Size[1] - 1 /\ p[2] \in 0..Size[2] - 1
      /\ p[3] \in 0..Size[3] - 1 /\ p[4] \in 0..Size[4] - 1 /\ p[5] \in Int
  BY DigitsOf
<1>a. l \in Level /\ x[l] > p[l] /\ \A k \in Level : k > l => x[k] = p[k]
  BY DEF Ahead
<1>2. Val2(x) > Val2(p) => Value(x) > Value(p)
  BY <1>0, <1>d, Above, WheelNumbers DEF Value
<1>3. Val3(x) > Val3(p) => Val2(x) > Val2(p)
  BY <1>0, <1>d, Above, WheelNumbers DEF Val2
<1>4. Val4(x) > Val4(p) => Val3(x) > Val3(p)
  BY <1>0, <1>d, Above, WheelNumbers DEF Val3
<1>5. x[5] > p[5] => Val4(x) > Val4(p)
  BY <1>d, Above, WheelNumbers DEF Val4
<1>6. CASE l = 5
  BY <1>6, <1>a, <1>2, <1>3, <1>4, <1>5
<1>7. CASE l = 4
  <2>1. x[5] = p[5]
    BY <1>7, <1>a, Levels
  <2>2. Val4(x) > Val4(p)
    BY <1>7, <1>a, <1>d, <2>1, Above, WheelNumbers DEF Val4
  <2> QED
    BY <2>2, <1>2, <1>3, <1>4
<1>8. CASE l = 3
  <2>1. x[5] = p[5] /\ x[4] = p[4]
    BY <1>8, <1>a, Levels
  <2>2. Val4(x) = Val4(p)
    BY <2>1 DEF Val4
  <2>3. Val3(x) > Val3(p)
    BY <1>8, <1>a, <1>d, <1>0, <2>2, Above, WheelNumbers DEF Val3
  <2> QED
    BY <2>3, <1>2, <1>3
<1>9. CASE l = 2
  <2>1. x[5] = p[5] /\ x[4] = p[4] /\ x[3] = p[3]
    BY <1>9, <1>a, Levels
  <2>2. Val3(x) = Val3(p)
    BY <2>1 DEF Val4, Val3
  <2>3. Val2(x) > Val2(p)
    BY <1>9, <1>a, <1>d, <1>0, <2>2, Above, WheelNumbers DEF Val2
  <2> QED
    BY <2>3, <1>2
<1>10. CASE l = 1
  <2>1. x[5] = p[5] /\ x[4] = p[4] /\ x[3] = p[3] /\ x[2] = p[2]
    BY <1>10, <1>a, Levels
  <2>2. Val2(x) = Val2(p)
    BY <2>1 DEF Val4, Val3, Val2
  <2> QED
    BY <1>10, <1>a, <1>d, <1>0, <2>2, Above, WheelNumbers DEF Value
<1> QED
  BY <1>a, <1>6, <1>7, <1>8, <1>9, <1>10, Levels

LEMMA LaterAhead ==
    ASSUME NEW x, NEW p, Digitwise(x), Digitwise(p), Value(x) > Value(p)
    PROVE  \E l \in Level : Ahead(x, p, l)
<1>0. /\ x[1] \in Nat /\ x[2] \in Nat /\ x[3] \in Nat /\ x[4] \in Nat /\ x[5] \in Nat
      /\ p[1] \in Nat /\ p[2] \in Nat /\ p[3] \in Nat /\ p[4] \in Nat /\ p[5] \in Nat
      /\ Value(x) \in Int /\ Value(p) \in Int
  BY DigitsOf, ValuesNat DEF Digitwise
<1>1. ~ \E l \in Level : Ahead(p, x, l)
  BY <1>0, AheadLater
<1>2. x[5] # p[5] => Ahead(x, p, 5) \/ Ahead(p, x, 5)
  BY <1>0, Levels DEF Ahead
<1>3. x[5] = p[5] /\ x[4] # p[4] => Ahead(x, p, 4) \/ Ahead(p, x, 4)
  BY <1>0, Levels DEF Ahead
<1>4. x[5] = p[5] /\ x[4] = p[4] /\ x[3] # p[3] => Ahead(x, p, 3) \/ Ahead(p, x, 3)
  BY <1>0, Levels DEF Ahead
<1>5. x[5] = p[5] /\ x[4] = p[4] /\ x[3] = p[3] /\ x[2] # p[2]
        => Ahead(x, p, 2) \/ Ahead(p, x, 2)
  BY <1>0, Levels DEF Ahead
<1>6. x[5] = p[5] /\ x[4] = p[4] /\ x[3] = p[3] /\ x[2] = p[2] /\ x[1] # p[1]
        => Ahead(x, p, 1) \/ Ahead(p, x, 1)
  BY <1>0, Levels DEF Ahead
<1>7. x[5] = p[5] /\ x[4] = p[4] /\ x[3] = p[3] /\ x[2] = p[2] /\ x[1] = p[1]
        => Value(x) = Value(p)
  BY DEF Value, Val2, Val3, Val4
<1> QED
  BY <1>0, <1>1, <1>2, <1>3, <1>4, <1>5, <1>6, <1>7, Levels

(* The highest of a set of levels. *)
LEMMA HighestIs ==
    ASSUME NEW S \in SUBSET Int, NEW h \in S, \A k \in S : k <= h
    PROVE  Highest(S) = h
<1>1. \A j \in S : (\A k \in S : k <= j) => j = h
  <2> SUFFICES ASSUME NEW j \in S, \A k \in S : k <= j PROVE j = h
    OBVIOUS
  <2>1. h <= j /\ j <= h /\ j \in Int /\ h \in Int
    OBVIOUS
  <2> QED
    BY <2>1
<1> QED
  BY <1>1, Zenon DEF Highest

LEMMA HighestIn ==
    ASSUME NEW S \in SUBSET Level, S # {}
    PROVE  Highest(S) \in S /\ \A k \in S : k <= Highest(S)
<1>1. \E h \in S : \A k \in S : k <= h
  <2>1. CASE 5 \in S
    BY <2>1, Levels
  <2>2. CASE 5 \notin S /\ 4 \in S
    BY <2>2, Levels
  <2>3. CASE 5 \notin S /\ 4 \notin S /\ 3 \in S
    BY <2>3, Levels
  <2>4. CASE 5 \notin S /\ 4 \notin S /\ 3 \notin S /\ 2 \in S
    BY <2>4, Levels
  <2>5. CASE 5 \notin S /\ 4 \notin S /\ 3 \notin S /\ 2 \notin S
    <3>1. \A k \in S : k = 1
      BY <2>5, Levels
    <3> QED
      BY <3>1
  <2> QED
    BY <2>1, <2>2, <2>3, <2>4, <2>5
<1> QED
  BY <1>1 DEF Highest

LEMMA LevelOfIn ==
    ASSUME NEW x
    PROVE  LevelOf(x) \in Level
  BY HighestIn, Levels DEF LevelOf

LEMMA LevelOfAhead ==
    ASSUME NEW x \in [Level -> Nat], point \in [Level -> Nat], NEW l \in Level, Ahead(x, point, l)
    PROVE  LevelOf(x) = l
<1> DEFINE S == {1} \union {k \in Level : x[k] # point[k]}
<1>1. S \in SUBSET Int /\ l \in S
  BY Levels DEF Ahead
<1>2. \A k \in S : k <= l
  BY Levels DEF Ahead
<1> HIDE DEF S
<1>3. Highest(S) = l
  BY <1>1, <1>2, HighestIs
<1> QED
  BY <1>3 DEF LevelOf, S

(* A tick clears the hands below the highest that moves and moves that one *)
(* on by a slot.                                                           *)
MovesOn(p, q, h) ==
    /\ h \in Level /\ q \in [Level -> Nat]
    /\ \A k \in Level : k < h => p[k] = Size[k] - 1 /\ q[k] = 0
    /\ q[h] = p[h] + 1 /\ q[h] < Size[h]
    /\ \A k \in Level : k > h => q[k] = p[k]

LEMMA OneSlotOn ==
    ASSUME NEW s \in Nat \ {0}, NEW p \in Nat, p < s
    PROVE  /\ p = s - 1 => (p + 1) % s = 0
           /\ p # s - 1 => (p + 1) % s = p + 1
<1>1. \A n \in Nat : n < s => n % s = n
  BY SmallRest
<1>2. s % s = 0
  OBVIOUS
<1> QED
  BY <1>1, <1>2

LEMMA TickMoves ==
    ASSUME InWheels(point), Tick
    PROVE  MovesOn(point, point', level') /\ level = 0 /\ msec_count' = msec_count + 1
<1> DEFINE moved == {l \in Level : \A k \in 1..l - 1 : point[k] = Size[k] - 1}
           h == Highest(moved)
<1>1. /\ level = 0 /\ msec_count' = msec_count + 1 /\ level' = h
      /\ point[5] + 1 < Size[5] \/ 5 \notin moved
      /\ point' = [l \in Level |-> IF l \notin moved THEN point[l]
                                   ELSE (point[l] + 1) % Size[l]]
  BY DEF Tick
<1>2. 1 \in moved /\ moved \in SUBSET Level
  BY Levels
<1>3. h \in moved /\ \A k \in moved : k <= h
  BY <1>2, HighestIn
<1>4. \A l \in Level : l \in moved <=> \A k \in 1..l - 1 : point[k] = Size[k] - 1
  OBVIOUS
<1> HIDE DEF moved, h
<1>5. h \in Level
  BY <1>2, <1>3
<1>6. \A k \in Level : k < h => point[k] = Size[k] - 1 /\ k \in moved
  <2> SUFFICES ASSUME NEW k \in Level, k < h PROVE point[k] = Size[k] - 1 /\ k \in moved
    OBVIOUS
  <2>1. \A j \in 1..h - 1 : point[j] = Size[j] - 1
    BY <1>3, <1>4, <1>5
  <2>2. k \in 1..h - 1 /\ \A j \in 1..k - 1 : j \in 1..h - 1
    BY <1>5, Levels
  <2> QED
    BY <1>4, <2>1, <2>2
<1>7. \A k \in Level : k > h => k \notin moved
  BY <1>3, <1>5, Levels
<1>8. h # 5 => point[h] # Size[h] - 1
  <2> SUFFICES ASSUME h # 5, point[h] = Size[h] - 1 PROVE FALSE
    OBVIOUS
  <2>1. h + 1 \in Level /\ h + 1 > h
    BY <1>5, Levels
  <2>2. \A k \in 1..(h + 1) - 1 : k = h \/ k \in 1..h - 1
    BY <1>5, Levels
  <2>3. \A k \in 1..h - 1 : point[k] = Size[k] - 1
    BY <1>3, <1>4, <1>5
  <2>4. h + 1 \in moved
    BY <1>4, <2>1, <2>2, <2>3
  <2> QED
    BY <1>7, <2>1, <2>4
<1>9. \A l \in Level : point[l] \in Nat /\ point[l] < Size[l] /\ Size[l] \in Nat \ {0}
  BY WheelNumbers DEF InWheels
<1>10. \A l \in Level : l \in moved => point'[l] = (point[l] + 1) % Size[l]
  BY <1>1
<1>11. \A l \in Level : l \notin moved => point'[l] = point[l]
  BY <1>1
<1>12. \A k \in Level : k < h => point'[k] = 0
  BY <1>6, <1>9, <1>10, OneSlotOn
<1>13. point[h] # Size[h] - 1
  BY <1>1, <1>3, <1>5, <1>8, <1>9
<1>14. point'[h] = point[h] + 1 /\ point'[h] < Size[h]
  BY <1>3, <1>5, <1>9, <1>10, <1>13, OneSlotOn
<1>15. \A k \in Level : k > h => point'[k] = point[k]
  BY <1>7, <1>11
<1>16. \A k \in Level : point'[k] \in Nat
  <2> SUFFICES ASSUME NEW k \in Level PROVE point'[k] \in Nat
    OBVIOUS
  <2>1. k < h \/ k = h \/ k > h
    BY <1>5, Levels
  <2> QED
    BY <1>5, <1>9, <1>12, <1>14, <1>15, <2>1
<1>17. point' \in [Level -> Nat]
  BY <1>1, <1>16
<1> QED
  BY <1>1, <1>5, <1>6, <1>12, <1>14, <1>15, <1>17, Zenon DEF MovesOn

LEMMA MovedIn ==
    ASSUME NEW p, NEW q, NEW h, InWheels(p), MovesOn(p, q, h)
    PROVE  InWheels(q)
<1> SUFFICES ASSUME NEW k \in Level PROVE q[k] < Size[k]
  BY DEF InWheels, MovesOn
<1>1. k < h \/ k = h \/ k > h
  BY Levels DEF MovesOn
<1> QED
  BY <1>1, WheelNumbers DEF MovesOn, InWheels

(* A tick is worth one. *)
LEMMA TickWorth ==
    ASSUME NEW p, NEW q, NEW h, InWheels(p), MovesOn(p, q, h)
    PROVE  Value(q) = Value(p) + 1
<1>0. /\ Val4(p) \in Int /\ Val3(p) \in Int /\ Val2(p) \in Int /\ Value(p) \in Int
      /\ p[1] \in Int /\ p[2] \in Int /\ p[3] \in Int /\ p[4] \in Int /\ p[5] \in Int
  BY ValuesNat, Levels DEF InWheels
<1>1. ASSUME NEW S \in Nat \ {0}, NEW A \in Int PROVE 0 + S * (A + 1) = (S - 1 + S * A) + 1
  <2>1. S * (A + 1) = S * A + S * 1
    BY Spread
  <2> QED
    BY <2>1
<1>2. ASSUME NEW S \in Nat \ {0}, NEW A \in Int, NEW a \in Int
      PROVE a + 1 + S * A = (a + S * A) + 1
  OBVIOUS
<1>h. h = 1 \/ h = 2 \/ h = 3 \/ h = 4 \/ h = 5
  BY Levels DEF MovesOn
<1>k. /\ \A k \in Level : k < h => p[k] = Size[k] - 1 /\ q[k] = 0
      /\ q[h] = p[h] + 1
      /\ \A k \in Level : k > h => q[k] = p[k]
  BY DEF MovesOn
<1>3. h = 5 => Val4(q) = Val4(p) + 1
  BY <1>0, <1>1, <1>k, Levels, WheelNumbers DEF Val4
<1>4. h = 4 => Val4(q) = Val4(p) + 1
  BY <1>0, <1>2, <1>k, Levels, WheelNumbers DEF Val4
<1>5. h < 4 => Val4(q) = Val4(p)
  BY <1>h, <1>k, Levels DEF Val4
<1>6. h > 3 => Val3(q) = Val3(p) + 1
  BY <1>0, <1>1, <1>3, <1>4, <1>h, <1>k, Levels, WheelNumbers DEF Val3
<1>7. h = 3 => Val3(q) = Val3(p) + 1
  BY <1>0, <1>2, <1>5, <1>k, Levels, WheelNumbers DEF Val3
<1>8. h < 3 => Val3(q) = Val3(p)
  BY <1>5, <1>h, <1>k, Levels DEF Val3
<1>9. h > 2 => Val2(q) = Val2(p) + 1
  BY <1>0, <1>1, <1>6, <1>7, <1>h, <1>k, Levels, WheelNumbers DEF Val2
<1>10. h = 2 => Val2(q) = Val2(p) + 1
  BY <1>0, <1>2, <1>8, <1>k, Levels, WheelNumbers DEF Val2
<1>11. h < 2 => Val2(q) = Val2(p)
  BY <1>8, <1>h, <1>k, Levels DEF Val2
<1>12. h > 1 => Value(q) = Value(p) + 1
  BY <1>0, <1>1, <1>9, <1>10, <1>h, <1>k, Levels, WheelNumbers DEF Value
<1>13. h = 1 => Value(q) = Value(p) + 1
  BY <1>0, <1>2, <1>11, <1>k, Levels, WheelNumbers DEF Value
<1> QED
  BY <1>h, <1>12, <1>13

(* GetTimerTick is the value of the fields, as long as the milliseconds of *)
(* the days are an int.                                                    *)
LEMMA TogetherAgain ==
    ASSUME NEW m \in Int, NEW a \in Int, NEW b \in Int, NEW c \in Int,
           NEW p \in Int, NEW q \in Int, NEW r \in Int, NEW s \in Int
    PROVE  s * (m * a * b * c) + r * m * a * b + q * m * a + p * m
             = m * (p + a * (q + b * (r + c * s)))
<1>1. m * (p + a * (q + b * (r + c * s))) = m * p + m * (a * (q + b * (r + c * s)))
  BY Spread
<1>2. a * (q + b * (r + c * s)) = a * q + a * (b * (r + c * s))
  BY Spread
<1>3. b * (r + c * s) = b * r + b * (c * s)
  BY Spread
<1>4. a * (b * r + b * (c * s)) = a * (b * r) + a * (b * (c * s))
  BY Spread
<1>5. m * (a * q + (a * (b * r) + a * (b * (c * s))))
        = m * (a * q) + (m * (a * (b * r)) + m * (a * (b * (c * s))))
  <2>1. m * (a * q + (a * (b * r) + a * (b * (c * s))))
          = m * (a * q) + m * (a * (b * r) + a * (b * (c * s)))
    BY Spread
  <2>2. m * (a * (b * r) + a * (b * (c * s)))
          = m * (a * (b * r)) + m * (a * (b * (c * s)))
    BY Spread
  <2> QED
    BY <2>1, <2>2
<1>6. m * (a * q) = q * m * a /\ m * p = p * m
  OBVIOUS
<1>7. m * (a * (b * r)) = r * m * a * b
  OBVIOUS
<1>8. m * (a * (b * (c * s))) = s * (m * a * b * c)
  OBVIOUS
<1> QED
  BY <1>1, <1>2, <1>3, <1>4, <1>5, <1>6, <1>7, <1>8

LEMMA TickIsValue ==
    ASSUME NEW x, Digitwise(x), x[5] * DayMs <= MaxInt
    PROVE  GetTimerTick(x) = Value(x)
<1>0. PICK M \in Nat \ {0}, S \in Nat \ {0}, A \in Nat \ {0}, B \in Nat \ {0},
           C \in Nat \ {0} :
        M = Ms /\ S = Size[1] /\ A = Size[2] /\ B = Size[3] /\ C = Size[4]
  BY WheelNumbers
<1>1. PICK d \in Nat : d = DayMs /\ d = M * A * B * C
  BY <1>0, Products DEF DayMs
<1>2. x[1] \in Nat /\ x[2] \in Nat /\ x[3] \in Nat /\ x[4] \in Nat /\ x[5] \in Nat
  BY Levels DEF Digitwise
<1>3. x[5] * d \in Nat /\ x[5] * d <= MaxInt
  BY <1>1, <1>2, Products
<1>4. ASSUME NEW n \in Nat, n <= MaxInt
      PROVE  ((n + MaxInt + 1) % (2 * (MaxInt + 1))) - MaxInt - 1 = n
  <2>1. MaxInt \in Nat
    BY WheelNumbers
  <2>2. n + MaxInt + 1 \in Nat /\ 2 * (MaxInt + 1) \in Nat /\ n + MaxInt + 1 < 2 * (MaxInt + 1)
    BY <1>4, <2>1
  <2>3. (n + MaxInt + 1) % (2 * (MaxInt + 1)) = n + MaxInt + 1
    BY <2>2, SmallRest
  <2> QED
    BY <2>1, <2>3
<1>5. ((x[5] * DayMs + MaxInt + 1) % (2 * (MaxInt + 1))) - MaxInt - 1 = x[5] * d
  BY <1>1, <1>3, <1>4
<1>6. PICK v \in Nat : v = Val2(x)
  BY ValuesNat DEF Digitwise
<1>7. x[5] * d + x[4] * M * A * B + x[3] * M * A + x[2] * M = M * v
  <2>1. v = x[2] + A * (x[3] + B * (x[4] + C * x[5]))
    BY <1>0, <1>6, Zenon DEF Val2, Val3, Val4
  <2>2. x[5] * (M * A * B * C) + x[4] * M * A * B + x[3] * M * A + x[2] * M
          = M * (x[2] + A * (x[3] + B * (x[4] + C * x[5])))
    BY <1>2, TogetherAgain
  <2> QED
    BY <1>1, <2>1, <2>2, Zenon
<1>8. GetTimerTick(x) = ((M * v) * S) \div M + x[1]
  <2>1. GetTimerTick(x) =
          ((x[5] * d + x[4] * M * A * B + x[3] * M * A + x[2] * M) * S) \div M + x[1]
    BY <1>0, <1>5, Zenon DEF GetTimerTick
  <2> QED
    BY <1>7, <2>1, Zenon
<1>9. ((M * v) * S) \div M = S * v
  <2>1. (M * v) * S = (S * v) * M
    OBVIOUS
  <2>2. S * v \in Int
    OBVIOUS
  <2>3. ((S * v) * M) \div M = S * v
    BY <2>2, Quotient
  <2> QED
    BY <2>1, <2>3, Zenon
<1>10. Value(x) = x[1] + S * v
  BY <1>0, <1>6, Zenon DEF Value
<1>11. S * v \in Int
  OBVIOUS
<1> QED
  BY <1>2, <1>8, <1>9, <1>10, <1>11

(* A longer delay has at least as many ticks. *)
LEMMA TicksGrow ==
    ASSUME NEW a \in Nat, NEW b \in Nat, a <= b
    PROVE  Ticks(a) <= Ticks(b)
<1>0. PICK M \in Nat \ {0}, S \in Nat \ {0} : M = Ms /\ S = Size[1]
  BY WheelNumbers
<1>1. a * S \in Nat /\ b * S \in Nat /\ (b - a) * S \in Nat
  BY Products
<1>2. (b - a) * S = b * S - a * S
  OBVIOUS
<1>3. a * S <= b * S
  BY <1>1, <1>2
<1>4. PICK p \in Nat, o \in 0..M - 1 :
        Consists(a * S, M, p, o) /\ p = (a * S) \div M /\ o = (a * S) % M
        /\ a * S = M * p + o
  BY <1>1, NatParts
<1>5. PICK q \in Nat, u \in 0..M - 1 :
        Consists(b * S, M, q, u) /\ q = (b * S) \div M /\ u = (b * S) % M
        /\ b * S = M * q + u
  BY <1>1, NatParts
<1>6. Ticks(a) = p /\ Ticks(b) = q
  BY <1>0, <1>4, <1>5, Zenon DEF Ticks
<1>7. p <= q
  <2> SUFFICES ASSUME p > q PROVE FALSE
    OBVIOUS
  <2>1. M * p + o > M * q + u
    <3>1. o + M * p > u + M * q
      BY Above
    <3>2. M * p \in Int /\ M * q \in Int
      OBVIOUS
    <3> QED
      BY <3>1, <3>2
  <2> QED
    BY <1>1, <1>3, <1>4, <1>5, <2>1
<1> QED
  BY <1>6, <1>7

(* The wheels.  t is entry n of slot i of wheel l. *)
Wheels == {w \in [Level -> UNION {[0..Size[l] - 1 -> Seq(Timer)] : l \in Level}] :
             \A l \in Level : w[l] \in [0..Size[l] - 1 -> Seq(Timer)]}

Entry(w, l, i, n, t) ==
    l \in Level /\ i \in 0..Size[l] - 1 /\ n \in 1..Len(w[l][i]) /\ w[l][i][n] = t

Nowhere(w, t) == \A l, i, n : ~Entry(w, l, i, n, t)

Once(w, t) ==
    \E l, i, n : /\ Entry(w, l, i, n, t)
                 /\ \A k, j, m : Entry(w, k, j, m, t) => k = l /\ j = i /\ m = n

LEMMA OnceHere ==
    ASSUME NEW w, NEW t, NEW l, NEW i, NEW n, Entry(w, l, i, n, t),
           \A k, j, m : Entry(w, k, j, m, t) => k = l /\ j = i /\ m = n
    PROVE  Once(w, t)
  BY DEF Once

LEMMA WheelsIn ==
    ASSUME NEW w, w = [l \in Level |-> w[l]],
           \A l \in Level : w[l] \in [0..Size[l] - 1 -> Seq(Timer)]
    PROVE  w \in Wheels
  BY DEF Wheels

LEMMA SlotIn ==
    ASSUME NEW w \in Wheels, NEW l \in Level, NEW i \in 0..Size[l] - 1
    PROVE  w[l][i] \in Seq(Timer) /\ w[l] \in [0..Size[l] - 1 -> Seq(Timer)]
  BY DEF Wheels

(* One slot of one wheel is given other entries. *)
Given(w, l, i, s) == [w EXCEPT ![l][i] = s]

Without(w, l, i) == [w EXCEPT ![l][i] = Tail(@)]

LEMMA GivenSlots ==
    ASSUME NEW w \in Wheels, NEW l \in Level, NEW i \in 0..Size[l] - 1,
           NEW s \in Seq(Timer)
    PROVE  /\ Given(w, l, i, s) \in Wheels
           /\ Given(w, l, i, s)[l][i] = s
           /\ \A k \in Level : \A j \in 0..Size[k] - 1 :
                k # l \/ j # i => Given(w, l, i, s)[k][j] = w[k][j]
<1> DEFINE v == Given(w, l, i, s)
<1>1. w = [k \in Level |-> w[k]]
  BY DEF Wheels
<1>2. w[l] \in [0..Size[l] - 1 -> Seq(Timer)]
  BY SlotIn
<1>3. v = [k \in Level |-> IF k = l THEN [w[l] EXCEPT ![i] = s] ELSE w[k]]
  BY <1>1 DEF Given
<1>4. v[l] = [w[l] EXCEPT ![i] = s]
  BY <1>3
<1>5. \A k \in Level : k # l => v[k] = w[k]
  BY <1>3
<1>6. v = [k \in Level |-> v[k]]
  BY <1>3
<1> HIDE DEF v
<1>7. v[l] \in [0..Size[l] - 1 -> Seq(Timer)] /\ v[l][i] = s
      /\ \A j \in 0..Size[l] - 1 : j # i => v[l][j] = w[l][j]
  BY <1>2, <1>4
<1>8. \A k \in Level : v[k] \in [0..Size[k] - 1 -> Seq(Timer)]
  BY <1>5, <1>7 DEF Wheels
<1>9. v \in Wheels
  BY <1>6, <1>8, WheelsIn
<1>10. \A k \in Level : \A j \in 0..Size[k] - 1 : k # l \/ j # i => v[k][j] = w[k][j]
  BY <1>5, <1>7
<1> QED
  BY <1>7, <1>9, <1>10 DEF v

LEMMA OneSlotNew ==
    ASSUME NEW w \in Wheels, NEW l \in Level, NEW i \in 0..Size[l] - 1,
           NEW s \in Seq(Timer)
    PROVE  Given(w, l, i, s) \in Wheels /\ Given(w, l, i, s)[l][i] = s
  BY GivenSlots

LEMMA OtherSlots ==
    ASSUME NEW w \in Wheels, NEW l \in Level, NEW i \in 0..Size[l] - 1,
           NEW s \in Seq(Timer), NEW k \in Level, NEW j \in 0..Size[k] - 1
    PROVE  k # l \/ j # i => Given(w, l, i, s)[k][j] = w[k][j]
  BY GivenSlots

LEMMA Appended ==
    ASSUME NEW s \in Seq(Timer), NEW t \in Timer
    PROVE  /\ Append(s, t) \in Seq(Timer) /\ Len(s) \in Nat
           /\ Len(Append(s, t)) = Len(s) + 1
           /\ Append(s, t)[Len(s) + 1] = t
           /\ \A n \in 1..Len(s) : Append(s, t)[n] = s[n]
  OBVIOUS

LEMMA Pushed ==
    ASSUME NEW w \in Wheels, NEW l \in Level, NEW i \in 0..Size[l] - 1, NEW t \in Timer
    PROVE  /\ Push(w, l, i, t) \in Wheels
           /\ \A k, j, m, u : Entry(Push(w, l, i, t), k, j, m, u) <=>
                \/ Entry(w, k, j, m, u)
                \/ k = l /\ j = i /\ m = Len(w[l][i]) + 1 /\ u = t
<1> DEFINE s == w[l][i]
           v == Push(w, l, i, t)
<1>1. s \in Seq(Timer)
  BY SlotIn
<1> HIDE DEF s
<1>2. /\ Append(s, t) \in Seq(Timer) /\ Len(s) \in Nat
      /\ Len(Append(s, t)) = Len(s) + 1
      /\ Append(s, t)[Len(s) + 1] = t
      /\ \A n \in 1..Len(s) : Append(s, t)[n] = s[n]
  BY <1>1, Appended
<1>4. v = Given(w, l, i, Append(s, t))
  BY Zenon DEF Push, Given, s
<1> HIDE DEF v
<1>3. /\ v \in Wheels /\ v[l][i] = Append(s, t)
      /\ \A k \in Level : \A j \in 0..Size[k] - 1 : k # l \/ j # i => v[k][j] = w[k][j]
  <2>1. Append(s, t) \in Seq(Timer)
    BY <1>2
  <2>2. Given(w, l, i, Append(s, t)) \in Wheels /\ Given(w, l, i, Append(s, t))[l][i] = Append(s, t)
    BY <2>1, OneSlotNew
  <2>3. \A k \in Level : \A j \in 0..Size[k] - 1 :
          k # l \/ j # i => Given(w, l, i, Append(s, t))[k][j] = w[k][j]
    <3> TAKE k \in Level
    <3> TAKE j \in 0..Size[k] - 1
    <3> QED
      BY <2>1, OtherSlots, Zenon
  <2> QED
    BY <1>4, <2>2, <2>3
<1>5. ASSUME NEW k, NEW j, NEW m, NEW u
      PROVE  Entry(v, k, j, m, u) <=>
                \/ Entry(w, k, j, m, u)
                \/ k = l /\ j = i /\ m = Len(s) + 1 /\ u = t
  <2>1. CASE k = l /\ j = i
    <3>1. \A n : n \in 1..Len(s) + 1 <=> n \in 1..Len(s) \/ n = Len(s) + 1
      BY <1>2
    <3>2. Entry(v, k, j, m, u) <=> m \in 1..Len(s) + 1 /\ Append(s, t)[m] = u
      BY <1>2, <1>3, <2>1 DEF Entry
    <3>3. Entry(w, k, j, m, u) <=> m \in 1..Len(s) /\ s[m] = u
      BY <2>1 DEF Entry, s
    <3> QED
      BY <1>2, <2>1, <3>1, <3>2, <3>3
  <2>2. CASE ~(k = l /\ j = i)
    BY <1>3, <2>2 DEF Entry
  <2> QED
    BY <2>1, <2>2
<1> QED
  BY <1>3, <1>5 DEF s, v

LEMMA PushedOnce ==
    ASSUME NEW w \in Wheels, NEW l \in Level, NEW i \in 0..Size[l] - 1, NEW t \in Timer
    PROVE  LET v == Push(w, l, i, t)
           IN  /\ v \in Wheels
               /\ Nowhere(w, t) => Once(v, t)
               /\ Nowhere(w, t) => \A k, j, m : Entry(v, k, j, m, t) => k = l /\ j = i
               /\ \A u : u # t => /\ Once(w, u) => Once(v, u)
                                  /\ Nowhere(w, u) => Nowhere(v, u)
                                  /\ \A k, j, m : Entry(v, k, j, m, u) => Entry(w, k, j, m, u)
<1> DEFINE v == Push(w, l, i, t)
           c == Len(w[l][i]) + 1
<1>1. /\ v \in Wheels
      /\ \A k, j, m, u : Entry(v, k, j, m, u) <=>
                \/ Entry(w, k, j, m, u)
                \/ k = l /\ j = i /\ m = c /\ u = t
  BY Pushed
<1> HIDE DEF v, c
<1>2. Nowhere(w, t) => Once(v, t) /\ \A k, j, m : Entry(v, k, j, m, t) => k = l /\ j = i
  <2> SUFFICES ASSUME Nowhere(w, t)
               PROVE  Once(v, t) /\ \A k, j, m : Entry(v, k, j, m, t) => k = l /\ j = i
    OBVIOUS
  <2>1. ASSUME NEW k, NEW j, NEW m, Entry(v, k, j, m, t) PROVE k = l /\ j = i /\ m = c
    BY <1>1, <2>1 DEF Nowhere
  <2>2. Entry(v, l, i, c, t)
    BY <1>1
  <2> QED
    BY <2>1, <2>2 DEF Once
<1>3. ASSUME NEW u, u # t PROVE \A k, j, m : Entry(v, k, j, m, u) <=> Entry(w, k, j, m, u)
  BY <1>1, <1>3
<1>4. ASSUME NEW u, u # t PROVE /\ Once(w, u) => Once(v, u)
                                /\ Nowhere(w, u) => Nowhere(v, u)
                                /\ \A k, j, m : Entry(v, k, j, m, u) => Entry(w, k, j, m, u)
  BY <1>3, <1>4 DEF Once, Nowhere
<1> QED
  BY <1>1, <1>2, <1>4, Zenon DEF v

(* The first entry of a slot is taken out. *)
LEMMA Behead ==
    ASSUME NEW s \in Seq(Timer), s # <<>>
    PROVE  /\ Tail(s) \in Seq(Timer) /\ Len(s) \in Nat /\ Len(s) >= 1
           /\ Len(Tail(s)) = Len(s) - 1
           /\ Head(s) = s[1] /\ Head(s) \in Timer
           /\ \A n \in 1..Len(s) - 1 : Tail(s)[n] = s[n + 1]
  OBVIOUS

LEMMA Taken ==
    ASSUME NEW w \in Wheels, NEW l \in Level, NEW i \in 0..Size[l] - 1,
           w[l][i] # <<>>, NEW v, v = Without(w, l, i)
    PROVE  /\ v \in Wheels
           /\ \A k, j, m, u : Entry(v, k, j, m, u) <=>
                \/ Entry(w, k, j, m, u) /\ ~(k = l /\ j = i)
                \/ k = l /\ j = i /\ m \in Nat \ {0} /\ Entry(w, k, j, m + 1, u)
<1> DEFINE s == w[l][i]
<1>1. s \in Seq(Timer) /\ s # <<>>
  BY SlotIn
<1>4. v = Given(w, l, i, Tail(s))
  BY Zenon DEF Without, Given
<1> HIDE DEF s
<1>2. /\ Tail(s) \in Seq(Timer) /\ Len(s) \in Nat /\ Len(s) >= 1
      /\ Len(Tail(s)) = Len(s) - 1
      /\ \A n \in 1..Len(s) - 1 : Tail(s)[n] = s[n + 1]
  BY <1>1, Behead
<1>3. /\ v \in Wheels /\ v[l][i] = Tail(s)
      /\ \A k \in Level : \A j \in 0..Size[k] - 1 : k # l \/ j # i => v[k][j] = w[k][j]
  <2>1. Tail(s) \in Seq(Timer)
    BY <1>2
  <2>2. Given(w, l, i, Tail(s)) \in Wheels /\ Given(w, l, i, Tail(s))[l][i] = Tail(s)
    BY <2>1, OneSlotNew
  <2>3. \A k \in Level : \A j \in 0..Size[k] - 1 :
          k # l \/ j # i => Given(w, l, i, Tail(s))[k][j] = w[k][j]
    <3> TAKE k \in Level
    <3> TAKE j \in 0..Size[k] - 1
    <3> QED
      BY <2>1, OtherSlots, Zenon
  <2> QED
    BY <1>4, <2>2, <2>3
<1>5. ASSUME NEW k, NEW j, NEW m, NEW u
      PROVE  Entry(v, k, j, m, u) <=>
                \/ Entry(w, k, j, m, u) /\ ~(k = l /\ j = i)
                \/ k = l /\ j = i /\ m \in Nat \ {0} /\ Entry(w, k, j, m + 1, u)
  <2>1. CASE k = l /\ j = i
    <3>1. \A n : n \in 1..Len(s) - 1 <=> n \in Nat \ {0} /\ n + 1 \in 1..Len(s)
      BY <1>2
    <3>2. Entry(v, k, j, m, u) <=> m \in 1..Len(s) - 1 /\ Tail(s)[m] = u
      BY <1>2, <1>3, <2>1 DEF Entry
    <3>3. Entry(w, k, j, m + 1, u) <=> m + 1 \in 1..Len(s) /\ s[m + 1] = u
      BY <2>1 DEF Entry, s
    <3> QED
      BY <1>2, <2>1, <3>1, <3>2, <3>3
  <2>2. CASE ~(k = l /\ j = i)
    BY <1>3, <2>2 DEF Entry
  <2> QED
    BY <2>1, <2>2
<1> QED
  BY <1>3, <1>5

LEMMA TakenOnce ==
    ASSUME NEW w \in Wheels, NEW l \in Level, NEW i \in 0..Size[l] - 1,
           w[l][i] # <<>>, NEW v, v = Without(w, l, i)
    PROVE  /\ v \in Wheels /\ Head(w[l][i]) \in Timer
           /\ Entry(w, l, i, 1, Head(w[l][i]))
           /\ Once(w, Head(w[l][i])) => Nowhere(v, Head(w[l][i]))
           /\ \A u : u # Head(w[l][i]) =>
                /\ Once(w, u) => Once(v, u)
                /\ Nowhere(w, u) => Nowhere(v, u)
                /\ \A k, j, m : Entry(v, k, j, m, u) => \E n : Entry(w, k, j, n, u)
<1> DEFINE s == w[l][i]
           t == Head(s)
<1>1. s \in Seq(Timer) /\ s # <<>>
  BY SlotIn
<1>2. t = s[1] /\ Len(s) \in Nat /\ Len(s) >= 1 /\ t \in Timer
  BY <1>1, Behead
<1>3. /\ v \in Wheels
      /\ \A k, j, m, u : Entry(v, k, j, m, u) <=>
                \/ Entry(w, k, j, m, u) /\ ~(k = l /\ j = i)
                \/ k = l /\ j = i /\ m \in Nat \ {0} /\ Entry(w, k, j, m + 1, u)
  BY Taken
<1>4. Entry(w, l, i, 1, t)
  BY <1>2 DEF Entry
<1> HIDE DEF t, s
<1>5. ASSUME Once(w, t) PROVE Nowhere(v, t)
  <2>1. \A k, j, m : Entry(w, k, j, m, t) => k = l /\ j = i /\ m = 1
    BY <1>4, <1>5 DEF Once
  <2>2. ASSUME NEW k, NEW j, NEW m, Entry(v, k, j, m, t) PROVE FALSE
    <3>1. k = l /\ j = i /\ m \in Nat \ {0} /\ Entry(w, k, j, m + 1, t)
      BY <1>3, <2>1, <2>2
    <3>2. m + 1 = 1
      BY <2>1, <3>1
    <3> QED
      BY <3>1, <3>2
  <2> QED
    BY <2>2 DEF Nowhere
<1>6. ASSUME NEW u, u # t
      PROVE  /\ Once(w, u) => Once(v, u)
             /\ Nowhere(w, u) => Nowhere(v, u)
             /\ \A k, j, m : Entry(v, k, j, m, u) => \E n : Entry(w, k, j, n, u)
  <2>1. \A k, j, m : Entry(v, k, j, m, u) => \E n : Entry(w, k, j, n, u)
    BY <1>3
  <2>2. Nowhere(w, u) => Nowhere(v, u)
    BY <2>1 DEF Nowhere
  <2>3. ASSUME Once(w, u) PROVE Once(v, u)
    <3>1. PICK a, b, c : /\ Entry(w, a, b, c, u)
                         /\ \A k, j, m : Entry(w, k, j, m, u) => k = a /\ j = b /\ m = c
      BY <2>3 DEF Once
    <3>2. CASE a = l /\ b = i
      <4>1. c # 1 /\ c \in Nat \ {0}
        BY <1>2, <1>6, <3>1, <3>2 DEF Entry, s
      <4>2. c - 1 \in Nat \ {0} /\ (c - 1) + 1 = c
        BY <4>1
      <4>3. Entry(v, a, b, c - 1, u)
        BY <1>3, <3>1, <3>2, <4>2
      <4>4. ASSUME NEW k, NEW j, NEW m, Entry(v, k, j, m, u)
            PROVE  k = a /\ j = b /\ m = c - 1
        <5>1. k = l /\ j = i /\ m \in Nat \ {0} /\ Entry(w, k, j, m + 1, u)
          BY <1>3, <3>1, <3>2, <4>4
        <5>2. k = a /\ j = b /\ m + 1 = c
          BY <3>1, <5>1
        <5> QED
          BY <4>1, <5>1, <5>2
      <4> QED
        BY <4>3, <4>4, OnceHere
    <3>3. CASE ~(a = l /\ b = i)
      <4>1. Entry(v, a, b, c, u)
        BY <1>3, <3>1, <3>3
      <4>2. ASSUME NEW k, NEW j, NEW m, Entry(v, k, j, m, u)
            PROVE  k = a /\ j = b /\ m = c
        <5>1. ~(k = l /\ j = i) => Entry(w, k, j, m, u)
          BY <1>3, <4>2
        <5>2. k = l /\ j = i => \E n : Entry(w, k, j, n, u)
          BY <2>1, <4>2
        <5> QED
          BY <3>1, <3>3, <5>1, <5>2
      <4> QED
        BY <4>1, <4>2, OnceHere
    <3> QED
      BY <3>2, <3>3
  <2> QED
    BY <2>1, <2>2, <2>3
<1> QED
  BY <1>2, <1>3, <1>4, <1>5, <1>6 DEF t, s

(* The wheels are sound: every field but the day is a slot, and a timer is *)
(* in a slot, once, exactly while it is set and not being called.          *)
WheelTypes ==
    /\ InWheels(point) /\ msec_count \in Nat /\ wheel \in Wheels
    /\ at \in [Timer -> [Level -> Nat]] /\ \A t \in Timer : Digitwise(at[t])
    /\ interval \in [Timer -> Nat] /\ count \in [Timer -> Int]
    /\ bRelease \subseteq Timer
    /\ status \in [Timer -> {"new", "set", "deleted"}]
    /\ level \in 0..5 /\ cur \in Timer \union {NoTimer}
    /\ due \in [Timer -> Nat] /\ short \subseteq Timer
    /\ cur # NoTimer => status[cur] = "set"

Placed(w, t, st, c) ==
    IF st = "set" /\ t # c THEN Once(w, t) ELSE Nowhere(w, t)

WheelKept == WheelTypes /\ \A t \in Timer : Placed(wheel, t, status[t], cur)

LEMMA WheelStart == ASSUME Init PROVE WheelKept
<1>0. Zero \in [Level -> Nat] /\ \A l \in Level : Zero[l] = 0
  BY DEF Zero
<1>1. InWheels(Zero)
  BY <1>0, WheelNumbers DEF InWheels
<1>i. Digitwise(Zero)
  BY <1>1, InDigitwise
<1>2. wheel = [l \in Level |-> [i \in 0..Size[l] - 1 |-> <<>>]]
  BY DEF Init
<1>3. wheel \in Wheels
  <2>1. \A l \in Level : wheel[l] \in [0..Size[l] - 1 -> Seq(Timer)]
    BY <1>2
  <2>2. wheel = [l \in Level |-> wheel[l]]
    BY <1>2
  <2> QED
    BY <2>1, <2>2, WheelsIn
<1>4. \A t : Nowhere(wheel, t)
  <2> SUFFICES ASSUME NEW t, NEW l, NEW i, NEW n, Entry(wheel, l, i, n, t) PROVE FALSE
    BY DEF Nowhere
  <2>1. wheel[l][i] = <<>> /\ n \in 1..Len(wheel[l][i])
    BY <1>2 DEF Entry
  <2> QED
    BY <2>1
<1>5. WheelTypes
  BY <1>0, <1>1, <1>i, <1>3 DEF Init, WheelTypes
<1> QED
  BY <1>4, <1>5 DEF WheelKept, Placed, Init

(* A time of the model: in range once its day is. *)
LEMMA LaterIn ==
    ASSUME InWheels(point), NEW from, Digitwise(from), NEW ms \in Nat,
           NEW x, x = Later(from, ms)
    PROVE  /\ Digitwise(x) /\ LevelOf(x) \in Level
           /\ x[5] < Size[5] => x[LevelOf(x)] \in 0..Size[LevelOf(x)] - 1
           /\ from[5] = point[5] => Value(x) = Value(from) + Ticks(ms)
<1>0. point[5] \in Nat /\ from \in [Level -> Nat] /\ \A l \in 1..4 : from[l] < Size[l]
  BY Levels DEF InWheels, Digitwise
<1>1. /\ x \in [Level -> Nat] /\ \A l \in 1..4 : x[l] < Size[l]
      /\ from[5] = point[5] => Value(x) = Value(from) + Ticks(ms)
  BY <1>0, LaterWorth
<1>2. \A l \in Level : l = 5 \/ l \in 1..4
  BY Levels
<1>4. LevelOf(x) \in Level
  BY LevelOfIn
<1>5. ASSUME x[5] < Size[5] PROVE x[LevelOf(x)] \in 0..Size[LevelOf(x)] - 1
  <2>1. x[LevelOf(x)] \in Nat /\ x[LevelOf(x)] < Size[LevelOf(x)]
    BY <1>1, <1>2, <1>4, <1>5
  <2> QED
    BY <1>4, <2>1, WheelNumbers
<1>6. Digitwise(x)
  BY <1>1 DEF Digitwise
<1> QED
  BY <1>1, <1>4, <1>5, <1>6

LEMMA CreatedSound ==
    ASSUME WheelKept, NEW t \in Timer, NEW diff \in Nat, NEW intv \in Nat, NEW n \in Int,
           CreateTimer(t, diff, intv, n)
    PROVE  WheelKept'
<1> DEFINE x == Later(point, diff)
           l == LevelOf(x)
<1>1. /\ status[t] = "new" /\ x[5] < Size[5]
      /\ at' = [at EXCEPT ![t] = x]
      /\ wheel' = Push(wheel, l, x[l], t)
      /\ interval' = [interval EXCEPT ![t] = intv]
      /\ count' = [count EXCEPT ![t] = n]
      /\ status' = [status EXCEPT ![t] = "set"]
      /\ due' = [due EXCEPT ![t] = msec_count + Ticks(diff)]
      /\ short' = IF Ticks(diff) = 0 THEN short \union {t} ELSE short
      /\ UNCHANGED <<point, msec_count, bRelease, level, cur>>
  BY DEF CreateTimer
<1>2. WheelTypes /\ \A u \in Timer : Placed(wheel, u, status[u], cur)
  BY DEF WheelKept
<1>3. Digitwise(x) /\ l \in Level /\ x[l] \in 0..Size[l] - 1
  BY <1>1, <1>2, LaterIn, InDigitwise DEF WheelTypes
<1> HIDE DEF x, l
<1>4. /\ wheel' \in Wheels /\ (Nowhere(wheel, t) => Once(wheel', t))
      /\ \A u : u # t => /\ Once(wheel, u) => Once(wheel', u)
                         /\ Nowhere(wheel, u) => Nowhere(wheel', u)
  BY <1>1, <1>2, <1>3, PushedOnce DEF WheelTypes
<1>5. t # cur
  BY <1>1, <1>2, WheelNumbers DEF WheelTypes
<1>6. WheelTypes'
  <2>1. at' \in [Timer -> [Level -> Nat]] /\ \A u \in Timer : Digitwise(at'[u])
    BY <1>1, <1>2, <1>3 DEF WheelTypes, Digitwise
  <2>2. InWheels(point)' /\ (\A u \in Timer : Digitwise(at[u]))'
    BY <1>1, <1>2, <2>1 DEF WheelTypes, InWheels, Digitwise
  <2>3. Ticks(diff) \in Nat
    BY FieldsWorth
  <2>4. /\ interval' \in [Timer -> Nat] /\ count' \in [Timer -> Int]
        /\ status' \in [Timer -> {"new", "set", "deleted"}]
        /\ due' \in [Timer -> Nat] /\ short' \subseteq Timer
        /\ bRelease' \subseteq Timer /\ level' \in 0..5 /\ cur' \in Timer \union {NoTimer}
        /\ msec_count' \in Nat
    BY <1>1, <1>2, <2>3 DEF WheelTypes
  <2>5. cur' # NoTimer => status'[cur'] = "set"
    BY <1>1, <1>2 DEF WheelTypes
  <2> QED
    BY <1>4, <2>1, <2>2, <2>4, <2>5 DEF WheelTypes
<1>7. ASSUME NEW u \in Timer PROVE Placed(wheel', u, status'[u], cur')
  <2>1. CASE u = t
    BY <1>1, <1>2, <1>4, <1>5, <2>1 DEF Placed, WheelTypes
  <2>2. CASE u # t
    BY <1>1, <1>2, <1>4, <2>2 DEF Placed, WheelTypes
  <2> QED
    BY <2>1, <2>2
<1> QED
  BY <1>6, <1>7 DEF WheelKept

(* The timer at the head of the slot that Update() is emptying. *)
LEMMA SlotHead ==
    ASSUME WheelKept, level # 0, Slot # <<>>
    PROVE  /\ Head(Slot) \in Timer /\ status[Head(Slot)] = "set" /\ Head(Slot) # cur
           /\ level \in Level /\ point[level] \in 0..Size[level] - 1
           /\ Rest \in Wheels /\ Nowhere(Rest, Head(Slot))
           /\ Entry(wheel, level, point[level], 1, Head(Slot))
           /\ \A u : u # Head(Slot) =>
                /\ Once(wheel, u) => Once(Rest, u)
                /\ Nowhere(wheel, u) => Nowhere(Rest, u)
                /\ \A k, j, m : Entry(Rest, k, j, m, u) => \E n : Entry(wheel, k, j, n, u)
<1>1. level \in Level
  BY Levels DEF WheelKept, WheelTypes
<1>2. point[level] \in 0..Size[level] - 1
  BY <1>1, WheelNumbers DEF WheelKept, WheelTypes, InWheels
<1>3. Rest = Without(wheel, level, point[level]) /\ Slot = wheel[level][point[level]]
  BY Zenon DEF Rest, Without, Slot
<1>4. wheel \in Wheels /\ wheel[level][point[level]] # <<>>
  BY <1>3 DEF WheelKept, WheelTypes
<1> DEFINE t == Head(Slot)
<1>5. /\ Rest \in Wheels /\ t \in Timer /\ Entry(wheel, level, point[level], 1, t)
      /\ Once(wheel, t) => Nowhere(Rest, t)
      /\ \A u : u # t =>
                /\ Once(wheel, u) => Once(Rest, u)
                /\ Nowhere(wheel, u) => Nowhere(Rest, u)
                /\ \A k, j, m : Entry(Rest, k, j, m, u) => \E n : Entry(wheel, k, j, n, u)
  BY <1>1, <1>2, <1>3, <1>4, TakenOnce
<1> HIDE DEF t
<1>6. ~Nowhere(wheel, t)
  BY <1>5 DEF Nowhere
<1>7. Once(wheel, t) /\ status[t] = "set" /\ t # cur
  BY <1>5, <1>6 DEF WheelKept, Placed
<1> QED
  BY <1>1, <1>2, <1>5, <1>7 DEF t

LEMMA RemovedSound ==
    ASSUME WheelKept, NEW t \in Timer, RemoveTimer(t)
    PROVE  WheelKept'
  BY DEF WheelKept, WheelTypes, InWheels, Digitwise, RemoveTimer

LEMMA TickSound == ASSUME WheelKept, Tick PROVE WheelKept'
<1>1. UNCHANGED <<wheel, timerVars, cur>>
  BY DEF Tick
<1>2. MovesOn(point, point', level') /\ level = 0 /\ msec_count' = msec_count + 1
  BY TickMoves DEF WheelKept, WheelTypes
<1>3. InWheels(point')
  BY <1>2, MovedIn DEF WheelKept, WheelTypes
<1>4. level' \in 0..5 /\ msec_count' \in Nat
  BY <1>2, Levels DEF MovesOn, WheelKept, WheelTypes
<1> QED
  BY <1>1, <1>3, <1>4 DEF WheelKept, WheelTypes, InWheels, Digitwise, timerVars

LEMMA SlotDoneSound == ASSUME WheelKept, SlotDone PROVE WheelKept'
<1>1. UNCHANGED <<point, msec_count, wheel, timerVars, cur>> /\ level # 0 /\ level' = level - 1
  BY DEF SlotDone
<1>2. level' \in 0..5
  BY <1>1 DEF WheelKept, WheelTypes
<1> QED
  BY <1>1, <1>2 DEF WheelKept, WheelTypes, InWheels, Digitwise, timerVars

(* The finer wheel a timer is handed down to. *)
LEMMA FinerIn ==
    ASSUME WheelKept, level # 0, NEW t \in Timer, Finer(t) # {}
    PROVE  /\ Highest(Finer(t)) \in Level /\ Highest(Finer(t)) < level
           /\ at[t][Highest(Finer(t))] # 0
           /\ at[t][Highest(Finer(t))] \in 0..Size[Highest(Finer(t))] - 1
           /\ \A k \in Level : k > Highest(Finer(t)) /\ k < level => at[t][k] = 0
<1> DEFINE h == Highest(Finer(t))
<1>1. level \in 0..5
  BY DEF WheelKept, WheelTypes
<1>2. Finer(t) \in SUBSET Level
  BY <1>1, Levels DEF Finer
<1>3. h \in Finer(t) /\ \A k \in Finer(t) : k <= h
  BY <1>2, HighestIn
<1> HIDE DEF h
<1>4. h \in Level /\ h < level /\ at[t][h] # 0
  BY <1>1, <1>3, Levels DEF Finer
<1>5. at[t][h] \in 0..Size[h] - 1
  <2>1. h \in 1..4 /\ Digitwise(at[t])
    BY <1>1, <1>4, Levels DEF WheelKept, WheelTypes
  <2>2. at[t][h] \in Nat /\ at[t][h] < Size[h]
    BY <1>4, <2>1 DEF Digitwise
  <2> QED
    BY <1>4, <2>2, WheelNumbers
<1>6. \A k \in Level : k > h /\ k < level => at[t][k] = 0
  <2> SUFFICES ASSUME NEW k \in Level, k > h, k < level, at[t][k] # 0 PROVE FALSE
    OBVIOUS
  <2>1. k \in 1..level - 1
    BY <1>1, Levels
  <2>2. k \in Finer(t)
    BY <2>1 DEF Finer
  <2> QED
    BY <1>3, <1>4, <2>2, Levels
<1> QED
  BY <1>4, <1>5, <1>6 DEF h

LEMMA HandDownSound == ASSUME WheelKept, HandDown PROVE WheelKept'
<1> DEFINE t == Head(Slot)
           k == Highest(Finer(t))
<1>1. /\ level > 1 /\ Slot # <<>> /\ Finer(t) # {} /\ wheel' = Push(Rest, k, at[t][k], t)
      /\ UNCHANGED <<point, msec_count, timerVars, level, cur>>
  BY DEF HandDown
<1>2. level # 0
  BY <1>1
<1>3. /\ t \in Timer /\ status[t] = "set" /\ t # cur
      /\ Rest \in Wheels /\ Nowhere(Rest, t)
      /\ \A u : u # t => /\ Once(wheel, u) => Once(Rest, u)
                         /\ Nowhere(wheel, u) => Nowhere(Rest, u)
  BY <1>1, <1>2, SlotHead
<1>4. k \in Level /\ at[t][k] \in 0..Size[k] - 1
  BY <1>1, <1>2, <1>3, FinerIn
<1> HIDE DEF t, k
<1>5. /\ wheel' \in Wheels /\ Once(wheel', t)
      /\ \A u : u # t => /\ Once(Rest, u) => Once(wheel', u)
                         /\ Nowhere(Rest, u) => Nowhere(wheel', u)
  BY <1>1, <1>3, <1>4, PushedOnce
<1>6. WheelTypes'
  BY <1>1, <1>5 DEF WheelKept, WheelTypes, InWheels, Digitwise, timerVars
<1>7. ASSUME NEW u \in Timer PROVE Placed(wheel', u, status'[u], cur')
  <2>0. Placed(wheel, u, status[u], cur)
    BY DEF WheelKept
  <2>1. CASE u = t
    BY <1>1, <1>3, <1>5, <2>1 DEF Placed, timerVars
  <2>2. CASE u # t
    BY <1>1, <1>3, <1>5, <2>0, <2>2 DEF Placed, timerVars
  <2> QED
    BY <2>1, <2>2
<1> QED
  BY <1>6, <1>7 DEF WheelKept

LEMMA DeletedSound == ASSUME WheelKept, DeleteRemoved PROVE WheelKept'
<1> DEFINE t == Head(Slot)
<1>1. /\ level # 0 /\ Slot # <<>> /\ cur = NoTimer /\ wheel' = Rest
      /\ status' = [status EXCEPT ![t] = "deleted"]
      /\ UNCHANGED <<point, msec_count, at, interval, count, bRelease, due, short,
                     level, cur>>
  BY DEF DeleteRemoved
<1>3. /\ t \in Timer /\ wheel' \in Wheels /\ Nowhere(wheel', t)
      /\ \A u : u # t => /\ Once(wheel, u) => Once(wheel', u)
                         /\ Nowhere(wheel, u) => Nowhere(wheel', u)
  BY <1>1, SlotHead
<1> HIDE DEF t
<1>6. WheelTypes'
  BY <1>1, <1>3 DEF WheelKept, WheelTypes, InWheels, Digitwise
<1>7. ASSUME NEW u \in Timer PROVE Placed(wheel', u, status'[u], cur')
  <2>0. Placed(wheel, u, status[u], cur) /\ status \in [Timer -> {"new", "set", "deleted"}]
    BY DEF WheelKept, WheelTypes
  <2>1. CASE u = t
    BY <1>1, <1>3, <2>0, <2>1 DEF Placed
  <2>2. CASE u # t
    BY <1>1, <1>3, <2>0, <2>2 DEF Placed
  <2> QED
    BY <2>1, <2>2
<1> QED
  BY <1>6, <1>7 DEF WheelKept

LEMMA CalledSound == ASSUME WheelKept, Call PROVE WheelKept'
<1> DEFINE t == Head(Slot)
<1>1. /\ level # 0 /\ Slot # <<>> /\ cur = NoTimer /\ wheel' = Rest /\ cur' = t
      /\ UNCHANGED <<point, msec_count, timerVars, level>>
  BY DEF Call
<1>3. /\ t \in Timer /\ status[t] = "set" /\ wheel' \in Wheels /\ Nowhere(wheel', t)
      /\ \A u : u # t => /\ Once(wheel, u) => Once(wheel', u)
                         /\ Nowhere(wheel, u) => Nowhere(wheel', u)
  BY <1>1, SlotHead
<1> HIDE DEF t
<1>6. WheelTypes'
  BY <1>1, <1>3 DEF WheelKept, WheelTypes, InWheels, Digitwise, timerVars
<1>7. ASSUME NEW u \in Timer PROVE Placed(wheel', u, status'[u], cur')
  <2>0. Placed(wheel, u, status[u], cur) /\ u # cur
    BY <1>1, WheelNumbers DEF WheelKept
  <2>1. CASE u = t
    BY <1>1, <1>3, <2>0, <2>1 DEF Placed, timerVars
  <2>2. CASE u # t
    BY <1>1, <1>3, <2>0, <2>2 DEF Placed, timerVars
  <2> QED
    BY <2>1, <2>2
<1> QED
  BY <1>6, <1>7 DEF WheelKept

LEMMA EndedSound == ASSUME WheelKept, EndCall PROVE WheelKept'
<1>0. /\ cur \in Timer /\ cur' = NoTimer /\ status[cur] = "set"
      /\ UNCHANGED <<point, msec_count, interval, bRelease, short, level>>
  BY DEF EndCall, WheelKept, WheelTypes
<1>1. Nowhere(wheel, cur) /\ \A u \in Timer : Placed(wheel, u, status[u], cur)
  BY <1>0 DEF WheelKept, Placed
<1>2. CASE count[cur] = 1
  <2>1. /\ count' = [count EXCEPT ![cur] = 0]
        /\ status' = [status EXCEPT ![cur] = "deleted"]
        /\ UNCHANGED <<wheel, at, due>>
    BY <1>2 DEF EndCall
  <2>2. WheelTypes'
    BY <1>0, <2>1 DEF WheelKept, WheelTypes, InWheels, Digitwise
  <2>3. ASSUME NEW u \in Timer PROVE Placed(wheel', u, status'[u], cur')
    <3>0. u # NoTimer /\ status \in [Timer -> {"new", "set", "deleted"}]
      BY WheelNumbers DEF WheelKept, WheelTypes
    <3>1. CASE u = cur
      BY <1>0, <1>1, <2>1, <3>0, <3>1 DEF Placed
    <3>2. CASE u # cur
      BY <1>0, <1>1, <2>1, <3>0, <3>2 DEF Placed
    <3> QED
      BY <3>1, <3>2
  <2> QED
    BY <2>2, <2>3 DEF WheelKept
<1>3. CASE count[cur] # 1
  <2> DEFINE x == Later(at[cur], interval[cur])
             l == IF GetTimerTick(x) <= msec_count THEN 1 ELSE LevelOf(x)
             i == IF GetTimerTick(x) <= msec_count THEN point[1] ELSE x[LevelOf(x)]
  <2>1. /\ GetTimerTick(x) <= msec_count \/ x[5] < Size[5]
        /\ count' = [count EXCEPT ![cur] = IF @ <= 0 THEN @ ELSE @ - 1]
        /\ at' = [at EXCEPT ![cur] = x]
        /\ wheel' = IF GetTimerTick(x) <= msec_count
                    THEN Push(wheel, 1, point[1], cur)
                    ELSE Push(wheel, LevelOf(x), x[LevelOf(x)], cur)
        /\ due' = [due EXCEPT ![cur] = @ + Ticks(interval[cur])]
        /\ status' = status
    BY <1>3 DEF EndCall
  <2>2. Digitwise(at[cur]) /\ interval[cur] \in Nat /\ InWheels(point)
    BY <1>0 DEF WheelKept, WheelTypes
  <2>3. /\ Digitwise(x) /\ LevelOf(x) \in Level
        /\ x[5] < Size[5] => x[LevelOf(x)] \in 0..Size[LevelOf(x)] - 1
    BY <2>2, LaterIn
  <2>4. wheel' = Push(wheel, l, i, cur)
    BY <2>1, Zenon
  <2>5. l \in Level /\ i \in 0..Size[l] - 1
    <3>1. point[1] \in 0..Size[1] - 1
      BY <2>2, WheelNumbers, Levels DEF InWheels
    <3> QED
      BY <2>1, <2>3, <3>1, Levels, Zenon
  <2>6. Ticks(interval[cur]) \in Nat
    BY <2>2, FieldsWorth
  <2> HIDE DEF x, l, i
  <2>7. /\ wheel' \in Wheels /\ Once(wheel', cur)
        /\ \A u : u # cur => /\ Once(wheel, u) => Once(wheel', u)
                             /\ Nowhere(wheel, u) => Nowhere(wheel', u)
    BY <1>0, <1>1, <2>4, <2>5, PushedOnce DEF WheelKept, WheelTypes
  <2>8. WheelTypes'
    <3>1. at' \in [Timer -> [Level -> Nat]] /\ \A u \in Timer : Digitwise(at'[u])
      BY <1>0, <2>1, <2>3 DEF WheelKept, WheelTypes, Digitwise
    <3>2. InWheels(point)' /\ (\A u \in Timer : Digitwise(at[u]))'
      BY <1>0, <2>2, <3>1 DEF InWheels, Digitwise
    <3>3. /\ count' \in [Timer -> Int] /\ due' \in [Timer -> Nat]
      BY <1>0, <2>1, <2>6 DEF WheelKept, WheelTypes
    <3>4. /\ interval' \in [Timer -> Nat]
          /\ status' \in [Timer -> {"new", "set", "deleted"}]
          /\ short' \subseteq Timer /\ msec_count' \in Nat
          /\ bRelease' \subseteq Timer /\ level' \in 0..5 /\ cur' \in Timer \union {NoTimer}
      BY <1>0, <2>1 DEF WheelKept, WheelTypes
    <3> QED
      BY <1>0, <2>7, <3>1, <3>2, <3>3, <3>4 DEF WheelTypes
  <2>9. ASSUME NEW u \in Timer PROVE Placed(wheel', u, status'[u], cur')
    <3>0. u # NoTimer
      BY WheelNumbers
    <3>1. CASE u = cur
      BY <1>0, <2>1, <2>7, <3>0, <3>1 DEF Placed
    <3>2. CASE u # cur
      BY <1>0, <1>1, <2>1, <2>7, <3>0, <3>2 DEF Placed
    <3> QED
      BY <3>1, <3>2
  <2> QED
    BY <2>8, <2>9 DEF WheelKept
<1> QED
  BY <1>2, <1>3

(* The two AddTimers. *)
LEMMA AskedFor ==
    ASSUME NEW t \in Timer, AddTimer(t)
    PROVE  \E diff \in Nat, intv \in Nat, n \in Int :
             CreateTimer(t, diff, intv, n) /\ diff <= intv
<1>1. DayMs \in Nat
  BY WheelNumbers, Products DEF DayMs
<1>2. Delay \subseteq Nat /\ Count \subseteq Int /\ Count \union {0} \subseteq Int
  BY WheelNumbers
<1>3. PICK d \in Delay, n \in Count \union {0} :
        \/ CreateTimer(t, d, d, n)
        \/ d > 0 /\ d <= DayMs /\ CreateTimer(t, d, DayMs, n)
  BY DEF AddTimer
<1>4. d \in Nat /\ n \in Int /\ d <= d
  BY <1>2
<1> QED
  BY <1>1, <1>3, <1>4

(* What the steps past the end of day_wheel leave alone. *)
LEMMA OutsideStays ==
    ASSUME GoOutside \/ UNCHANGED vars
    PROVE  UNCHANGED <<point, msec_count, wheel, at, interval, count, bRelease, status,
                       due, short, level, cur>>
  BY DEF GoOutside, vars, timerVars

LEMMA WheelStep == ASSUME WheelKept, [Next]_vars PROVE WheelKept'
<1>1. ASSUME NEW t \in Timer, AddTimer(t) PROVE WheelKept'
  BY <1>1, AskedFor, CreatedSound
<1>2. ASSUME NEW t \in Timer, RemoveTimer(t) PROVE WheelKept'
  BY <1>2, RemovedSound
<1>3. CASE GoOutside \/ UNCHANGED vars
  BY <1>3, OutsideStays DEF WheelKept, WheelTypes, InWheels, Digitwise
<1> QED
  BY <1>1, <1>2, <1>3, TickSound, SlotDoneSound, HandDownSound, DeletedSound,
     CalledSound, EndedSound DEF Next, Inside

LEMMA WheelAlways == Spec => []WheelKept
<1>1. Init => WheelKept
  BY WheelStart
<1>2. WheelKept /\ [Next]_vars => WheelKept'
  BY WheelStep
<1> QED
  BY <1>1, <1>2, PTL DEF Spec

LEMMA OutsideType == Spec => [](outside \in BOOLEAN)
<1>1. Init => outside \in BOOLEAN
  BY DEF Init
<1>2. outside \in BOOLEAN /\ [Next]_vars => (outside \in BOOLEAN)'
  BY DEF Next, GoOutside, vars
<1> QED
  BY <1>1, <1>2, PTL DEF Spec

(* Counting the entries of a timer. *)
Found(w, t, l, i) == {<<l, i, n>> : n \in {m \in DOMAIN w[l][i] : w[l][i][m] = t}}

EntriesOf(w, t) == UNION {UNION {Found(w, t, l, i) : i \in DOMAIN w[l]} : l \in Level}

LEMMA EntriesCounted ==
    ASSUME NEW w \in Wheels, NEW t
    PROVE  /\ Once(w, t) => Cardinality(EntriesOf(w, t)) = 1
           /\ Nowhere(w, t) => Cardinality(EntriesOf(w, t)) = 0
<1> DEFINE found(l, i) == Found(w, t, l, i)
           places == UNION {UNION {found(l, i) : i \in DOMAIN w[l]} : l \in Level}
<1>1. \A l \in Level : \A i \in DOMAIN w[l] : \A n :
        n \in DOMAIN w[l][i] /\ w[l][i][n] = t <=> Entry(w, l, i, n, t)
  <2> TAKE l \in Level
  <2> TAKE i \in DOMAIN w[l]
  <2>0. DOMAIN w[l] = 0..Size[l] - 1
    BY DEF Wheels
  <2>1. i \in 0..Size[l] - 1
    BY <2>0
  <2>2. w[l][i] \in Seq(Timer)
    BY <2>1, SlotIn
  <2>3. DOMAIN w[l][i] = 1..Len(w[l][i])
    BY <2>2
  <2> QED
    BY <2>1, <2>3 DEF Entry
<1>2. \A p : p \in places <=> \E l, i, n : p = <<l, i, n>> /\ Entry(w, l, i, n, t)
  <2>0. \A l, i, n : Entry(w, l, i, n, t) => l \in Level /\ i \in DOMAIN w[l]
    BY DEF Entry, Wheels
  <2>1. ASSUME NEW p \in places PROVE \E l, i, n : p = <<l, i, n>> /\ Entry(w, l, i, n, t)
    <3>1. PICK l \in Level : p \in UNION {found(l, i) : i \in DOMAIN w[l]}
      BY <2>1
    <3>2. PICK i \in DOMAIN w[l] : p \in found(l, i)
      BY <3>1
    <3>3. PICK n \in DOMAIN w[l][i] : w[l][i][n] = t /\ p = <<l, i, n>>
      BY <3>2 DEF Found
    <3> QED
      BY <1>1, <3>3
  <2>2. ASSUME NEW p, NEW l, NEW i, NEW n, p = <<l, i, n>>, Entry(w, l, i, n, t)
        PROVE  p \in places
    <3>1. l \in Level /\ i \in DOMAIN w[l] /\ n \in DOMAIN w[l][i] /\ w[l][i][n] = t
      BY <1>1, <2>0, <2>2
    <3>2. p \in found(l, i)
      BY <2>2, <3>1 DEF Found
    <3>3. p \in UNION {found(l, j) : j \in DOMAIN w[l]}
      BY <3>1, <3>2
    <3> QED
      BY <3>1, <3>3
  <2> QED
    BY <2>1, <2>2
<1> HIDE DEF places
<1>3. ASSUME Once(w, t) PROVE Cardinality(places) = 1
  <2>1. PICK l, i, n : /\ Entry(w, l, i, n, t)
                       /\ \A k, j, m : Entry(w, k, j, m, t) => k = l /\ j = i /\ m = n
    BY <1>3 DEF Once
  <2>2. places = {<<l, i, n>>}
    BY <1>2, <2>1
  <2> QED
    BY <2>2, FS_Singleton
<1>4. ASSUME Nowhere(w, t) PROVE Cardinality(places) = 0
  <2>1. places = {}
    BY <1>2, <1>4 DEF Nowhere
  <2> QED
    BY <2>1, FS_EmptySet
<1> QED
  BY <1>3, <1>4 DEF places, EntriesOf

LEMMA KeptSound == ASSUME WheelKept, outside \in BOOLEAN PROVE WheelInv
<1>1. TypeOK
  BY DEF WheelKept, WheelTypes, InWheels, Digitwise, Wheels, TypeOK
<1>2. InOneSlot
  <2> SUFFICES ASSUME NEW t \in Timer
               PROVE  Cardinality(EntriesOf(wheel, t)) =
                        IF status[t] = "set" /\ t # cur THEN 1 ELSE 0
    BY Zenon DEF InOneSlot, EntriesOf, Found
  <2>1. wheel \in Wheels
    BY DEF WheelKept, WheelTypes
  <2>2. CASE status[t] = "set" /\ t # cur
    <3>1. Once(wheel, t)
      BY <2>2 DEF WheelKept, Placed
    <3> QED
      BY <2>1, <2>2, <3>1, EntriesCounted
  <2>3. CASE ~(status[t] = "set" /\ t # cur)
    <3>1. Nowhere(wheel, t)
      BY <2>3 DEF WheelKept, Placed
    <3> QED
      BY <2>1, <2>3, <3>1, EntriesCounted
  <2> QED
    BY <2>2, <2>3
<1> QED
  BY <1>1, <1>2 DEF WheelInv

(* The wheels of TimeWheel are sound whatever their sizes: every timer     *)
(* that is set is in exactly one slot of one wheel or in its callback, and *)
(* the fields of every timer, from the hour down, are slots.               *)
THEOREM WheelSound == Spec => []WheelInv
<1>1. WheelKept /\ outside \in BOOLEAN => WheelInv
  BY KeptSound
<1> QED
  BY <1>1, WheelAlways, OutsideType, PTL

(* The timers are on their way: the hands stand at the ticks counted, a    *)
(* timer's fields at the tick it is due, and a timer that waits in a wheel *)
(* is ahead of the hand there and with the hands above, or Update() has    *)
(* yet to come to its slot.                                                *)
HandsRight ==
    /\ Value(point) = msec_count
    /\ \A k \in Level : k < level => point[k] = 0
    /\ cur # NoTimer => level > 0

AtHand(x, p, lv, l) == l <= lv /\ \A k \in Level : k >= l => x[k] = p[k]

WaitsRight(x, p, lv, w, t) ==
    \A l, i, n : Entry(w, l, i, n, t) =>
                   i = x[l] /\ (Ahead(x, p, l) \/ AtHand(x, p, lv, l))

OnItsWay(t) ==
    status[t] = "set" /\ t \notin short =>
      /\ Value(at[t]) = due[t] /\ Ticks(interval[t]) > 0
      /\ t = cur => at[t] = point
      /\ WaitsRight(at[t], point, level, wheel, t)

WheelTimed == HandsRight /\ \A t \in Timer : OnItsWay(t)

LEMMA TimedStart == ASSUME Init PROVE WheelTimed
<1>1. point = Zero /\ msec_count = 0 /\ level = 0 /\ cur = NoTimer
      /\ status = [t \in Timer |-> "new"]
  BY DEF Init
<1>2. Zero[1] = 0 /\ Zero[2] = 0 /\ Zero[3] = 0 /\ Zero[4] = 0 /\ Zero[5] = 0
  BY Levels DEF Zero
<1>3. Value(Zero) = 0
  BY <1>2, WheelNumbers DEF Value, Val2, Val3, Val4
<1>4. HandsRight
  BY <1>1, <1>3, Levels DEF HandsRight
<1> QED
  BY <1>1, <1>4 DEF WheelTimed, OnItsWay

(* Where a time that is still to come is put, it is ahead of the hand. *)
LEMMA PutAhead ==
    ASSUME InWheels(point), NEW x, Digitwise(x), Value(x) > Value(point)
    PROVE  Ahead(x, point, LevelOf(x))
<1>1. PICK l \in Level : Ahead(x, point, l)
  BY LaterAhead, InDigitwise
<1>2. LevelOf(x) = l
  BY <1>1, LevelOfAhead DEF InWheels, Digitwise
<1> QED
  BY <1>1, <1>2

(* A step that leaves a timer and the hands alone leaves it on its way. *)
LEMMA WayStays ==
    ASSUME NEW u, OnItsWay(u), UNCHANGED <<point, level>>,
           at'[u] = at[u], due'[u] = due[u], interval'[u] = interval[u],
           status'[u] = status[u], short \subseteq short', u = cur' => u = cur,
           \A k, j, m : Entry(wheel', k, j, m, u) => \E n : Entry(wheel, k, j, n, u)
    PROVE  OnItsWay(u)'
<1> SUFFICES ASSUME status'[u] = "set", u \notin short'
             PROVE  /\ Value(at'[u]) = due'[u] /\ Ticks(interval'[u]) > 0
                    /\ u = cur' => at'[u] = point'
                    /\ WaitsRight(at'[u], point', level', wheel', u)
  BY DEF OnItsWay, Value, Val2, Val3, Val4, Ticks
<1>1. /\ Value(at[u]) = due[u] /\ Ticks(interval[u]) > 0
      /\ u = cur => at[u] = point
      /\ WaitsRight(at[u], point, level, wheel, u)
  BY DEF OnItsWay
<1>2. WaitsRight(at[u], point, level, wheel', u)
  BY <1>1 DEF WaitsRight
<1> QED
  BY <1>1, <1>2

LEMMA CreatedTimed ==
    ASSUME WheelKept, WheelTimed, NEW t \in Timer, NEW diff \in Nat, NEW intv \in Nat,
           NEW n \in Int, diff <= intv, CreateTimer(t, diff, intv, n)
    PROVE  WheelTimed'
<1> DEFINE x == Later(point, diff)
           l == LevelOf(x)
<1>1. /\ status[t] = "new" /\ x[5] < Size[5]
      /\ at' = [at EXCEPT ![t] = x]
      /\ wheel' = Push(wheel, l, x[l], t)
      /\ interval' = [interval EXCEPT ![t] = intv]
      /\ status' = [status EXCEPT ![t] = "set"]
      /\ due' = [due EXCEPT ![t] = msec_count + Ticks(diff)]
      /\ short' = IF Ticks(diff) = 0 THEN short \union {t} ELSE short
      /\ UNCHANGED <<point, msec_count, bRelease, level, cur>>
  BY DEF CreateTimer
<1>2. WheelTypes /\ \A u \in Timer : Placed(wheel, u, status[u], cur)
  BY DEF WheelKept
<1>3. /\ Digitwise(x) /\ l \in Level /\ x[l] \in 0..Size[l] - 1
      /\ Value(x) = Value(point) + Ticks(diff)
  BY <1>1, <1>2, LaterIn, InDigitwise DEF WheelTypes
<1>4. Ticks(diff) \in Nat /\ Ticks(intv) \in Nat /\ Ticks(diff) <= Ticks(intv)
  BY FieldsWorth, TicksGrow
<1>5. Value(point) \in Nat /\ Value(point) = msec_count
  BY <1>2, ValuesNat DEF WheelTypes, InWheels, WheelTimed, HandsRight
<1>6. Ticks(diff) # 0 => Ahead(x, point, l)
  BY <1>2, <1>3, <1>4, <1>5, PutAhead DEF WheelTypes
<1> HIDE DEF x, l
<1>7. t # cur /\ Nowhere(wheel, t)
  BY <1>1, <1>2, WheelNumbers DEF WheelTypes, Placed
<1>8. /\ \A k, j, m : Entry(wheel', k, j, m, t) => k = l /\ j = x[l]
      /\ \A u : u # t => \A k, j, m : Entry(wheel', k, j, m, u) => Entry(wheel, k, j, m, u)
  BY <1>1, <1>2, <1>3, <1>7, PushedOnce DEF WheelTypes
<1>9. HandsRight'
  BY <1>1, <1>5 DEF WheelTimed, HandsRight, Value, Val2, Val3, Val4
<1>10. ASSUME NEW u \in Timer PROVE OnItsWay(u)'
  <2>1. CASE u = t
    <3> SUFFICES ASSUME status'[t] = "set", t \notin short'
                 PROVE  /\ Value(at'[t]) = due'[t] /\ Ticks(interval'[t]) > 0
                        /\ t = cur' => at'[t] = point'
                        /\ WaitsRight(at'[t], point', level', wheel', t)
      BY <2>1 DEF OnItsWay, Value, Val2, Val3, Val4, Ticks
    <3>1. Ticks(diff) # 0
      BY <1>1
    <3>2. at'[t] = x /\ due'[t] = msec_count + Ticks(diff) /\ interval'[t] = intv
      BY <1>1, <1>2 DEF WheelTypes
    <3>3. WaitsRight(x, point', level', wheel', t)
      BY <1>1, <1>6, <1>8, <3>1 DEF WaitsRight
    <3> QED
      BY <1>1, <1>3, <1>4, <1>5, <1>7, <3>1, <3>2, <3>3
  <2>2. CASE u # t
    <3>1. /\ at'[u] = at[u] /\ due'[u] = due[u] /\ interval'[u] = interval[u]
          /\ status'[u] = status[u] /\ short \subseteq short'
      BY <1>1, <1>2, <2>2 DEF WheelTypes
    <3>2. OnItsWay(u)
      BY DEF WheelTimed
    <3>3. \A k, j, m : Entry(wheel', k, j, m, u) => \E o : Entry(wheel, k, j, o, u)
      BY <1>8, <2>2
    <3> QED
      BY <1>1, <3>1, <3>2, <3>3, WayStays
  <2> QED
    BY <2>1, <2>2
<1> QED
  BY <1>9, <1>10 DEF WheelTimed

LEMMA HandsStay ==
    ASSUME HandsRight, UNCHANGED <<point, msec_count, level>>, cur' = NoTimer \/ cur' = cur
    PROVE  HandsRight'
  BY DEF HandsRight, Value, Val2, Val3, Val4

LEMMA RemovedTimed ==
    ASSUME WheelKept, WheelTimed, NEW t \in Timer, RemoveTimer(t)
    PROVE  WheelTimed'
<1>1. UNCHANGED <<point, msec_count, wheel, at, interval, count, status, due, short, level, cur>>
  BY DEF RemoveTimer
<1>2. HandsRight'
  BY <1>1, HandsStay DEF WheelTimed
<1>3. ASSUME NEW u \in Timer PROVE OnItsWay(u)'
  <2>1. OnItsWay(u)
    BY DEF WheelTimed
  <2> QED
    BY <1>1, <2>1, WayStays
<1> QED
  BY <1>2, <1>3 DEF WheelTimed

(* The tick brings the hand of the highest wheel that moves up to the      *)
(* timers of the slot it reaches; none is in a finer wheel, for their      *)
(* hands stood in the last slot.                                           *)
LEMMA TickReaches ==
    ASSUME NEW x, Digitwise(x), NEW p, InWheels(p), NEW q, NEW h, MovesOn(p, q, h),
           NEW l, Ahead(x, p, l)
    PROVE  Ahead(x, q, l) \/ AtHand(x, q, h, l)
<1>1. /\ h \in Level /\ \A k \in Level : k < h => p[k] = Size[k] - 1 /\ q[k] = 0
      /\ q[h] = p[h] + 1 /\ \A k \in Level : k > h => q[k] = p[k]
  BY DEF MovesOn
<1>2. l \in Level /\ x[l] > p[l] /\ \A k \in Level : k > l => x[k] = p[k]
  BY DEF Ahead
<1>3. /\ \A k \in Level : x[k] \in Nat /\ p[k] \in Nat /\ Size[k] \in Nat
      /\ \A k \in 1..4 : x[k] < Size[k]
  BY WheelNumbers DEF InWheels, Digitwise
<1>4. CASE l > h
  <2>1. q[l] = p[l] /\ \A k \in Level : k > l => q[k] = p[k]
    BY <1>1, <1>2, <1>4, Levels
  <2> QED
    BY <1>2, <2>1 DEF Ahead
<1>5. CASE l = h
  <2>1. \A k \in Level : k > l => x[k] = q[k]
    BY <1>1, <1>2, <1>5
  <2>2. x[l] > q[l] \/ x[l] = q[l]
    BY <1>1, <1>2, <1>3, <1>5
  <2>3. x[l] > q[l] => Ahead(x, q, l)
    BY <1>2, <2>1 DEF Ahead
  <2>4. x[l] = q[l] => AtHand(x, q, h, l)
    BY <1>2, <1>5, <2>1, Levels DEF AtHand
  <2> QED
    BY <2>2, <2>3, <2>4
<1>6. ~(l < h)
  <2> SUFFICES ASSUME l < h PROVE FALSE
    OBVIOUS
  <2>1. l \in 1..4 /\ p[l] = Size[l] - 1
    BY <1>1, <1>2, Levels
  <2> QED
    BY <1>2, <1>3, <2>1
<1> QED
  BY <1>1, <1>2, <1>4, <1>5, <1>6, Levels

LEMMA TickTimed == ASSUME WheelKept, WheelTimed, Tick PROVE WheelTimed'
<1>1. UNCHANGED <<wheel, timerVars, cur>>
  BY DEF Tick
<1>2. MovesOn(point, point', level') /\ level = 0 /\ msec_count' = msec_count + 1
  BY TickMoves DEF WheelKept, WheelTypes
<1>3. Value(point') = Value(point) + 1
  BY <1>2, TickWorth DEF WheelKept, WheelTypes
<1>4. cur = NoTimer
  BY <1>2 DEF WheelTimed, HandsRight
<1>5. HandsRight'
  <2>1. Value(point') = msec_count'
    BY <1>2, <1>3 DEF WheelTimed, HandsRight
  <2>2. \A k \in Level : k < level' => point'[k] = 0
    BY <1>2 DEF MovesOn
  <2>3. HandsRight' <=> /\ Value(point') = msec_count'
                        /\ \A k \in Level : k < level' => point'[k] = 0
                        /\ cur' # NoTimer => level' > 0
    BY DEF HandsRight, Value, Val2, Val3, Val4
  <2> QED
    BY <1>1, <1>4, <2>1, <2>2, <2>3
<1>6. ASSUME NEW u \in Timer PROVE OnItsWay(u)'
  <2> SUFFICES ASSUME status'[u] = "set", u \notin short'
               PROVE  /\ Value(at'[u]) = due'[u] /\ Ticks(interval'[u]) > 0
                      /\ u = cur' => at'[u] = point'
                      /\ WaitsRight(at'[u], point', level', wheel', u)
    BY DEF OnItsWay, Value, Val2, Val3, Val4, Ticks
  <2>0. /\ status[u] = "set" /\ u \notin short /\ u # cur'
        /\ at'[u] = at[u] /\ due' = due /\ interval' = interval
    BY <1>1, <1>4, WheelNumbers DEF timerVars
  <2>1. /\ Value(at[u]) = due[u] /\ Ticks(interval[u]) > 0
        /\ WaitsRight(at[u], point, level, wheel, u)
    BY <2>0 DEF WheelTimed, OnItsWay
  <2>2. Digitwise(at[u]) /\ InWheels(point)
    BY DEF WheelKept, WheelTypes
  <2>3. ASSUME NEW l, NEW i, NEW n, Entry(wheel, l, i, n, u)
        PROVE  i = at[u][l] /\ (Ahead(at[u], point', l) \/ AtHand(at[u], point', level', l))
    <3>1. i = at[u][l] /\ (Ahead(at[u], point, l) \/ AtHand(at[u], point, level, l))
      BY <2>1, <2>3 DEF WaitsRight
    <3>2. l \in Level
      BY <2>3 DEF Entry
    <3>3. ~AtHand(at[u], point, level, l)
      BY <1>2, <3>2, Levels DEF AtHand
    <3> QED
      BY <1>2, <2>2, <3>1, <3>3, TickReaches
  <2>4. WaitsRight(at[u], point', level', wheel', u)
    BY <1>1, <2>3 DEF WaitsRight
  <2> QED
    BY <2>0, <2>1, <2>4
<1> QED
  BY <1>5, <1>6 DEF WheelTimed

LEMMA SlotDoneTimed == ASSUME WheelKept, WheelTimed, SlotDone PROVE WheelTimed'
<1>1. /\ UNCHANGED <<point, msec_count, wheel, timerVars, cur>>
      /\ level # 0 /\ level' = level - 1 /\ cur = NoTimer /\ Slot = <<>>
  BY DEF SlotDone
<1>2. level \in Level
  BY <1>1, Levels DEF WheelKept, WheelTypes
<1>3. HandsRight'
  <2>1. Value(point') = msec_count'
    BY <1>1 DEF WheelTimed, HandsRight
  <2>2. \A k \in Level : k < level' => point'[k] = 0
    BY <1>1, <1>2, Levels DEF WheelTimed, HandsRight
  <2>3. HandsRight' <=> /\ Value(point') = msec_count'
                        /\ \A k \in Level : k < level' => point'[k] = 0
                        /\ cur' # NoTimer => level' > 0
    BY DEF HandsRight, Value, Val2, Val3, Val4
  <2> QED
    BY <1>1, <2>1, <2>2, <2>3
<1>4. ASSUME NEW u \in Timer PROVE OnItsWay(u)'
  <2> SUFFICES ASSUME status'[u] = "set", u \notin short'
               PROVE  /\ Value(at'[u]) = due'[u] /\ Ticks(interval'[u]) > 0
                      /\ u = cur' => at'[u] = point'
                      /\ WaitsRight(at'[u], point', level', wheel', u)
    BY DEF OnItsWay, Value, Val2, Val3, Val4, Ticks
  <2>0. /\ status[u] = "set" /\ u \notin short /\ u # cur'
        /\ at'[u] = at[u] /\ due' = due /\ interval' = interval
    BY <1>1, WheelNumbers DEF timerVars
  <2>1. /\ Value(at[u]) = due[u] /\ Ticks(interval[u]) > 0
        /\ WaitsRight(at[u], point, level, wheel, u)
    BY <2>0 DEF WheelTimed, OnItsWay
  <2>3. ASSUME NEW l, NEW i, NEW n, Entry(wheel, l, i, n, u)
        PROVE  i = at[u][l] /\ (Ahead(at[u], point, l) \/ AtHand(at[u], point, level', l))
    <3>1. i = at[u][l] /\ (Ahead(at[u], point, l) \/ AtHand(at[u], point, level, l))
      BY <2>1, <2>3 DEF WaitsRight
    <3>2. l \in Level /\ n \in 1..Len(wheel[l][i])
      BY <2>3 DEF Entry
    <3>3. AtHand(at[u], point, level, l) => l # level
      <4> SUFFICES ASSUME AtHand(at[u], point, level, l), l = level PROVE FALSE
        OBVIOUS
      <4>1. i = point[level]
        BY <3>1, <3>2, Levels DEF AtHand
      <4>2. wheel[l][i] = <<>>
        BY <1>1, <4>1 DEF Slot
      <4> QED
        BY <3>2, <4>2
    <3>4. AtHand(at[u], point, level, l) => AtHand(at[u], point, level', l)
      BY <1>1, <1>2, <3>2, <3>3, Levels DEF AtHand
    <3> QED
      BY <3>1, <3>4
  <2>4. WaitsRight(at[u], point', level', wheel', u)
    BY <1>1, <2>3 DEF WaitsRight
  <2> QED
    BY <1>1, <2>0, <2>1, <2>4
<1> QED
  BY <1>3, <1>4 DEF WheelTimed

(* The timers of the slot being emptied are with its hand and those above. *)
LEMMA HeadAtHand ==
    ASSUME WheelKept, WheelTimed, level # 0, Slot # <<>>, Head(Slot) \notin short
    PROVE  \A k \in Level : k >= level => at[Head(Slot)][k] = point[k]
<1> DEFINE t == Head(Slot)
<1>1. /\ t \in Timer /\ status[t] = "set" /\ level \in Level
      /\ Entry(wheel, level, point[level], 1, t)
  BY SlotHead
<1>2. WaitsRight(at[t], point, level, wheel, t)
  BY <1>1 DEF WheelTimed, OnItsWay
<1> HIDE DEF t
<1>3. /\ point[level] = at[t][level]
      /\ Ahead(at[t], point, level) \/ AtHand(at[t], point, level, level)
  BY <1>1, <1>2 DEF WaitsRight
<1>4. point[level] \in Nat
  BY <1>1 DEF WheelKept, WheelTypes, InWheels
<1>5. ~Ahead(at[t], point, level)
  BY <1>3, <1>4 DEF Ahead
<1>6. AtHand(at[t], point, level, level)
  BY <1>3, <1>5
<1> QED
  BY <1>6 DEF AtHand, t

LEMMA HandDownTimed == ASSUME WheelKept, WheelTimed, HandDown PROVE WheelTimed'
<1> DEFINE t == Head(Slot)
           h == Highest(Finer(t))
<1>1. /\ level > 1 /\ Slot # <<>> /\ Finer(t) # {} /\ wheel' = Push(Rest, h, at[t][h], t)
      /\ cur = NoTimer
      /\ UNCHANGED <<point, msec_count, timerVars, level, cur>>
  BY DEF HandDown
<1>2. level # 0 /\ level \in Int
  BY <1>1 DEF WheelKept, WheelTypes
<1>3. /\ t \in Timer /\ status[t] = "set" /\ t # cur
      /\ Rest \in Wheels /\ Nowhere(Rest, t)
      /\ \A u : u # t =>
           \A k, j, m : Entry(Rest, k, j, m, u) => \E n : Entry(wheel, k, j, n, u)
  BY <1>1, <1>2, SlotHead
<1>4. /\ h \in Level /\ h < level /\ at[t][h] # 0 /\ at[t][h] \in 0..Size[h] - 1
      /\ \A k \in Level : k > h /\ k < level => at[t][k] = 0
  BY <1>1, <1>2, <1>3, FinerIn
<1>5. t \notin short => \A k \in Level : k >= level => at[t][k] = point[k]
  BY <1>1, <1>2, HeadAtHand
<1> HIDE DEF t, h
<1>6. /\ \A k, j, m : Entry(wheel', k, j, m, t) => k = h /\ j = at[t][h]
      /\ \A u : u # t => \A k, j, m : Entry(wheel', k, j, m, u) => Entry(Rest, k, j, m, u)
  BY <1>1, <1>3, <1>4, PushedOnce
<1>7. HandsRight'
  BY <1>1, HandsStay DEF WheelTimed
<1>8. ASSUME NEW u \in Timer, u # t PROVE OnItsWay(u)'
  <2>1. OnItsWay(u)
    BY DEF WheelTimed
  <2>2. \A k, j, m : Entry(wheel', k, j, m, u) => \E n : Entry(wheel, k, j, n, u)
    BY <1>3, <1>6, <1>8
  <2>3. UNCHANGED <<point, level, at, due, interval, status, short, cur>>
    BY <1>1 DEF timerVars
  <2> QED
    BY <2>1, <2>2, <2>3, WayStays
<1>9. ASSUME NEW u \in Timer, u = t PROVE OnItsWay(u)'
  <2>0. UNCHANGED <<point, level, at, due, interval, status, short, cur>>
    BY <1>1 DEF timerVars
  <2> SUFFICES ASSUME status'[u] = "set", u \notin short'
               PROVE  /\ Value(at'[u]) = due'[u] /\ Ticks(interval'[u]) > 0
                      /\ u = cur' => at'[u] = point'
                      /\ WaitsRight(at'[u], point', level', wheel', u)
    BY <2>0 DEF OnItsWay, Value, Val2, Val3, Val4, Ticks
  <2>1. t \notin short
    BY <1>9, <2>0
  <2>2. Value(at[t]) = due[t] /\ Ticks(interval[t]) > 0
    BY <1>3, <2>1 DEF WheelTimed, OnItsWay
  <2>3. \A k \in Level : k < level => point[k] = 0
    BY DEF WheelTimed, HandsRight
  <2>4. Ahead(at[t], point, h)
    <3>1. at[t][h] > point[h]
      BY <1>4, <2>3, WheelNumbers
    <3>2. ASSUME NEW k \in Level, k > h PROVE at[t][k] = point[k]
      <4>1. k < level \/ k >= level
        BY <1>2, Levels
      <4> QED
        BY <1>4, <1>5, <2>1, <2>3, <3>2, <4>1
    <3> QED
      BY <1>4, <3>1, <3>2 DEF Ahead
  <2>5. WaitsRight(at[t], point, level, wheel', u)
    BY <1>6, <1>9, <2>4 DEF WaitsRight
  <2> QED
    BY <1>3, <1>9, <2>0, <2>2, <2>5
<1> QED
  BY <1>7, <1>8, <1>9 DEF WheelTimed

LEMMA DeletedTimed == ASSUME WheelKept, WheelTimed, DeleteRemoved PROVE WheelTimed'
<1> DEFINE t == Head(Slot)
<1>1. /\ level # 0 /\ Slot # <<>> /\ cur = NoTimer /\ wheel' = Rest
      /\ status' = [status EXCEPT ![t] = "deleted"]
      /\ UNCHANGED <<point, msec_count, at, interval, count, bRelease, due, short,
                     level, cur>>
  BY DEF DeleteRemoved
<1>3. /\ t \in Timer
      /\ \A u : u # t =>
           \A k, j, m : Entry(wheel', k, j, m, u) => \E n : Entry(wheel, k, j, n, u)
  BY <1>1, SlotHead
<1>s. status \in [Timer -> {"new", "set", "deleted"}]
  BY DEF WheelKept, WheelTypes
<1> HIDE DEF t
<1>7. HandsRight'
  BY <1>1, HandsStay DEF WheelTimed
<1>8. ASSUME NEW u \in Timer PROVE OnItsWay(u)'
  <2>1. OnItsWay(u)
    BY DEF WheelTimed
  <2>2. CASE u = t
    BY <1>1, <1>s, <2>2 DEF OnItsWay
  <2>3. CASE u # t
    <3>1. status'[u] = status[u]
      BY <1>1, <1>s, <2>3
    <3>2. \A k, j, m : Entry(wheel', k, j, m, u) => \E n : Entry(wheel, k, j, n, u)
      BY <1>3, <2>3
    <3> QED
      BY <1>1, <2>1, <3>1, <3>2, WayStays
  <2> QED
    BY <2>2, <2>3
<1> QED
  BY <1>7, <1>8 DEF WheelTimed

LEMMA CalledTimed == ASSUME WheelKept, WheelTimed, Call PROVE WheelTimed'
<1> DEFINE t == Head(Slot)
<1>1. /\ level # 0 /\ Slot # <<>> /\ cur = NoTimer /\ wheel' = Rest /\ cur' = t
      /\ Finer(t) = {}
      /\ UNCHANGED <<point, msec_count, timerVars, level>>
  BY DEF Call
<1>2. level \in 0..5 /\ level > 0
  BY <1>1 DEF WheelKept, WheelTypes
<1>3. /\ t \in Timer /\ status[t] = "set" /\ Nowhere(wheel', t)
      /\ \A u : u # t =>
           \A k, j, m : Entry(wheel', k, j, m, u) => \E n : Entry(wheel, k, j, n, u)
  BY <1>1, SlotHead
<1>4. t \notin short => \A k \in Level : k >= level => at[t][k] = point[k]
  BY <1>1, HeadAtHand
<1> HIDE DEF t
<1>5. UNCHANGED <<point, level, at, due, interval, status, short>>
  BY <1>1 DEF timerVars
<1>7. HandsRight'
  <2>1. HandsRight' <=> /\ Value(point') = msec_count'
                        /\ \A k \in Level : k < level' => point'[k] = 0
                        /\ cur' # NoTimer => level' > 0
    BY DEF HandsRight, Value, Val2, Val3, Val4
  <2> QED
    BY <1>1, <1>2, <2>1 DEF WheelTimed, HandsRight
<1>8. ASSUME NEW u \in Timer, u # t PROVE OnItsWay(u)'
  <2>1. OnItsWay(u)
    BY DEF WheelTimed
  <2>2. \A k, j, m : Entry(wheel', k, j, m, u) => \E n : Entry(wheel, k, j, n, u)
    BY <1>3, <1>8
  <2> QED
    BY <1>1, <1>5, <1>8, <2>1, <2>2, WayStays
<1>9. ASSUME NEW u \in Timer, u = t PROVE OnItsWay(u)'
  <2> SUFFICES ASSUME status'[u] = "set", u \notin short'
               PROVE  /\ Value(at'[u]) = due'[u] /\ Ticks(interval'[u]) > 0
                      /\ at'[u] = point'
                      /\ WaitsRight(at'[u], point', level', wheel', u)
    BY <1>1, <1>5 DEF OnItsWay, Value, Val2, Val3, Val4, Ticks
  <2>1. t \notin short
    BY <1>5, <1>9
  <2>2. Value(at[t]) = due[t] /\ Ticks(interval[t]) > 0
    BY <1>3, <2>1 DEF WheelTimed, OnItsWay
  <2>3. \A k \in Level : k < level => point[k] = 0
    BY DEF WheelTimed, HandsRight
  <2>4. ASSUME NEW k \in Level PROVE at[t][k] = point[k]
    <3>1. CASE k < level
      <4>1. k \in 1..level - 1
        BY <1>2, <3>1, Levels
      <4>2. at[t][k] = 0
        BY <1>1, <4>1 DEF Finer
      <4> QED
        BY <2>3, <3>1, <4>2
    <3>2. CASE k >= level
      BY <1>4, <2>1, <3>2
    <3> QED
      BY <1>2, <3>1, <3>2, Levels
  <2>5. at[t] = point
    <3>1. at[t] \in [Level -> Nat] /\ point \in [Level -> Nat]
      BY <1>3 DEF WheelKept, WheelTypes, InWheels, Digitwise
    <3> QED
      BY <2>4, <3>1
  <2>6. WaitsRight(at'[u], point', level', wheel', u)
    BY <1>3, <1>9 DEF WaitsRight, Nowhere
  <2> QED
    BY <1>5, <1>9, <2>2, <2>5, <2>6
<1> QED
  BY <1>7, <1>8, <1>9 DEF WheelTimed

(* The milliseconds of the days of every timer are an int, in which        *)
(* GetTimerTick computes them.                                             *)
DaysFit == \A t \in Timer : at[t][5] * DayMs <= MaxInt

(* What is set again after its call is due after now. *)
LEMMA EndedTimed ==
    ASSUME WheelKept, WheelTimed, DaysFit', EndCall
    PROVE  WheelTimed'
<1>0. /\ cur \in Timer /\ cur' = NoTimer /\ status[cur] = "set"
      /\ UNCHANGED <<point, msec_count, interval, bRelease, short, level>>
  BY DEF EndCall, WheelKept, WheelTypes
<1>1. Nowhere(wheel, cur) /\ InWheels(point)
  BY <1>0 DEF WheelKept, WheelTypes, Placed
<1>s. /\ status \in [Timer -> {"new", "set", "deleted"}] /\ wheel \in Wheels
      /\ at \in [Timer -> [Level -> Nat]] /\ due \in [Timer -> Nat]
      /\ interval[cur] \in Nat /\ Digitwise(at[cur])
  BY <1>0 DEF WheelKept, WheelTypes
<1>2. HandsRight'
  BY <1>0, HandsStay DEF WheelTimed
<1>3. CASE count[cur] = 1
  <2>1. status' = [status EXCEPT ![cur] = "deleted"] /\ UNCHANGED <<wheel, at, due>>
    BY <1>3 DEF EndCall
  <2>2. ASSUME NEW u \in Timer PROVE OnItsWay(u)'
    <3>1. CASE u = cur
      BY <1>s, <2>1, <3>1 DEF OnItsWay
    <3>2. CASE u # cur
      <4>1. status'[u] = status[u] /\ OnItsWay(u) /\ u # cur'
        BY <1>0, <1>s, <2>1, <3>2, WheelNumbers DEF WheelTimed
      <4> QED
        BY <1>0, <2>1, <4>1, WayStays
    <3> QED
      BY <3>1, <3>2
  <2> QED
    BY <1>2, <2>2 DEF WheelTimed
<1>4. CASE count[cur] # 1
  <2> DEFINE x == Later(at[cur], interval[cur])
             l == IF GetTimerTick(x) <= msec_count THEN 1 ELSE LevelOf(x)
             i == IF GetTimerTick(x) <= msec_count THEN point[1] ELSE x[LevelOf(x)]
  <2>1. /\ GetTimerTick(x) <= msec_count \/ x[5] < Size[5]
        /\ at' = [at EXCEPT ![cur] = x]
        /\ wheel' = IF GetTimerTick(x) <= msec_count
                    THEN Push(wheel, 1, point[1], cur)
                    ELSE Push(wheel, LevelOf(x), x[LevelOf(x)], cur)
        /\ due' = [due EXCEPT ![cur] = @ + Ticks(interval[cur])]
        /\ status' = status
    BY <1>4 DEF EndCall
  <2>3. /\ Digitwise(x) /\ LevelOf(x) \in Level
        /\ x[5] < Size[5] => x[LevelOf(x)] \in 0..Size[LevelOf(x)] - 1
        /\ at[cur][5] = point[5] => Value(x) = Value(at[cur]) + Ticks(interval[cur])
    BY <1>1, <1>s, LaterIn
  <2>4. wheel' = Push(wheel, l, i, cur)
    BY <2>1, Zenon
  <2>5. l \in Level /\ i \in 0..Size[l] - 1
    <3>1. point[1] \in 0..Size[1] - 1
      BY <1>1, WheelNumbers, Levels DEF InWheels
    <3> QED
      BY <2>1, <2>3, <3>1, Levels, Zenon
  <2>6. ASSUME cur \notin short
        PROVE  /\ l = LevelOf(x) /\ i = x[LevelOf(x)] /\ Ahead(x, point, LevelOf(x))
               /\ Value(x) = due[cur] + Ticks(interval[cur]) /\ Ticks(interval[cur]) > 0
    <3>1. /\ Value(at[cur]) = due[cur] /\ Ticks(interval[cur]) > 0 /\ at[cur] = point
      BY <1>0, <2>6 DEF WheelTimed, OnItsWay
    <3>2. Value(x) = due[cur] + Ticks(interval[cur]) /\ Value(point) = msec_count
          /\ due[cur] = msec_count
      BY <2>3, <3>1 DEF WheelTimed, HandsRight
    <3>0. x[5] * DayMs <= MaxInt
      <4>1. at'[cur] = x
        BY <1>0, <1>s, <2>1
      <4>2. \A u \in Timer : at'[u][5] * DayMs <= MaxInt
        BY DEF DaysFit, DayMs
      <4> QED
        BY <1>0, <4>1, <4>2
    <3>3. GetTimerTick(x) = Value(x)
      BY <2>3, <3>0, TickIsValue
    <3>4. Ticks(interval[cur]) \in Nat /\ msec_count \in Nat
      BY <1>s, FieldsWorth DEF WheelKept, WheelTypes
    <3>5. Value(x) > msec_count /\ ~(GetTimerTick(x) <= msec_count)
      BY <3>1, <3>2, <3>3, <3>4
    <3>6. Ahead(x, point, LevelOf(x))
      BY <1>1, <2>3, <3>2, <3>5, PutAhead
    <3> QED
      BY <3>1, <3>2, <3>5, <3>6
  <2> HIDE DEF x, l, i
  <2>7. /\ \A k, j, m : Entry(wheel', k, j, m, cur) => k = l /\ j = i
        /\ \A u : u # cur => \A k, j, m : Entry(wheel', k, j, m, u) => Entry(wheel, k, j, m, u)
    BY <1>0, <1>1, <1>s, <2>4, <2>5, PushedOnce
  <2>8. ASSUME NEW u \in Timer, u # cur PROVE OnItsWay(u)'
    <3>1. /\ status'[u] = status[u] /\ at'[u] = at[u] /\ due'[u] = due[u]
          /\ OnItsWay(u) /\ u # cur'
      BY <1>0, <1>s, <2>1, <2>8, WheelNumbers DEF WheelTimed
    <3>2. \A k, j, m : Entry(wheel', k, j, m, u) => \E n : Entry(wheel, k, j, n, u)
      BY <2>7, <2>8
    <3> QED
      BY <1>0, <3>1, <3>2, WayStays
  <2>9. ASSUME NEW u \in Timer, u = cur PROVE OnItsWay(u)'
    <3> SUFFICES ASSUME status'[u] = "set", u \notin short'
                 PROVE  /\ Value(at'[u]) = due'[u] /\ Ticks(interval'[u]) > 0
                        /\ u = cur' => at'[u] = point'
                        /\ WaitsRight(at'[u], point', level', wheel', u)
      BY DEF OnItsWay, Value, Val2, Val3, Val4, Ticks
    <3>1. /\ u \notin short /\ at'[u] = x /\ u # cur' /\ interval' = interval
          /\ due'[u] = due[cur] + Ticks(interval[cur])
      BY <1>0, <1>s, <2>1, <2>9, WheelNumbers
    <3>2. WaitsRight(x, point, level, wheel', u)
      BY <2>6, <2>7, <2>9, <3>1 DEF WaitsRight
    <3> QED
      BY <1>0, <2>6, <2>9, <3>1, <3>2
  <2> QED
    BY <1>2, <2>8, <2>9 DEF WheelTimed
<1> QED
  BY <1>3, <1>4

LEMMA TimedStep ==
    ASSUME WheelKept, WheelTimed, DaysFit', [Next]_vars
    PROVE  WheelTimed'
<1>1. ASSUME NEW t \in Timer, AddTimer(t) PROVE WheelTimed'
  <2>1. PICK diff \in Nat, intv \in Nat, n \in Int :
          CreateTimer(t, diff, intv, n) /\ diff <= intv
    BY <1>1, AskedFor
  <2> QED
    BY <2>1, CreatedTimed
<1>2. ASSUME NEW t \in Timer, RemoveTimer(t) PROVE WheelTimed'
  BY <1>2, RemovedTimed
<1>3. CASE GoOutside \/ UNCHANGED vars
  <2>1. UNCHANGED <<point, msec_count, level, cur, wheel, at, interval, status, due, short>>
    BY <1>3, OutsideStays
  <2>2. HandsRight'
    BY <2>1, HandsStay DEF WheelTimed
  <2>3. ASSUME NEW u \in Timer PROVE OnItsWay(u)'
    <3>1. OnItsWay(u)
      BY DEF WheelTimed
    <3> QED
      BY <2>1, <3>1, WayStays
  <2> QED
    BY <2>2, <2>3 DEF WheelTimed
<1> QED
  BY <1>1, <1>2, <1>3, TickTimed, SlotDoneTimed, HandDownTimed, DeletedTimed,
     CalledTimed, EndedTimed DEF Next, Inside

(* A timer that is ahead of the hands is due later; one at the hands of    *)
(* level and above is due now or, in a finer field, later.                 *)
LEMMA TimedSound == ASSUME WheelKept, WheelTimed PROVE OnTime
<1> SUFFICES ASSUME NEW t \in Timer, status[t] = "set", t \notin short
             PROVE  /\ t = cur => due[t] = msec_count
                    /\ t # cur => due[t] >= msec_count /\ (level = 0 => due[t] > msec_count)
  BY DEF OnTime
<1>1. /\ Value(at[t]) = due[t]
      /\ t = cur => at[t] = point
      /\ WaitsRight(at[t], point, level, wheel, t)
  BY DEF WheelTimed, OnItsWay
<1>2. /\ Value(point) = msec_count /\ \A k \in Level : k < level => point[k] = 0
  BY DEF WheelTimed, HandsRight
<1>3. InWheels(point) /\ Digitwise(at[t]) /\ level \in 0..5
  BY DEF WheelKept, WheelTypes
<1>4. Value(at[t]) \in Nat /\ Value(point) \in Nat
  BY <1>3, ValuesNat DEF InWheels, Digitwise
<1>5. ASSUME t # cur PROVE due[t] >= msec_count /\ (level = 0 => due[t] > msec_count)
  <2>1. Once(wheel, t)
    BY <1>5 DEF WheelKept, Placed
  <2>2. PICK l, i, n : Entry(wheel, l, i, n, t)
    BY <2>1 DEF Once
  <2>3. l \in Level /\ (Ahead(at[t], point, l) \/ AtHand(at[t], point, level, l))
    BY <1>1, <2>2 DEF WaitsRight, Entry
  <2>4. CASE Ahead(at[t], point, l)
    BY <1>1, <1>2, <1>3, <1>4, <2>4, AheadLater, InDigitwise
  <2>5. CASE AtHand(at[t], point, level, l)
    <3>1. level # 0
      BY <1>3, <2>3, <2>5, Levels DEF AtHand
    <3>2. \A k \in Level : at[t][k] >= point[k]
      <4> SUFFICES ASSUME NEW k \in Level PROVE at[t][k] >= point[k]
        OBVIOUS
      <4>1. at[t][k] \in Nat /\ point[k] \in Nat
        BY <1>3 DEF InWheels, Digitwise
      <4>2. k < level => point[k] = 0
        BY <1>2
      <4>3. k >= l => at[t][k] = point[k]
        BY <2>5 DEF AtHand
      <4> QED
        BY <1>3, <2>3, <2>5, <4>1, <4>2, <4>3, Levels DEF AtHand
    <3>3. ~ Value(point) > Value(at[t])
      <4> SUFFICES ASSUME Value(point) > Value(at[t]) PROVE FALSE
        OBVIOUS
      <4>1. PICK k \in Level : Ahead(point, at[t], k)
        BY <1>3, LaterAhead, InDigitwise
      <4>2. point[k] > at[t][k] /\ point[k] \in Nat /\ at[t][k] \in Nat
        BY <1>3, <4>1 DEF Ahead, InWheels, Digitwise
      <4> QED
        BY <3>2, <4>2
    <3> QED
      BY <1>1, <1>2, <1>4, <3>1, <3>3
  <2> QED
    BY <2>3, <2>4, <2>5
<1> QED
  BY <1>1, <1>2, <1>5

(* TimeWheel::Update calls a timer at exactly its tick, and every interval *)
(* from then on, and returns with none overdue, whatever the sizes of the  *)
(* wheels, as long as no timer is set for a day whose milliseconds are     *)
(* more than an int (TimeWheel.cpp:183: day 25).  Nothing is said of what  *)
(* follows once day_wheel is indexed past its end: the model stops there.  *)
THEOREM WheelOnTime == Spec /\ []DaysFit => []OnTime
<1>1. Init => WheelTimed
  BY TimedStart
<1>2. WheelKept /\ WheelTimed /\ DaysFit' /\ [Next]_vars => WheelTimed'
  BY TimedStep
<1>3. WheelKept /\ WheelTimed => OnTime
  BY TimedSound
<1> QED
  BY <1>1, <1>2, <1>3, WheelAlways, PTL DEF Spec

-----------------------------------------------------------------------------
(* CoroutineManager, for every size of the pool.  The pool is counted      *)
(* first; that shows that it never refills, and then the items are         *)
(* followed one by one.                                                    *)

(* What the count of the items rests on: ids are used in pairs. *)
Shape ==
    /\ _pool \in Seq(Nat) /\ _frees \in Seq(Nat)
    /\ completed \in Nat /\ early \in Nat
    /\ _dbid = 2 * (completed + early)
    /\ DOMAIN _used \subseteq 1.._dbid
    /\ broken \in BOOLEAN

CountInv == Shape /\ Conserved

(* The refill of Alloc is never reached: the pool is empty long before     *)
(* _used has that many entries.                                            *)
LEMMA NoRefill == CountInv /\ _pool # <<>> => AfterFirstPop = Tail(_pool)
<1> SUFFICES ASSUME CountInv, _pool # <<>> PROVE AfterFirstPop = Tail(_pool)
  OBVIOUS
<1> DEFINE n == Cardinality(DOMAIN _used)
<1>1. _dbid \in Nat
  BY DEF CountInv, Shape
<1>2. IsFiniteSet(1.._dbid) /\ Cardinality(1.._dbid) = _dbid
  BY <1>1, FS_Interval
<1>3. n \in Nat /\ n <= _dbid
  BY <1>2, FS_Subset, FS_CardinalityType DEF CountInv, Shape
<1> HIDE DEF n
<1>4. Len(_pool) >= 1 /\ Len(_frees) \in Nat
  BY DEF CountInv, Shape
<1>5. n + 1 < RefillAt
  BY <1>3, <1>4, PoolAssumption DEF CountInv, Shape, Conserved
<1> QED
  BY <1>3, <1>5, PoolAssumption DEF AfterFirstPop, n

(* A log-in takes two items off the pool. *)
LEMMA LoginPool ==
    ASSUME CountInv, CanAlloc
    PROVE  /\ _pool \in Seq(Nat) /\ Len(_pool) >= 2
           /\ Head(_pool) = _pool[1]
           /\ Tail(AfterFirstPop) \in Seq(Nat)
           /\ Len(Tail(AfterFirstPop)) = Len(_pool) - 2
           /\ \A i \in 1..Len(_pool) - 2 : Tail(AfterFirstPop)[i] = _pool[i + 2]
<1>1. AfterFirstPop = Tail(_pool)
  BY NoRefill DEF CanAlloc
<1>2. _pool \in Seq(Nat) /\ _pool # <<>> /\ Tail(_pool) # <<>>
  BY <1>1 DEF CountInv, Shape, CanAlloc
<1>3. Tail(_pool) \in Seq(Nat) /\ Len(Tail(_pool)) = Len(_pool) - 1
  BY <1>2
<1>4. Len(_pool) >= 2
  BY <1>2, <1>3
<1> QED
  BY <1>1, <1>2, <1>3, <1>4

LEMMA CountStep == CountInv /\ [PoolNext]_poolVars => CountInv'
<1> SUFFICES ASSUME CountInv, [PoolNext]_poolVars PROVE CountInv'
  OBVIOUS
<1>1. ASSUME NEW done \in BOOLEAN, LoginGame(done) PROVE CountInv'
  <2>0. CanAlloc
    BY <1>1 DEF LoginGame
  <2>a. /\ _pool \in Seq(Nat) /\ Len(_pool) >= 2 /\ Head(_pool) = _pool[1]
        /\ Tail(AfterFirstPop) \in Seq(Nat)
        /\ Len(Tail(AfterFirstPop)) = Len(_pool) - 2
    BY <2>0, LoginPool
  <2>1. /\ Tail(AfterFirstPop) \in Seq(Nat)
        /\ Len(Tail(AfterFirstPop)) = Len(_pool) - 2
        /\ Len(_pool) \in Nat /\ Head(_pool) \in Nat
    BY <2>a
  <2>2. /\ _pool' \in Seq(Nat) /\ Len(_pool') = Len(_pool) - 2
        /\ _dbid' = _dbid + 2 /\ broken' = broken /\ broken = FALSE
    BY <1>1, <2>1 DEF LoginGame, CountInv, Shape
  <2>3. DOMAIN UsedWith(Head(_pool)) \subseteq 1.._dbid'
    BY <2>2 DEF UsedWith, CountInv, Shape
  <2>4. CASE done
    <3>0. _frees' = Append(_frees, Head(_pool)) /\ _frees \in Seq(Nat)
      BY <1>1, <2>4 DEF LoginGame, CountInv, Shape
    <3>1. _frees' \in Seq(Nat) /\ Len(_frees') = Len(_frees) + 1
      BY <2>1, <3>0
    <3>2. completed' = completed + 1 /\ early' = early
      BY <1>1, <2>4 DEF LoginGame
    <3>3. DOMAIN _used' \subseteq 1.._dbid'
      BY <1>1, <2>3, <2>4 DEF LoginGame, Erase
    <3>4. Shape'
      BY <2>2, <3>1, <3>2, <3>3 DEF CountInv, Shape
    <3>5. Conserved'
      BY <2>1, <2>2, <3>0, <3>1, <3>2 DEF CountInv, Shape, Conserved
    <3> QED
      BY <3>4, <3>5 DEF CountInv
  <2>5. CASE ~done
    <3>1. _frees' = _frees /\ completed' = completed /\ early' = early + 1
      BY <1>1, <2>5 DEF LoginGame
    <3>2. DOMAIN _used' \subseteq 1.._dbid'
      BY <1>1, <2>3, <2>5 DEF LoginGame
    <3>4. Shape'
      BY <2>2, <3>1, <3>2 DEF CountInv, Shape
    <3>5. Conserved'
      BY <2>1, <2>2, <3>1 DEF CountInv, Shape, Conserved
    <3> QED
      BY <3>4, <3>5 DEF CountInv
  <2> QED
    BY <2>4, <2>5
<1>2. CASE AllocFails
  <2>1. Len(_pool) <= 1
    <3>1. CASE _pool = <<>>
      BY <3>1
    <3>2. CASE _pool # <<>>
      <4>1. Tail(_pool) = <<>>
        BY <1>2, <3>2, NoRefill DEF AllocFails, CanAlloc
      <4>2. _pool \in Seq(Nat)
        BY DEF CountInv, Shape
      <4>3. Len(Tail(_pool)) = Len(_pool) - 1 /\ Len(_pool) \in Nat
        BY <4>2, <3>2
      <4>4. Len(Tail(_pool)) = 0
        BY <4>1, EmptySeq, Zenon
      <4> DEFINE m == Len(_pool) t == Len(Tail(_pool))
      <4>5. t = m - 1 /\ m \in Nat /\ t = 0
        BY <4>3, <4>4, Zenon
      <4> HIDE DEF m, t
      <4>6. m <= 1
        BY <4>5
      <4> QED
        BY <4>6 DEF m
    <3> QED
      BY <3>1, <3>2
  <2>2. UNCHANGED <<_pool, _frees, _used, _dbid, completed, early>>
        /\ broken' = TRUE
    BY <1>2 DEF AllocFails
  <2>3. Len(_pool) \in Nat /\ Len(_frees) \in Nat
    BY DEF CountInv, Shape
  <2>4. Shape'
    BY <2>2 DEF CountInv, Shape
  <2>5. Conserved'
    BY <2>1, <2>2, <2>3, PoolAssumption DEF CountInv, Shape, Conserved
  <2> QED
    BY <2>4, <2>5 DEF CountInv
<1>3. CASE Update
  <2>1. _pool' \in Seq(Nat) /\ Len(_pool') = Len(_pool) + Len(_frees)
    BY <1>3 DEF Update, CountInv, Shape
  <2>2. _frees' \in Seq(Nat) /\ Len(_frees') = 0
    BY <1>3 DEF Update
  <2>3. UNCHANGED <<_used, _dbid, completed, early, broken>> /\ broken = FALSE
    BY <1>3 DEF Update, CountInv, Shape
  <2> QED
    BY <2>1, <2>2, <2>3, PoolAssumption DEF CountInv, Shape, Conserved
<1>4. CASE UNCHANGED poolVars
  BY <1>4 DEF poolVars, CountInv, Shape, Conserved
<1> QED
  BY <1>1, <1>2, <1>3, <1>4 DEF PoolNext

LEMMA CountInit == PoolInit => CountInv
<1> SUFFICES ASSUME PoolInit PROVE CountInv
  OBVIOUS
<1>1. _pool \in Seq(Nat) /\ Len(_pool) = PoolSize
  BY PoolAssumption DEF PoolInit
<1>2. _frees \in Seq(Nat) /\ Len(_frees) = 0 /\ DOMAIN _used \subseteq 1.._dbid
  BY DEF PoolInit
<1>3. completed = 0 /\ early = 0 /\ _dbid = 0 /\ broken = FALSE
  BY DEF PoolInit
<1>4. Shape
  <2>1. broken \in BOOLEAN
    BY <1>3
  <2> QED
    BY <1>1, <1>2, <1>3, <2>1 DEF Shape
<1>5. Conserved
  BY <1>1, <1>2, <1>3, PoolAssumption DEF Conserved
<1> QED
  BY <1>4, <1>5 DEF CountInv

(* Every log-in costs the pool one item for good and every early return    *)
(* two; Alloc fails exactly when they are used up.  For the pool of 64     *)
(* this is the 64th log-in at the latest.                                  *)
THEOREM PoolConserved == PoolSpec => []Conserved
<1>1. CountInv => Conserved
  BY DEF CountInv
<1> QED
  BY <1>1, CountInit, CountStep, PTL DEF PoolSpec

(* The items one by one: pool and frees hold different items, each once,   *)
(* and the coroutine of an item exists as long as it is in _frees.         *)
ItemInv ==
    /\ ReusedAfterDestroyed
    /\ \A i \in DOMAIN _frees : _frees[i] \in alive
    /\ \A i, j \in DOMAIN _frees : _frees[i] = _frees[j] => i = j

LEMMA ItemStep == CountInv /\ ItemInv /\ [PoolNext]_poolVars => ItemInv'
<1> SUFFICES ASSUME CountInv, ItemInv, [PoolNext]_poolVars PROVE ItemInv'
  OBVIOUS
<1> USE DEF ItemInv, ReusedAfterDestroyed
<1>t. /\ _pool \in Seq(Nat) /\ _frees \in Seq(Nat)
      /\ Len(_pool) \in Nat /\ Len(_frees) \in Nat
      /\ DOMAIN _pool = 1..Len(_pool) /\ DOMAIN _frees = 1..Len(_frees)
  BY DEF CountInv, Shape
<1>1. ASSUME NEW done \in BOOLEAN, LoginGame(done) PROVE ItemInv'
  <2> DEFINE p == _pool[1]
  <2>1. /\ Len(_pool) >= 2 /\ Head(_pool) = p
        /\ Tail(AfterFirstPop) \in Seq(Nat)
        /\ Len(Tail(AfterFirstPop)) = Len(_pool) - 2
        /\ \A i \in 1..Len(_pool) - 2 : Tail(AfterFirstPop)[i] = _pool[i + 2]
    BY <1>1, LoginPool DEF LoginGame
  <2>2. /\ _pool' = Tail(AfterFirstPop) /\ alive' = alive \union {p}
    BY <1>1, <2>1 DEF LoginGame
  <2>3. /\ DOMAIN _pool' = 1..Len(_pool) - 2
        /\ \A i \in DOMAIN _pool' : _pool'[i] = _pool[i + 2]
    BY <2>1, <2>2
  <2>4. ReusedAfterDestroyed'
    <3>1. \A i \in DOMAIN _pool' : i + 2 \in DOMAIN _pool /\ i + 2 # 1
      BY <2>3, <1>t
    <3>2. 1 \in DOMAIN _pool
      BY <2>1, <1>t
    <3>3. \A i \in DOMAIN _pool' : _pool'[i] \notin alive'
      BY <2>2, <2>3, <3>1, <3>2
    <3>4. ASSUME NEW i \in DOMAIN _pool', NEW j \in DOMAIN _pool',
                 _pool'[i] = _pool'[j]
          PROVE  i = j
      <4>1. i + 2 = j + 2
        BY <2>3, <3>1, <3>4
      <4>2. i \in Nat /\ j \in Nat
        BY <2>3
      <4> QED
        BY <4>1, <4>2
    <3> QED
      BY <3>3, <3>4
  <2>5. CASE done
    <3>1. _frees' = Append(_frees, p)
      BY <1>1, <2>1, <2>5 DEF LoginGame
    <3>2. /\ DOMAIN _frees' = 1..Len(_frees) + 1
          /\ _frees'[Len(_frees) + 1] = p
          /\ \A i \in 1..Len(_frees) : _frees'[i] = _frees[i]
      BY <3>1, <1>t
    <3>0. 1 \in DOMAIN _pool
      BY <2>1, <1>t
    <3>3. p \notin alive
      BY <3>0
    <3>4. \A i \in DOMAIN _frees' : i \in 1..Len(_frees) \/ i = Len(_frees) + 1
      BY <3>2, <1>t
    <3>5. \A i \in DOMAIN _frees' : _frees'[i] \in alive'
      BY <2>2, <3>2, <3>4, <1>t
    <3>6. \A i, j \in DOMAIN _frees' : _frees'[i] = _frees'[j] => i = j
      BY <3>2, <3>3, <3>4, <1>t
    <3> QED
      BY <2>4, <3>5, <3>6
  <2>6. CASE ~done
    BY <1>1, <2>2, <2>4, <2>6 DEF LoginGame
  <2> QED
    BY <2>5, <2>6
<1>2. CASE AllocFails
  BY <1>2 DEF AllocFails
<1>3. CASE Update
  <2> DEFINE n == Len(_pool)
             m == Len(_frees)
             back == {_frees[i] : i \in DOMAIN _frees}
  <2>1. /\ _pool' = _pool \o _frees /\ _frees' = <<>>
        /\ alive' = alive \ back
    BY <1>3 DEF Update
  <2>2. /\ DOMAIN _pool' = 1..n + m
        /\ \A i \in 1..n : _pool'[i] = _pool[i]
        /\ \A i \in n + 1..n + m : _pool'[i] = _frees[i - n] /\ i - n \in 1..m
    BY <2>1, <1>t
  <2>3. \A i \in DOMAIN _pool' : i \in 1..n \/ i \in n + 1..n + m
    BY <2>2, <1>t
  <2>4. \A i \in DOMAIN _pool' : _pool'[i] \notin alive'
    <3> SUFFICES ASSUME NEW i \in DOMAIN _pool' PROVE _pool'[i] \notin alive'
      OBVIOUS
    <3>1. CASE i \in 1..n
      BY <3>1, <2>1, <2>2, <1>t
    <3>2. CASE i \in n + 1..n + m
      <4>1. _pool'[i] = _frees[i - n] /\ i - n \in 1..m
        BY <3>2, <2>2
      <4>2. i - n \in DOMAIN _frees
        BY <4>1, <1>t
      <4>3. _pool'[i] \in back
        BY <4>1, <4>2
      <4> QED
        BY <4>3, <2>1
    <3> QED
      BY <2>3, <3>1, <3>2
  <2>5. ASSUME NEW i \in DOMAIN _pool', NEW j \in DOMAIN _pool',
               _pool'[i] = _pool'[j]
        PROVE  i = j
    <3> HIDE DEF n, m
    <3>0. n \in Nat /\ m \in Nat
      BY <1>t DEF n, m
    <3>1. CASE i \in 1..n /\ j \in 1..n
      BY <3>1, <2>2, <2>5, <1>t DEF n
    <3>2. CASE i \in 1..n /\ j \in n + 1..n + m
      <4>1. _pool'[i] \notin alive /\ _pool'[j] \in alive
        BY <3>2, <2>2, <1>t DEF n, m
      <4> QED
        BY <4>1, <2>5
    <3>3. CASE j \in 1..n /\ i \in n + 1..n + m
      <4>1. _pool'[j] \notin alive /\ _pool'[i] \in alive
        BY <3>3, <2>2, <1>t DEF n, m
      <4> QED
        BY <4>1, <2>5
    <3>4. CASE i \in n + 1..n + m /\ j \in n + 1..n + m
      <4>1. i - n = j - n
        BY <3>4, <2>2, <2>5, <1>t DEF m
      <4> QED
        BY <4>1, <3>0, <3>4
    <3> QED
      BY <2>3, <3>1, <3>2, <3>3, <3>4
  <2>6. DOMAIN _frees' = {}
    BY <2>1
  <2> QED
    BY <2>4, <2>5, <2>6
<1>4. CASE UNCHANGED poolVars
  BY <1>4 DEF poolVars
<1> QED
  BY <1>1, <1>2, <1>3, <1>4 DEF PoolNext

(* No coroutine is built over one that still exists, however log-ins,      *)
(* early returns and update() follow each other.                           *)
THEOREM PoolReuse == PoolSpec => []ReusedAfterDestroyed
<1>1. PoolInit => ItemInv
  BY PoolAssumption DEF PoolInit, ItemInv, ReusedAfterDestroyed
<1>2. ItemInv => ReusedAfterDestroyed
  BY DEF ItemInv
<1> QED
  BY <1>1, <1>2, CountInit, CountStep, ItemStep, PTL DEF PoolSpec
=============================================================================
