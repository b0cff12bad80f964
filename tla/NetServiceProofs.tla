-------------------------- MODULE NetServiceProofs --------------------------
(***************************************************************************)
(* Proofs about NetService: its type invariant, and that no connection is  *)
(* reported twice or closed while it is being read.  The strengthening     *)
(* says where a connection that is not reported yet can be: a connection   *)
(* is in at most one place of one of the two vectors of broken ones, and   *)
(* only after its chain of reads has ended.                                *)
(***************************************************************************)
EXTENDS NetService, SequenceTheorems, TLAPS

(* Pushing an element that is not there keeps a vector free of repetition. *)
LEMMA AppendDistinct ==
    ASSUME NEW S, NEW s \in Seq(S), NEW e \in S,
           Distinct(s), e \notin Elements(s)
    PROVE  /\ Distinct(Append(s, e))
           /\ Elements(Append(s, e)) = Elements(s) \union {e}
<1>1. /\ Append(s, e) \in Seq(S)
      /\ Len(Append(s, e)) = Len(s) + 1
      /\ DOMAIN Append(s, e) = 1..(Len(s) + 1)
      /\ DOMAIN s = 1..Len(s)
      /\ \A i \in 1..Len(s) : Append(s, e)[i] = s[i]
      /\ Append(s, e)[Len(s) + 1] = e
      /\ Len(s) \in Nat
  OBVIOUS
<1>2. Distinct(Append(s, e))
  <2>1. SUFFICES ASSUME NEW i \in 1..(Len(s) + 1), NEW j \in 1..(Len(s) + 1),
                        Append(s, e)[i] = Append(s, e)[j]
                 PROVE  i = j
    BY <1>1 DEF Distinct
  <2>2. \A k \in 1..(Len(s) + 1) : k \in 1..Len(s) \/ k = Len(s) + 1
    BY <1>1
  <2>3. \A k \in 1..Len(s) : s[k] # e
    BY <1>1 DEF Elements
  <2> QED BY <1>1, <2>1, <2>2, <2>3 DEF Distinct
<1>3. Elements(Append(s, e)) = Elements(s) \union {e}
  <2>1. \A k \in 1..(Len(s) + 1) : k \in 1..Len(s) \/ k = Len(s) + 1
    BY <1>1
  <2>2. \A k \in 1..Len(s) : k \in 1..(Len(s) + 1)
    BY <1>1
  <2>3. Len(s) + 1 \in 1..(Len(s) + 1)
    BY <1>1
  <2> QED BY <1>1, <2>1, <2>2, <2>3 DEF Elements
<1> QED BY <1>2, <1>3

(* Taking the first element of a vector without repetition takes it out. *)
LEMMA TailDistinct ==
    ASSUME NEW S, NEW s \in Seq(S), s # <<>>, Distinct(s)
    PROVE  /\ Distinct(Tail(s))
           /\ Head(s) \in Elements(s)
           /\ Head(s) \notin Elements(Tail(s))
           /\ Elements(Tail(s)) \subseteq Elements(s)
<1>1. /\ Len(s) \in Nat /\ Len(s) >= 1
      /\ DOMAIN s = 1..Len(s)
      /\ Tail(s) \in Seq(S)
      /\ DOMAIN Tail(s) = 1..(Len(s) - 1)
      /\ \A i \in 1..(Len(s) - 1) : Tail(s)[i] = s[i + 1]
      /\ Head(s) = s[1]
  OBVIOUS
<1>2. \A i \in 1..(Len(s) - 1) : i + 1 \in 1..Len(s) /\ i + 1 # 1
  BY <1>1
<1>3. 1 \in 1..Len(s)
  BY <1>1
<1>4. Distinct(Tail(s))
  <2>1. SUFFICES ASSUME NEW i \in 1..(Len(s) - 1), NEW j \in 1..(Len(s) - 1),
                        Tail(s)[i] = Tail(s)[j]
                 PROVE  i = j
    BY <1>1 DEF Distinct
  <2>2. i + 1 = j + 1
    BY <1>1, <1>2, <2>1 DEF Distinct
  <2> QED BY <2>2, <1>1
<1>5. Head(s) \notin Elements(Tail(s))
  BY <1>1, <1>2, <1>3 DEF Elements, Distinct
<1> QED BY <1>1, <1>2, <1>3, <1>4, <1>5 DEF Elements

(* An empty list repeats nothing and holds nothing. *)
LEMMA EmptyDistinct == Distinct(<<>>) /\ Elements(<<>>) = {}
  BY DEF Distinct, Elements

(* Counting a report changes the count of one connection, by one. *)
LEMMA CountUp ==
    ASSUME NEW S, NEW f \in [S -> Nat], NEW c \in S, NEW g,
           g = [f EXCEPT ![c] = @ + 1]
    PROVE  /\ g \in [S -> Nat]
           /\ g[c] = f[c] + 1
           /\ \A d \in S : d # c => g[d] = f[d]
<1>1. f[c] + 1 \in Nat
  OBVIOUS
<1> QED BY <1>1

-----------------------------------------------------------------------------
(* Every step keeps the types: the vectors only ever hold connections that *)
(* were accepted and packs numbered by their connection.                   *)
LEMMA TypeStep == TypeOK /\ [Next]_vars => TypeOK'
<1> SUFFICES ASSUME TypeOK, [Next]_vars PROVE TypeOK'
  OBVIOUS
<1> USE MaxPackAssumption
<1>1. ASSUME NEW c \in Conn, OnAccept(c) PROVE TypeOK'
  BY <1>1 DEF TypeOK, OnAccept, queueVars, mainVars, obsVars, ReaderStates,
              Reading, Waiting
<1>2. ASSUME NEW c \in Conn, PushNewConnect(c) PROVE TypeOK'
  <2>1. newConnect' \in Seq(Conn)
    BY <1>2, AppendProperties DEF TypeOK, PushNewConnect
  <2> QED BY <1>2, <2>1 DEF TypeOK, PushNewConnect, sockVars, mainVars, obsVars
<1>3. ASSUME NEW c \in Conn, PeerClose(c) PROVE TypeOK'
  BY <1>3 DEF TypeOK, PeerClose, sockVars, queueVars, mainVars, obsVars
<1>4. ASSUME NEW c \in Conn, NEW from, NEW to \in ReaderStates,
             KeepReading(c, from, to)
      PROVE  TypeOK'
  <2>1. reader' \in [Conn -> ReaderStates]
    BY <1>4 DEF TypeOK, KeepReading, AskFor, ReaderStates
  <2> QED BY <1>4, <2>1 DEF TypeOK, KeepReading, sockVars, queueVars,
                            mainVars, obsVars
<1>5. ASSUME NEW c \in Conn, OnBreak(c) PROVE TypeOK'
  <2>1. newDisConnect' \in Seq(Conn)
    BY <1>5, AppendProperties DEF TypeOK, OnBreak
  <2>2. reader' \in [Conn -> ReaderStates]
    BY <1>5 DEF TypeOK, OnBreak, ReaderStates
  <2> QED BY <1>5, <2>1, <2>2 DEF TypeOK, OnBreak, sockVars, mainVars, obsVars
<1>6. ASSUME NEW c \in Conn, GetNetPack(c), reader' \in [Conn -> ReaderStates]
      PROVE  TypeOK'
  <2>0. /\ received \in [Conn -> 0..MaxPack] /\ received[c] < MaxPack
        /\ received' = [received EXCEPT ![c] = @ + 1]
    BY <1>6 DEF TypeOK, GetNetPack
  <2>1. received[c] + 1 \in 1..MaxPack
    BY <2>0
  <2>2. received' \in [Conn -> 0..MaxPack]
    BY <2>0, <2>1
  <2>3. <<c, received[c] + 1>> \in Pack
    BY <2>1 DEF Pack
  <2>4. NetPackVector' \in Seq(Pack)
    BY <1>6, <2>3, AppendProperties DEF TypeOK, GetNetPack
  <2> QED BY <1>6, <2>2, <2>4 DEF TypeOK, GetNetPack, sockVars, mainVars,
                                  obsVars
<1>7. ASSUME NEW c \in Conn, ReadHandler(c) PROVE TypeOK'
  <2>1. CASE OnHandShake(c)
    BY <2>1, <1>4, <1>5 DEF OnHandShake, ReaderStates, Reading, Waiting
  <2>2. CASE ReadReadyHead(c)
    BY <2>2, <1>4, <1>5 DEF ReadReadyHead, ReaderStates, Reading, Waiting
  <2>3. CASE ReadReadyBody(c)
    <3>1. reader' \in [Conn -> ReaderStates]
      BY <2>3 DEF TypeOK, ReadReadyBody, AskFor, ReaderStates, Reading, Waiting
    <3> QED BY <2>3, <3>1, <1>6 DEF ReadReadyBody
  <2>4. CASE ReadWebPackHeadReady(c)
    BY <2>4, <1>4, <1>5 DEF ReadWebPackHeadReady, ReaderStates, Reading,
                            Waiting
  <2>5. CASE ReadWebPackHeadBodyReady(c)
    BY <2>5, <1>4 DEF ReadWebPackHeadBodyReady, ReaderStates, Reading, Waiting
  <2>6. CASE ReadWebPackDataReady(c)
    BY <2>6 DEF TypeOK, ReadWebPackDataReady, ReaderStates, Reading, Waiting,
                sockVars, queueVars, mainVars, obsVars
  <2>7. CASE CutWebPacks(c)
    <3>1. CASE GetNetPack(c) /\ UNCHANGED reader
      BY <3>1, <1>6 DEF TypeOK
    <3>2. CASE KeepReading(c, "webPacks", "webHead")
      BY <3>2, <1>4 DEF ReaderStates, Reading, Waiting
    <3> QED BY <2>7, <3>1, <3>2, <1>5 DEF CutWebPacks
  <2>8. CASE ReadError(c)
    BY <2>8, <1>5 DEF ReadError
  <2> QED BY <1>7, <2>1, <2>2, <2>3, <2>4, <2>5, <2>6, <2>7, <2>8
          DEF ReadHandler
<1>8. ASSUME NEW c \in Conn, handle_close(c) PROVE TypeOK'
  BY <1>8 DEF TypeOK, handle_close, connVars, queueVars, mainVars, obsVars
<1>9. ASSUME NEW cs, CloseSocket(cs)
      PROVE  /\ bClose' \in [Conn -> BOOLEAN]
             /\ closePosted' \in [Conn -> BOOLEAN]
  <2>1. \A c \in Conn : bClose[c] \in BOOLEAN /\ closePosted[c] \in BOOLEAN
    BY DEF TypeOK
  <2> QED BY <1>9, <2>1 DEF CloseSocket
<1>10. CASE Update
  <2>1. CASE TakeConnects
    BY <2>1 DEF TypeOK, TakeConnects, connVars, sockVars, obsVars, Phases
  <2>2. CASE NotifyConnect
    <3>1. /\ Head(tmp_newConnect) \in Conn
          /\ Tail(tmp_newConnect) \in Seq(Conn)
      BY <2>2, HeadTailProperties DEF TypeOK, NotifyConnect
    <3>2. onConnect' \in [Conn -> Nat]
      <4>1. PICK h \in Conn : onConnect' = [onConnect EXCEPT ![h] = @ + 1]
        BY <2>2, <3>1 DEF NotifyConnect
      <4> QED BY <4>1, CountUp DEF TypeOK
    <3> QED BY <2>2, <3>1, <3>2 DEF TypeOK, NotifyConnect, connVars, sockVars,
                                    queueVars
  <2>3. CASE TakePacks
    BY <2>3 DEF TypeOK, TakePacks, connVars, sockVars, obsVars, Phases
  <2>4. CASE FireMessage
    <3> DEFINE p == Head(NetPackVectorTemp)
    <3>1. p \in Pack /\ Tail(NetPackVectorTemp) \in Seq(Pack)
      BY <2>4, HeadTailProperties DEF TypeOK, FireMessage
    <3>2. p[1] \in Conn /\ p[2] \in 1..MaxPack
      BY <3>1 DEF Pack
    <3>3. Append(fired[p[1]], p[2]) \in Seq(1..MaxPack)
      BY <3>2, AppendProperties DEF TypeOK
    <3>4. fired' \in [Conn -> Seq(1..MaxPack)]
      BY <2>4, <3>2, <3>3 DEF TypeOK, FireMessage
    <3> QED BY <2>4, <3>1, <3>4 DEF TypeOK, FireMessage, connVars, sockVars,
                                    queueVars
  <2>5. CASE TakeDisConnects
    <3>1. drained' \in [Conn -> BOOLEAN]
      BY <2>5 DEF TypeOK, TakeDisConnects
    <3> QED BY <2>5, <3>1 DEF TypeOK, TakeDisConnects, connVars, sockVars,
                              Phases
  <2>6. CASE NotifyDisConnect
    <3>1. /\ Head(tmp_newDisConnect) \in Conn
          /\ Tail(tmp_newDisConnect) \in Seq(Conn)
      BY <2>6, HeadTailProperties DEF TypeOK, NotifyDisConnect
    <3>2. /\ bClose' \in [Conn -> BOOLEAN]
          /\ closePosted' \in [Conn -> BOOLEAN]
      BY <2>6, <1>9 DEF NotifyDisConnect
    <3>3. onDisConnect' \in [Conn -> Nat]
      <4>1. PICK h \in Conn : onDisConnect' = [onDisConnect EXCEPT ![h] = @ + 1]
        BY <2>6, <3>1 DEF NotifyDisConnect
      <4> QED BY <4>1, CountUp DEF TypeOK
    <3> QED BY <2>6, <3>1, <3>2, <3>3 DEF TypeOK, NotifyDisConnect, connVars,
                                          queueVars
  <2>7. CASE UpdateDone
    BY <2>7 DEF TypeOK, UpdateDone, connVars, sockVars, queueVars, obsVars,
                Phases
  <2> QED BY <1>10, <2>1, <2>2, <2>3, <2>4, <2>5, <2>6, <2>7 DEF Update
<1>11. CASE stop
  <2>1. CASE StopAccept
    <3>1. leftover' \subseteq Conn
      <4>1. ASSUME NEW v \in Seq(Conn) PROVE Elements(v) \subseteq Conn
        BY DEF Elements
      <4>2. newConnect \in Seq(Conn) /\ newDisConnect \in Seq(Conn)
        BY DEF TypeOK
      <4>3. Elements(newConnect) \subseteq Conn /\ Elements(newDisConnect) \subseteq Conn
        BY <4>1, <4>2
      <4> QED BY <2>1, <4>3 DEF StopAccept
    <3> QED BY <2>1, <3>1 DEF TypeOK, StopAccept, sockVars, queueVars, Phases, Leaving
  <2>2. ASSUME NEW v, NEW from, NEW to \in Phases, StopWalk(v, from, to) PROVE TypeOK'
    <3>1. /\ bClose' \in [Conn -> BOOLEAN]
          /\ closePosted' \in [Conn -> BOOLEAN]
      BY <2>2, <1>9 DEF StopWalk, TypeOK
    <3>2. walked' \in Nat /\ phase' \in Phases
      BY <2>2 DEF StopWalk, TypeOK
    <3> QED BY <2>2, <3>1, <3>2 DEF TypeOK, StopWalk, connVars, queueVars, obsVars
  <2>3. CASE StopClearNew
    BY <2>3, SMTT(30) DEF TypeOK, StopClearNew, connVars, sockVars, obsVars, Phases, Leaving
  <2>4. CASE StopClearBroken
    BY <2>4 DEF TypeOK, StopClearBroken, connVars, sockVars, obsVars, Phases, Leaving
  <2>5. CASE StopPool
    BY <2>5 DEF TypeOK, StopPool, connVars, sockVars, queueVars, obsVars, Phases, Leaving
  <2> QED BY <1>11, <2>1, <2>2, <2>3, <2>4, <2>5 DEF stop, Phases, Leaving
<1>12. ASSUME NEW c \in Conn, OnAcceptThrows(c) PROVE TypeOK'
  BY <1>12 DEF TypeOK, OnAcceptThrows, connVars, sockVars, queueVars, obsVars, Phases, Leaving
<1>13. CASE UNCHANGED vars
  BY <1>13 DEF TypeOK, vars, connVars, sockVars, queueVars, mainVars, obsVars
<1> QED BY <1>1, <1>2, <1>3, <1>7, <1>8, <1>10, <1>11, <1>12, <1>13 DEF Next

(* The type invariant of NetService holds in every reachable state, for    *)
(* any set of connections and any number of packs.                         *)
THEOREM TypeCorrect == Spec => []TypeOK
<1>1. Init => TypeOK
  BY MaxPackAssumption DEF Init, TypeOK, ReaderStates, Phases
<1> QED BY <1>1, TypeStep, PTL DEF Spec

-----------------------------------------------------------------------------
(* Every step keeps the strengthened invariant.  The steps that change no  *)
(* vector and no count are settled together; each of the others moves one  *)
(* connection one place further.                                           *)
LEMMA ReportStep ==
    NetServiceInv /\ [Next]_vars => BrokenOnce' /\ NewOnce' /\ ReportedOnce'
<1> SUFFICES ASSUME NetServiceInv, [Next]_vars
             PROVE  BrokenOnce' /\ NewOnce' /\ ReportedOnce'
  OBVIOUS
<1> DEFINE Goal == BrokenOnce' /\ NewOnce' /\ ReportedOnce'
<1>t. TypeOK
  BY DEF NetServiceInv
(* A step that moves a chain of reads that neither starts nor breaks.      *)
<1>0. ASSUME UNCHANGED <<newConnect, tmp_newConnect, registering, onConnect,
                         newDisConnect, tmp_newDisConnect, onDisConnect>>,
             \A c \in Conn : (reader[c] = "none") = (reader'[c] = "none"),
             \A c \in Conn : reader[c] = "broken" => reader'[c] = "broken"
      PROVE  Goal
  <2>1. /\ Elements(newConnect) \subseteq Conn
        /\ Elements(tmp_newConnect) \subseteq Conn
        /\ Elements(newDisConnect) \subseteq Conn
        /\ Elements(tmp_newDisConnect) \subseteq Conn
        /\ registering \subseteq Conn
    BY <1>t, ElementOfSeq DEF TypeOK, Elements
  <2> QED BY <1>0, <2>1 DEF NetServiceInv, BrokenOnce, NewOnce, ReportedOnce,
                            Elements, Distinct
<1>q. /\ Elements(newConnect) \subseteq Conn
      /\ Elements(tmp_newConnect) \subseteq Conn
      /\ Elements(newDisConnect) \subseteq Conn
      /\ Elements(tmp_newDisConnect) \subseteq Conn
  BY <1>t, ElementOfSeq DEF TypeOK, Elements
<1>1. ASSUME NEW c \in Conn, OnAccept(c) PROVE Goal
  <2>1. /\ reader[c] = "none" /\ registering = {} /\ registering' = {c}
        /\ reader' = [reader EXCEPT ![c] = "handshake"]
        /\ UNCHANGED <<newConnect, tmp_newConnect, onConnect, newDisConnect,
                       tmp_newDisConnect, onDisConnect>>
    BY <1>1 DEF OnAccept, queueVars, mainVars, obsVars
  <2>2. reader'[c] = "handshake" /\ \A d \in Conn \ {c} : reader'[d] = reader[d]
    BY <2>1, <1>t DEF TypeOK
  <2>3. /\ c \notin Elements(newConnect) /\ c \notin Elements(tmp_newConnect)
        /\ c \notin Elements(newDisConnect)
        /\ c \notin Elements(tmp_newDisConnect)
        /\ ~(onConnect[c] > 0) /\ ~(onDisConnect[c] > 0)
    BY <2>1 DEF NetServiceInv, NewOnce, BrokenOnce
  <2>4. onConnect[c] = 0
    BY <2>3, <1>t DEF TypeOK
  <2>5. BrokenOnce'
    BY <2>1, <2>2, <2>3, <1>q DEF NetServiceInv, BrokenOnce, Elements, Distinct
  <2>6. NewOnce'
    BY <2>1, <2>2, <2>3, <2>4, <1>q
       DEF NetServiceInv, NewOnce, Elements, Distinct
  <2> QED BY <2>1, <2>5, <2>6 DEF NetServiceInv, ReportedOnce
<1>2. ASSUME NEW c \in Conn, PushNewConnect(c) PROVE Goal
  <2>1. /\ c \in registering /\ registering' = registering \ {c}
        /\ newConnect' = Append(newConnect, c)
        /\ UNCHANGED <<reader, tmp_newConnect, onConnect, newDisConnect,
                       tmp_newDisConnect, onDisConnect>>
    BY <1>2 DEF PushNewConnect, mainVars, obsVars
  <2>2. c \notin Elements(newConnect) /\ c \notin Elements(tmp_newConnect)
    BY <2>1 DEF NetServiceInv, NewOnce
  <2>3. /\ Distinct(newConnect)'
        /\ Elements(newConnect)' = Elements(newConnect) \union {c}
    <3>1. Distinct(newConnect) /\ newConnect \in Seq(Conn)
      BY <1>t DEF NetServiceInv, NewOnce, TypeOK
    <3>2. /\ Distinct(Append(newConnect, c))
          /\ Elements(Append(newConnect, c)) = Elements(newConnect) \union {c}
      BY <3>1, <2>2, AppendDistinct
    <3> QED BY <3>2, <2>1 DEF Distinct, Elements
  <2>4. Elements(tmp_newConnect)' = Elements(tmp_newConnect)
    BY <2>1 DEF Elements
  <2>5. NewOnce'
    BY <2>1, <2>2, <2>3, <2>4 DEF NetServiceInv, NewOnce, Distinct
  <2>6. BrokenOnce'
    BY <2>1 DEF NetServiceInv, BrokenOnce, Distinct, Elements
  <2> QED BY <2>1, <2>5, <2>6 DEF NetServiceInv, ReportedOnce
<1>3. ASSUME NEW c \in Conn, OnBreak(c), reader[c] \in Reading PROVE Goal
  <2>1. /\ newDisConnect' = Append(newDisConnect, c)
        /\ reader' = [reader EXCEPT ![c] = "broken"]
        /\ UNCHANGED <<registering, newConnect, tmp_newConnect, onConnect,
                       tmp_newDisConnect, onDisConnect>>
    BY <1>3 DEF OnBreak, mainVars, obsVars
  <2>2. reader[c] # "none" /\ reader[c] # "broken"
    BY <1>3 DEF Reading, Waiting
  <2>3. reader'[c] = "broken" /\ \A d \in Conn \ {c} : reader'[d] = reader[d]
    BY <2>1, <1>t DEF TypeOK
  <2>4. /\ c \notin Elements(newDisConnect)
        /\ c \notin Elements(tmp_newDisConnect)
        /\ ~(onDisConnect[c] > 0)
    BY <2>2 DEF NetServiceInv, BrokenOnce
  <2>5. onDisConnect[c] = 0
    BY <2>4, <1>t DEF TypeOK
  <2>6. /\ Distinct(newDisConnect)'
        /\ Elements(newDisConnect)' = Elements(newDisConnect) \union {c}
    <3>1. Distinct(newDisConnect) /\ newDisConnect \in Seq(Conn)
      BY <1>t DEF NetServiceInv, BrokenOnce, TypeOK
    <3>2. /\ Distinct(Append(newDisConnect, c))
          /\ Elements(Append(newDisConnect, c))
                = Elements(newDisConnect) \union {c}
      BY <3>1, <2>4, AppendDistinct
    <3> QED BY <3>2, <2>1 DEF Distinct, Elements
  <2>7. Elements(tmp_newDisConnect)' = Elements(tmp_newDisConnect)
    BY <2>1 DEF Elements
  <2>8. BrokenOnce'
    BY <2>1, <2>3, <2>4, <2>5, <2>6, <2>7, <1>q
       DEF NetServiceInv, BrokenOnce, Distinct
  <2>9. NewOnce'
    <3>1. registering \subseteq Conn
      BY <1>t DEF TypeOK
    <3> QED BY <2>1, <2>2, <2>3, <1>q, <3>1
               DEF NetServiceInv, NewOnce, Distinct, Elements
  <2> QED BY <2>1, <2>8, <2>9 DEF NetServiceInv, ReportedOnce
<1>4. ASSUME NEW c \in Conn, reader[c] \in Reading, reader'[c] \in Reading \union {"ended"},
             \A d \in Conn \ {c} : reader'[d] = reader[d],
             UNCHANGED <<newConnect, tmp_newConnect, registering, onConnect,
                         newDisConnect, tmp_newDisConnect, onDisConnect>>
      PROVE  Goal
  <2>1. /\ reader[c] # "none" /\ reader[c] # "broken" /\ reader'[c] # "none"
    BY <1>4 DEF Reading, Waiting
  <2> QED BY <1>0, <1>4, <2>1
<1>5. ASSUME NEW c \in Conn, NEW from \in Reading, NEW to \in Reading,
             KeepReading(c, from, to)
      PROVE  Goal
  <2>1. /\ reader'[c] \in Reading \union {"ended"}
        /\ \A d \in Conn \ {c} : reader'[d] = reader[d]
    BY <1>5, <1>t DEF KeepReading, AskFor, TypeOK
  <2> QED BY <1>4, <1>5, <2>1 DEF KeepReading, queueVars, mainVars, obsVars
<1>6. ASSUME NEW c \in Conn, ReadHandler(c) PROVE Goal
  <2>1. CASE OnHandShake(c)
    BY <2>1, <1>3, <1>5 DEF OnHandShake, Reading, Waiting
  <2>2. CASE ReadReadyHead(c)
    BY <2>2, <1>3, <1>5 DEF ReadReadyHead, Reading, Waiting
  <2>3. CASE ReadReadyBody(c)
    <3>1. /\ reader[c] \in Reading
          /\ reader'[c] \in Reading \union {"ended"}
          /\ \A d \in Conn \ {c} : reader'[d] = reader[d]
      BY <2>3, <1>t DEF ReadReadyBody, AskFor, TypeOK, Reading, Waiting
    <3> QED BY <2>3, <3>1, <1>4 DEF ReadReadyBody, GetNetPack, mainVars, obsVars
  <2>4. CASE ReadWebPackHeadReady(c)
    BY <2>4, <1>3, <1>5 DEF ReadWebPackHeadReady, Reading, Waiting
  <2>5. CASE ReadWebPackHeadBodyReady(c)
    BY <2>5, <1>5 DEF ReadWebPackHeadBodyReady, Reading, Waiting
  <2>6. CASE ReadWebPackDataReady(c)
    <3>1. /\ reader[c] \in Reading
          /\ reader'[c] \in Reading \union {"ended"}
          /\ \A d \in Conn \ {c} : reader'[d] = reader[d]
      BY <2>6, <1>t DEF ReadWebPackDataReady, TypeOK, Reading, Waiting
    <3> QED BY <2>6, <3>1, <1>4
               DEF ReadWebPackDataReady, queueVars, mainVars, obsVars
  <2>7. CASE CutWebPacks(c)
    <3>1. CASE GetNetPack(c) /\ UNCHANGED reader
      BY <3>1, <1>0 DEF GetNetPack, mainVars, obsVars
    <3>2. CASE KeepReading(c, "webPacks", "webHead")
      BY <3>2, <1>5 DEF Reading, Waiting
    <3>3. CASE reader[c] = "webPacks" /\ OnBreak(c)
      BY <3>3, <1>3 DEF Reading
    <3> QED BY <2>7, <3>1, <3>2, <3>3 DEF CutWebPacks
  <2>8. CASE ReadError(c)
    BY <2>8, <1>3 DEF ReadError, Reading
  <2> QED BY <1>6, <2>1, <2>2, <2>3, <2>4, <2>5, <2>6, <2>7, <2>8
          DEF ReadHandler
<1>7. ASSUME NEW c \in Conn, PeerClose(c) \/ handle_close(c) \/ OnAcceptThrows(c)
      PROVE  Goal
  BY <1>0, <1>7 DEF PeerClose, handle_close, OnAcceptThrows, connVars, sockVars,
                    queueVars, mainVars, obsVars
<1>8. CASE TakeConnects
  <2>1. /\ tmp_newConnect' = newConnect /\ newConnect' = <<>>
        /\ UNCHANGED <<reader, registering, onConnect, newDisConnect,
                       tmp_newDisConnect, onDisConnect>>
    BY <1>8 DEF TakeConnects, connVars, obsVars
  <2>2. /\ Distinct(newConnect)' /\ Elements(newConnect)' = {}
        /\ Distinct(tmp_newConnect)' = Distinct(newConnect)
        /\ Elements(tmp_newConnect)' = Elements(newConnect)
    BY <2>1, EmptyDistinct DEF Distinct, Elements
  <2>3. NewOnce'
    BY <2>1, <2>2 DEF NetServiceInv, NewOnce
  <2>4. BrokenOnce'
    BY <2>1 DEF NetServiceInv, BrokenOnce, Distinct, Elements
  <2> QED BY <2>1, <2>3, <2>4 DEF NetServiceInv, ReportedOnce
<1>9. CASE TakeDisConnects
  <2>1. /\ tmp_newDisConnect' = newDisConnect /\ newDisConnect' = <<>>
        /\ UNCHANGED <<reader, registering, onConnect, newConnect,
                       tmp_newConnect, onDisConnect>>
    BY <1>9 DEF TakeDisConnects, connVars
  <2>2. /\ Distinct(newDisConnect)' /\ Elements(newDisConnect)' = {}
        /\ Distinct(tmp_newDisConnect)' = Distinct(newDisConnect)
        /\ Elements(tmp_newDisConnect)' = Elements(newDisConnect)
    BY <2>1, EmptyDistinct DEF Distinct, Elements
  <2>3. BrokenOnce'
    BY <2>1, <2>2 DEF NetServiceInv, BrokenOnce
  <2>4. NewOnce'
    BY <2>1 DEF NetServiceInv, NewOnce, Distinct, Elements
  <2> QED BY <2>1, <2>3, <2>4 DEF NetServiceInv, ReportedOnce
<1>10. CASE NotifyConnect
  <2> DEFINE h == Head(tmp_newConnect)
  <2>1. /\ tmp_newConnect # <<>> /\ tmp_newConnect \in Seq(Conn)
        /\ Distinct(tmp_newConnect)
        /\ tmp_newConnect' = Tail(tmp_newConnect)
        /\ onConnect' = [onConnect EXCEPT ![h] = @ + 1]
        /\ UNCHANGED <<reader, registering, newConnect, newDisConnect,
                       tmp_newDisConnect, onDisConnect>>
    BY <1>10, <1>t DEF NotifyConnect, connVars, queueVars, TypeOK,
                       NetServiceInv, NewOnce
  <2>2. /\ Distinct(Tail(tmp_newConnect))
        /\ h \in Elements(tmp_newConnect)
        /\ h \notin Elements(Tail(tmp_newConnect))
        /\ Elements(Tail(tmp_newConnect)) \subseteq Elements(tmp_newConnect)
    BY <2>1, TailDistinct
  <2> HIDE DEF h
  <2>3. h \in Conn
    BY <2>2, <1>q
  <2>4. /\ onConnect'[h] = onConnect[h] + 1
        /\ \A d \in Conn : d # h => onConnect'[d] = onConnect[d]
    BY <2>1, <2>3, <1>t, CountUp DEF TypeOK
  <2>5. onConnect[h] = 0 /\ reader[h] # "none"
    BY <2>2 DEF NetServiceInv, NewOnce
  <2>6. /\ Distinct(tmp_newConnect)'
        /\ Elements(tmp_newConnect)' = Elements(Tail(tmp_newConnect))
        /\ Distinct(newConnect)' = Distinct(newConnect)
        /\ Elements(newConnect)' = Elements(newConnect)
    BY <2>1, <2>2 DEF Distinct, Elements
  <2>7. NewOnce'
    <3>1. registering \subseteq Conn
      BY <1>t DEF TypeOK
    <3> QED BY <2>1, <2>2, <2>3, <2>4, <2>5, <2>6, <1>q, <3>1
               DEF NetServiceInv, NewOnce
  <2>8. BrokenOnce'
    <3>1. BrokenOnce /\ UNCHANGED <<newDisConnect, tmp_newDisConnect, reader, onDisConnect>>
      BY <2>1 DEF NetServiceInv
    <3> QED BY <3>1 DEF BrokenOnce, Distinct, Elements
  <2> QED BY <2>1, <2>4, <2>5, <2>7, <2>8 DEF NetServiceInv, ReportedOnce
<1>11. CASE NotifyDisConnect
  <2> DEFINE h == Head(tmp_newDisConnect)
  <2>1. /\ tmp_newDisConnect # <<>> /\ tmp_newDisConnect \in Seq(Conn)
        /\ Distinct(tmp_newDisConnect)
        /\ tmp_newDisConnect' = Tail(tmp_newDisConnect)
        /\ onDisConnect' = [onDisConnect EXCEPT ![h] = @ + 1]
        /\ UNCHANGED <<reader, registering, newConnect, newDisConnect,
                       tmp_newConnect, onConnect>>
    BY <1>11, <1>t DEF NotifyDisConnect, connVars, queueVars, TypeOK,
                       NetServiceInv, BrokenOnce
  <2>2. /\ Distinct(Tail(tmp_newDisConnect))
        /\ h \in Elements(tmp_newDisConnect)
        /\ h \notin Elements(Tail(tmp_newDisConnect))
        /\ Elements(Tail(tmp_newDisConnect)) \subseteq Elements(tmp_newDisConnect)
    BY <2>1, TailDistinct
  <2> HIDE DEF h
  <2>3. h \in Conn
    BY <2>2, <1>q
  <2>4. /\ onDisConnect'[h] = onDisConnect[h] + 1
        /\ \A d \in Conn : d # h => onDisConnect'[d] = onDisConnect[d]
    BY <2>1, <2>3, <1>t, CountUp DEF TypeOK
  <2>5. onDisConnect[h] = 0 /\ reader[h] = "broken"
    BY <2>2 DEF NetServiceInv, BrokenOnce
  <2>6. /\ Distinct(tmp_newDisConnect)'
        /\ Elements(tmp_newDisConnect)' = Elements(Tail(tmp_newDisConnect))
        /\ Distinct(newDisConnect)' = Distinct(newDisConnect)
        /\ Elements(newDisConnect)' = Elements(newDisConnect)
    BY <2>1, <2>2 DEF Distinct, Elements
  <2>7. BrokenOnce'
    BY <2>1, <2>2, <2>3, <2>4, <2>5, <2>6, <1>q DEF NetServiceInv, BrokenOnce
  <2>8. NewOnce'
    <3>1. NewOnce /\ UNCHANGED <<newConnect, tmp_newConnect, registering, reader, onConnect>>
      BY <2>1 DEF NetServiceInv
    <3> QED BY <3>1 DEF NewOnce, Distinct, Elements
  <2> QED BY <2>1, <2>4, <2>5, <2>7, <2>8 DEF NetServiceInv, ReportedOnce
<1>12. CASE TakePacks \/ FireMessage \/ UpdateDone \/ StopAccept \/ StopPool
  BY <1>0, <1>12 DEF TakePacks, FireMessage, UpdateDone, StopAccept, StopPool,
                     connVars, queueVars, obsVars
<1>13. ASSUME NEW v, NEW from, NEW to, StopWalk(v, from, to) PROVE Goal
  BY <1>0, <1>13 DEF StopWalk, connVars, queueVars, obsVars
<1>15. CASE StopClearNew
  <2>1. /\ newConnect' = <<>>
        /\ UNCHANGED <<reader, registering, onConnect, tmp_newConnect, newDisConnect,
                       tmp_newDisConnect, onDisConnect>>
    BY <1>15 DEF StopClearNew, connVars, obsVars
  <2>2. /\ Distinct(newConnect)' /\ Elements(newConnect)' = {}
        /\ Distinct(tmp_newConnect)' = Distinct(tmp_newConnect)
        /\ Elements(tmp_newConnect)' = Elements(tmp_newConnect)
    BY <2>1, EmptyDistinct DEF Distinct, Elements
  <2>3. NewOnce'
    BY <2>1, <2>2 DEF NetServiceInv, NewOnce
  <2>4. BrokenOnce'
    BY <2>1 DEF NetServiceInv, BrokenOnce, Distinct, Elements
  <2> QED BY <2>1, <2>3, <2>4 DEF NetServiceInv, ReportedOnce
<1>16. CASE StopClearBroken
  <2>1. /\ newDisConnect' = <<>>
        /\ UNCHANGED <<reader, registering, onConnect, newConnect, tmp_newConnect,
                       tmp_newDisConnect, onDisConnect>>
    BY <1>16 DEF StopClearBroken, connVars, obsVars
  <2>2. /\ Distinct(newDisConnect)' /\ Elements(newDisConnect)' = {}
        /\ Distinct(tmp_newDisConnect)' = Distinct(tmp_newDisConnect)
        /\ Elements(tmp_newDisConnect)' = Elements(tmp_newDisConnect)
    BY <2>1, EmptyDistinct DEF Distinct, Elements
  <2>3. BrokenOnce'
    BY <2>1, <2>2 DEF NetServiceInv, BrokenOnce
  <2>4. NewOnce'
    BY <2>1 DEF NetServiceInv, NewOnce, Distinct, Elements
  <2> QED BY <2>1, <2>3, <2>4 DEF NetServiceInv, ReportedOnce
<1>14. CASE UNCHANGED vars
  BY <1>0, <1>14 DEF vars, connVars, queueVars, mainVars, obsVars
<1> QED
  <2>1. CASE Next
    BY <2>1, <1>1, <1>2, <1>6, <1>7, <1>8, <1>9, <1>10, <1>11, <1>12, <1>13,
       <1>15, <1>16
       DEF Next, Update, stop
  <2> QED BY <2>1, <1>14

-----------------------------------------------------------------------------
(* Every step keeps LiveNotClosed: only the report of a broken connection  *)
(* calls CloseSocket before stop(), and no chain leaves "broken".          *)
LEMMA LiveStep == NetServiceInv /\ [Next]_vars => LiveNotClosed'
<1> SUFFICES ASSUME NetServiceInv, [Next]_vars PROVE LiveNotClosed'
  OBVIOUS
<1>t. TypeOK
  BY DEF NetServiceInv
<1>0. ASSUME UNCHANGED <<bClose, onDisConnect>>,
             phase' \notin Leaving => phase \notin Leaving,
             \A c \in Conn : reader[c] = "broken" => reader'[c] = "broken"
      PROVE  LiveNotClosed'
  BY <1>0 DEF NetServiceInv, LiveNotClosed
<1>1. ASSUME NEW c \in Conn, OnAccept(c) PROVE LiveNotClosed'
  BY <1>0, <1>1, <1>t DEF OnAccept, mainVars, obsVars, TypeOK
<1>2. ASSUME NEW c \in Conn,
             PushNewConnect(c) \/ PeerClose(c) \/ handle_close(c)
      PROVE  LiveNotClosed'
  BY <1>0, <1>2 DEF PushNewConnect, PeerClose, handle_close, connVars,
                    sockVars, mainVars, obsVars
<1>3. ASSUME NEW c \in Conn, ReadHandler(c) PROVE LiveNotClosed'
  <2>1. UNCHANGED <<bClose, onDisConnect, phase>>
    BY <1>3 DEF ReadHandler, OnHandShake, ReadReadyHead, ReadReadyBody,
                ReadWebPackHeadReady, ReadWebPackHeadBodyReady,
                ReadWebPackDataReady, CutWebPacks, ReadError, KeepReading,
                OnBreak, GetNetPack, sockVars, mainVars, obsVars
  <2>2. \A d \in Conn : reader[d] = "broken" => reader'[d] = "broken"
    BY <1>3, <1>t
       DEF ReadHandler, OnHandShake, ReadReadyHead, ReadReadyBody,
           ReadWebPackHeadReady, ReadWebPackHeadBodyReady,
           ReadWebPackDataReady, CutWebPacks, ReadError, KeepReading,
           OnBreak, AskFor, TypeOK
  <2> QED BY <1>0, <2>1, <2>2
<1>4. CASE \/ TakeConnects \/ NotifyConnect \/ TakePacks \/ FireMessage
           \/ TakeDisConnects \/ UpdateDone
  BY <1>0, <1>4 DEF TakeConnects, NotifyConnect, TakePacks, FireMessage,
                    TakeDisConnects, UpdateDone, connVars, sockVars, obsVars, Leaving
<1>5. CASE NotifyDisConnect
  <2> DEFINE h == Head(tmp_newDisConnect)
  <2>1. /\ tmp_newDisConnect # <<>> /\ tmp_newDisConnect \in Seq(Conn)
        /\ Distinct(tmp_newDisConnect)
        /\ onDisConnect' = [onDisConnect EXCEPT ![h] = @ + 1]
        /\ UNCHANGED <<reader, phase>>
    BY <1>5, <1>t DEF NotifyDisConnect, connVars, TypeOK, NetServiceInv,
                      BrokenOnce
  <2>2. h \in Elements(tmp_newDisConnect)
    BY <2>1, TailDistinct
  <2>3. \A c \in Conn : bClose'[c] => bClose[c] \/ c = h
    BY <1>5 DEF NotifyDisConnect, CloseSocket
  <2> HIDE DEF h
  <2>4. h \in Conn
    BY <2>1, <2>2, ElementOfSeq DEF Elements
  <2>5. /\ onDisConnect'[h] = onDisConnect[h] + 1
        /\ \A d \in Conn : d # h => onDisConnect'[d] = onDisConnect[d]
    BY <2>1, <2>4, <1>t, CountUp DEF TypeOK
  <2>6. onDisConnect[h] = 0 /\ reader[h] = "broken"
    BY <2>2 DEF NetServiceInv, BrokenOnce
  <2> QED BY <2>1, <2>3, <2>5, <2>6 DEF NetServiceInv, LiveNotClosed
<1>6. CASE stop
  BY <1>6 DEF stop, StopAccept, StopWalk, StopClearNew, StopClearBroken, StopPool, Leaving,
              LiveNotClosed
<1>8. ASSUME NEW c \in Conn, OnAcceptThrows(c) PROVE LiveNotClosed'
  BY <1>8 DEF OnAcceptThrows, LiveNotClosed, Leaving
<1>7. CASE UNCHANGED vars
  BY <1>0, <1>7 DEF vars, connVars, sockVars, mainVars, obsVars
<1> QED BY <1>1, <1>2, <1>3, <1>4, <1>5, <1>6, <1>7, <1>8 DEF Next, Update

(* The strengthened invariant holds in every reachable state. *)
THEOREM Invariant == Spec => []NetServiceInv
<1>1. Init => NetServiceInv
  <2>1. ASSUME Init PROVE TypeOK
    BY <2>1, MaxPackAssumption DEF Init, TypeOK, ReaderStates, Phases
  <2>2. ASSUME Init PROVE BrokenOnce /\ NewOnce /\ ReportedOnce /\ LiveNotClosed
    BY <2>2, EmptyDistinct
       DEF Init, BrokenOnce, NewOnce, ReportedOnce, LiveNotClosed
  <2> QED BY <2>1, <2>2 DEF NetServiceInv
<1>2. NetServiceInv /\ [Next]_vars => NetServiceInv'
  BY TypeStep, ReportStep, LiveStep DEF NetServiceInv
<1> QED BY <1>1, <1>2, PTL DEF Spec

(* The observers hear of no connection twice, however the accept handler,  *)
(* the read handlers and update() interleave.                              *)
THEOREM Once == Spec => []ReportedOnce
<1>1. NetServiceInv => ReportedOnce
  BY DEF NetServiceInv
<1> QED BY <1>1, Invariant, PTL

(* update() closes no connection that is still being read. *)
THEOREM LiveStaysOpen == Spec => []LiveNotClosed
<1>1. NetServiceInv => LiveNotClosed
  BY DEF NetServiceInv
<1> QED BY <1>1, Invariant, PTL

-----------------------------------------------------------------------------
(* The packs.  InOrder says of one connection c what PacksInOrder says of  *)
(* all: q holds its packs after the ones in f up to r, once and in order.  *)
InOrder(q, f, r, c) ==
    /\ Len(f) <= r /\ \A i \in DOMAIN f : f[i] = i
    /\ \A i, j \in DOMAIN q : q[i][1] = c /\ q[j][1] = c /\ i < j => q[i][2] < q[j][2]
    /\ \A i \in DOMAIN q : q[i][1] = c => q[i][2] \in Len(f) + 1..r
    /\ \A n \in Len(f) + 1..r : \E i \in DOMAIN q : q[i][1] = c /\ q[i][2] = n

LEMMA OrderForm ==
    ASSUME NEW q, NEW f, NEW r, NEW c
    PROVE  InOrder(q, f, r, c) <=>
             LET of == {i \in DOMAIN q : q[i][1] = c}
             IN  /\ Len(f) <= r /\ \A i \in DOMAIN f : f[i] = i
                 /\ \A i, j \in of : i < j => q[i][2] < q[j][2]
                 /\ {q[i][2] : i \in of} = Len(f) + 1..r
  BY DEF InOrder

LEMMA PackParts == \A p \in Pack : /\ p[1] \in Conn /\ p[2] \in 1..MaxPack
                                   /\ p = <<p[1], p[2]>> /\ p[2] \in Nat
  BY MaxPackAssumption DEF Pack

(* A pack that is pushed is the next one of its connection. *)
LEMMA PushOrder ==
    ASSUME NEW q \in Seq(Pack), NEW f \in Seq(Nat), NEW r \in Nat, NEW c \in Conn,
           InOrder(q, f, r, c), NEW p \in Pack
    PROVE  /\ p[1] # c => InOrder(Append(q, p), f, r, c)
           /\ p[1] = c /\ p[2] = r + 1 => InOrder(Append(q, p), f, r + 1, c)
<1>1. PICK t : t = Append(q, p)
  OBVIOUS
<1>2. PICK n \in Nat : n = Len(q)
  OBVIOUS
<1>3. /\ DOMAIN q = 1..n /\ DOMAIN t = 1..n + 1 /\ t[n + 1] = p
      /\ \A i \in 1..n : t[i] = q[i] /\ q[i][2] \in Nat
      /\ \A i \in 1..n + 1 : i \in 1..n \/ i = n + 1
      /\ \A i \in 1..n : i \in 1..n + 1
  BY <1>1, <1>2, PackParts, AppendProperties, ElementOfSeq
<1>4. PICK m \in Nat : m = Len(f)
  OBVIOUS
<1>5. CASE p[1] # c
  <2>1. \A i \in 1..n + 1 : t[i][1] = c => i \in 1..n
    BY <1>3, <1>5
  <2>2. \A i, j \in 1..n + 1 : t[i][1] = c /\ t[j][1] = c /\ i < j => t[i][2] < t[j][2]
    BY <1>3, <2>1 DEF InOrder
  <2>3. \A i \in 1..n + 1 : t[i][1] = c => t[i][2] \in Len(f) + 1..r
    BY <1>3, <2>1 DEF InOrder
  <2>4. ASSUME NEW k \in Len(f) + 1..r PROVE \E i \in 1..n + 1 : t[i][1] = c /\ t[i][2] = k
    <3>1. PICK i \in 1..n : q[i][1] = c /\ q[i][2] = k
      BY <1>3 DEF InOrder
    <3> QED
      BY <1>3, <3>1
  <2> QED
    BY <1>1, <1>3, <1>5, <2>2, <2>3, <2>4 DEF InOrder
<1>6. CASE p[1] = c /\ p[2] = r + 1
  <2>0. m <= r /\ \A i \in 1..n : q[i][1] = c => q[i][2] \in m + 1..r
    BY <1>3, <1>4 DEF InOrder
  <2>2. ASSUME NEW i \in 1..n + 1, NEW j \in 1..n + 1,
               t[i][1] = c, t[j][1] = c, i < j
        PROVE  t[i][2] < t[j][2]
    <3>1. i \in 1..n
      BY <2>2
    <3>2. CASE j \in 1..n
      BY <1>3, <2>2, <3>1, <3>2 DEF InOrder
    <3>3. CASE j = n + 1
      <4>1. t[i][2] \in m + 1..r /\ t[j][2] = r + 1
        BY <1>3, <1>6, <2>0, <2>2, <3>1, <3>3
      <4> QED
        BY <4>1
    <3> QED
      BY <1>3, <3>2, <3>3
  <2>3. ASSUME NEW i \in 1..n + 1, t[i][1] = c PROVE t[i][2] \in m + 1..r + 1
    <3>1. CASE i \in 1..n
      BY <1>3, <2>0, <2>3, <3>1
    <3>2. CASE i = n + 1
      BY <1>3, <1>6, <2>0, <3>2
    <3> QED
      BY <1>3, <3>1, <3>2
  <2>4. ASSUME NEW k \in m + 1..r + 1 PROVE \E i \in 1..n + 1 : t[i][1] = c /\ t[i][2] = k
    <3>1. CASE k = r + 1
      <4>1. n + 1 \in 1..n + 1
        OBVIOUS
      <4> QED
        BY <1>3, <1>6, <3>1, <4>1
    <3>2. CASE k \in m + 1..r
      <4>1. PICK i \in 1..n : q[i][1] = c /\ q[i][2] = k
        BY <1>3, <1>4, <3>2 DEF InOrder
      <4> QED
        BY <1>3, <4>1
    <3> QED
      BY <3>1, <3>2
  <2>5. m <= r + 1 /\ \A i \in DOMAIN f : f[i] = i
    BY <2>0 DEF InOrder
  <2>6. InOrder(t, f, r + 1, c)
    BY <1>3, <1>4, <2>2, <2>3, <2>4, <2>5 DEF InOrder
  <2> QED
    BY <1>1, <1>6, <2>6
<1> QED
  BY <1>5, <1>6

(* The first pack of all is the next one its connection is to be fired. *)
LEMMA FireOrder ==
    ASSUME NEW q \in Seq(Pack), q # <<>>, NEW f \in Seq(Nat), NEW r \in Nat,
           NEW c \in Conn, InOrder(q, f, r, c)
    PROVE  /\ Head(q)[1] # c => InOrder(Tail(q), f, r, c)
           /\ Head(q)[1] = c => InOrder(Tail(q), Append(f, Head(q)[2]), r, c)
<1>1. PICK t, p : t = Tail(q) /\ p = Head(q)
  OBVIOUS
<1>2. PICK n \in Nat \ {0} : n = Len(q)
  BY EmptySeq
<1>3. /\ DOMAIN q = 1..n /\ DOMAIN t = 1..n - 1 /\ q[1] = p /\ 1 \in 1..n
      /\ \A i \in 1..n - 1 : t[i] = q[i + 1] /\ i + 1 \in 1..n
      /\ \A i \in 1..n : q[i][2] \in Nat
  <2>1. DOMAIN q = 1..n /\ q[1] = p /\ 1 \in 1..n
    BY <1>1, <1>2
  <2>2. t \in Seq(Pack) /\ Len(t) = n - 1 /\ \A i \in 1..Len(t) : t[i] = q[i + 1]
    BY <1>1, <1>2, HeadTailProperties
  <2>3. \A i \in 1..n : q[i][2] \in Nat
    BY <1>2, PackParts, ElementOfSeq
  <2> QED
    BY <2>1, <2>2, <2>3
<1>4. PICK m \in Nat : m = Len(f)
  OBVIOUS
<1>o. /\ m <= r /\ (\A i \in DOMAIN f : f[i] = i)
      /\ \A i, j \in 1..n : q[i][1] = c /\ q[j][1] = c /\ i < j => q[i][2] < q[j][2]
      /\ \A i \in 1..n : q[i][1] = c => q[i][2] \in m + 1..r
      /\ \A k \in m + 1..r : \E i \in 1..n : q[i][1] = c /\ q[i][2] = k
  BY <1>3, <1>4 DEF InOrder
<1>5. ASSUME NEW i \in 1..n - 1, NEW j \in 1..n - 1, t[i][1] = c, t[j][1] = c, i < j
      PROVE  t[i][2] < t[j][2]
  <2>1. i + 1 \in 1..n /\ j + 1 \in 1..n /\ i + 1 < j + 1
    BY <1>3, <1>5
  <2>2. q[i + 1][1] = c /\ q[j + 1][1] = c
    BY <1>3, <1>5
  <2>3. q[i + 1][2] < q[j + 1][2]
    BY <1>o, <2>1, <2>2
  <2> QED
    BY <1>3, <2>3
<1>6. \A i \in 1..n : i = 1 \/ (i - 1 \in 1..n - 1 /\ t[i - 1] = q[i])
  <2> SUFFICES ASSUME NEW i \in 1..n, i # 1 PROVE i - 1 \in 1..n - 1 /\ t[i - 1] = q[i]
    OBVIOUS
  <2>1. i - 1 \in 1..n - 1 /\ (i - 1) + 1 = i
    OBVIOUS
  <2> QED
    BY <1>3, <2>1
<1>7. CASE p[1] # c
  <2>1. \A i \in 1..n - 1 : t[i][1] = c => t[i][2] \in m + 1..r
    BY <1>3, <1>o
  <2>2. ASSUME NEW k \in m + 1..r PROVE \E i \in 1..n - 1 : t[i][1] = c /\ t[i][2] = k
    <3>1. PICK i \in 1..n : q[i][1] = c /\ q[i][2] = k
      BY <1>o
    <3>2. i # 1
      BY <1>3, <1>7, <3>1
    <3> QED
      BY <1>6, <3>1, <3>2
  <2>3. InOrder(t, f, r, c)
    BY <1>3, <1>4, <1>5, <1>o, <2>1, <2>2 DEF InOrder
  <2> QED
    BY <1>1, <1>7, <2>3
<1>8. CASE p[1] = c
  <2>1. p[2] \in m + 1..r
    BY <1>3, <1>8, <1>o
  <2>2. p[2] = m + 1
    <3>1. m + 1 \in m + 1..r
      BY <2>1
    <3>2. PICK i \in 1..n : q[i][1] = c /\ q[i][2] = m + 1
      BY <1>o, <3>1
    <3>3. i = 1 \/ 1 < i
      OBVIOUS
    <3>4. 1 < i => p[2] < m + 1
      BY <1>3, <1>8, <1>o, <3>2
    <3> QED
      BY <1>3, <2>1, <3>2, <3>3, <3>4
  <2>3. PICK g : g = Append(f, p[2])
    OBVIOUS
  <2>4. /\ Len(g) = m + 1 /\ DOMAIN g = 1..m + 1 /\ DOMAIN f = 1..m /\ g[m + 1] = m + 1
        /\ \A i \in 1..m : g[i] = f[i]
    <3>1. p[2] \in Nat
      BY <2>2
    <3> QED
      BY <1>4, <2>2, <2>3, <3>1, AppendProperties
  <2>5. \A i \in DOMAIN g : g[i] = i
    <3>1. \A i \in 1..m + 1 : i \in 1..m \/ i = m + 1
      OBVIOUS
    <3> QED
      BY <1>o, <2>4, <3>1
  <2>6. ASSUME NEW i \in 1..n - 1, t[i][1] = c PROVE t[i][2] \in (m + 1) + 1..r
    <3>1. i + 1 \in 1..n /\ 1 < i + 1 /\ t[i] = q[i + 1]
      BY <1>3
    <3>2. m + 1 < t[i][2] /\ t[i][2] \in m + 1..r
      BY <1>3, <1>8, <1>o, <2>2, <2>6, <3>1
    <3> QED
      BY <3>2
  <2>7. ASSUME NEW k \in (m + 1) + 1..r PROVE \E i \in 1..n - 1 : t[i][1] = c /\ t[i][2] = k
    <3>0. k \in m + 1..r /\ k # m + 1
      OBVIOUS
    <3>1. PICK i \in 1..n : q[i][1] = c /\ q[i][2] = k
      BY <1>o, <3>0
    <3>2. i # 1
      BY <1>3, <2>2, <3>0, <3>1
    <3> QED
      BY <1>6, <3>1, <3>2
  <2>8. m + 1 <= r
    BY <2>1
  <2>9. InOrder(t, g, r, c)
    BY <1>3, <1>5, <2>4, <2>5, <2>6, <2>7, <2>8 DEF InOrder
  <2> QED
    BY <1>1, <1>8, <2>3, <2>9
<1> QED
  BY <1>1, <1>7, <1>8

(* What update() has not fired yet.  NetPackVectorTemp is empty outside    *)
(* the loop that fires it, so that the copy overwrites nothing; a pack     *)
(* phase that begins after OnDisConnect takes the last packs of that       *)
(* connection, whose chain of reads has ended.                             *)
NoneOf(c, s) == \A i \in DOMAIN s : s[i][1] # c

PackInv ==
    /\ phase \notin {"pack", "terminated"} => NetPackVectorTemp = <<>>
    /\ PacksInOrder
    /\ \A c \in Conn :
         /\ phase = "pack" /\ onDisConnect[c] > 0 => NoneOf(c, NetPackVector)
         /\ drained[c] => /\ onDisConnect[c] > 0
                          /\ NoneOf(c, NetPackVector) /\ NoneOf(c, NetPackVectorTemp)

LEMMA PacksOrdered ==
    PacksInOrder <=> \A c \in Conn : InOrder(Queued, fired[c], received[c], c)
  BY OrderForm DEF PacksInOrder, QueuedOf

LEMMA PacksOrderedNext ==
    PacksInOrder' <=> \A c \in Conn : InOrder(Queued', fired'[c], received'[c], c)
  BY OrderForm DEF PacksInOrder, QueuedOf

(* A step that leaves the packs alone, and no count of reports either. *)
LEMMA PacksRest ==
    ASSUME PackInv, UNCHANGED <<NetPackVector, NetPackVectorTemp, fired, received, drained>>,
           UNCHANGED onDisConnect, phase' = "terminated" \/ (phase' = "pack" <=> phase = "pack"),
           phase # "terminated" \/ phase' = "terminated"
    PROVE  PackInv'
<1>1. Queued' = Queued
  BY DEF Queued
<1>2. PacksInOrder'
  BY <1>1 DEF PackInv, PacksInOrder, QueuedOf
<1> QED
  BY <1>2 DEF PackInv, NoneOf

LEMMA AppendNone ==
    ASSUME NEW s \in Seq(Pack), NEW p \in Pack, NEW c, NoneOf(c, s), p[1] # c
    PROVE  NoneOf(c, Append(s, p))
<1>1. DOMAIN s = 1..Len(s) /\ DOMAIN Append(s, p) = 1..Len(s) + 1 /\ Len(s) \in Nat
      /\ Append(s, p)[Len(s) + 1] = p /\ \A i \in 1..Len(s) : Append(s, p)[i] = s[i]
  BY AppendProperties
<1>2. \A i \in 1..Len(s) + 1 : i \in 1..Len(s) \/ i = Len(s) + 1
  BY <1>1
<1> QED
  BY <1>1, <1>2 DEF NoneOf

(* GetNetPack runs in a chain of reads that has not broken. *)
LEMMA PacksPushed ==
    ASSUME PackInv, NetServiceInv, NEW c \in Conn, reader[c] # "broken", GetNetPack(c)
    PROVE  PackInv'
<1>0. /\ received[c] < MaxPack /\ received' = [received EXCEPT ![c] = @ + 1]
      /\ NetPackVector' = Append(NetPackVector, <<c, received[c] + 1>>)
      /\ NetPackVectorTemp' = NetPackVectorTemp /\ phase' = phase
      /\ fired' = fired /\ onDisConnect' = onDisConnect /\ drained' = drained
  BY DEF GetNetPack, mainVars, obsVars
<1>1. /\ NetPackVector \in Seq(Pack) /\ NetPackVectorTemp \in Seq(Pack)
      /\ received \in [Conn -> 0..MaxPack] /\ MaxPack \in Nat
      /\ fired \in [Conn -> Seq(1..MaxPack)]
  BY MaxPackAssumption DEF NetServiceInv, TypeOK
<1>2. PICK p : p = <<c, received[c] + 1>>
  OBVIOUS
<1>3. p \in Pack /\ p[1] = c /\ p[2] = received[c] + 1
  BY <1>0, <1>1, <1>2 DEF Pack
<1>4. Queued' = Append(Queued, p)
  <2>1. NetPackVector' = NetPackVector \o <<p>> /\ <<p>> \in Seq(Pack)
    <3>1. Append(NetPackVector, p) = NetPackVector \o <<p>>
      BY <1>1, <1>3, AppendIsConcat
    <3>2. <<p>> \in Seq(Pack)
      BY <1>3
    <3> QED
      BY <1>0, <1>2, <3>1, <3>2
  <2>2. NetPackVectorTemp \o (NetPackVector \o <<p>>) = Queued \o <<p>>
    BY <1>1, <2>1, ConcatAssociative DEF Queued
  <2>3. Queued \in Seq(Pack)
    BY <1>1, ConcatProperties DEF Queued
  <2>4. Append(Queued, p) = Queued \o <<p>>
    BY <1>3, <2>3, AppendIsConcat
  <2> QED
    BY <1>0, <2>1, <2>2, <2>4 DEF Queued
<1>5. ASSUME NEW d \in Conn PROVE InOrder(Queued', fired'[d], received'[d], d)
  <2>1. Queued \in Seq(Pack) /\ fired[d] \in Seq(Nat) /\ received[d] \in Nat
    <3>1. fired[d] \in Seq(1..MaxPack) /\ 1..MaxPack \subseteq Nat
      BY <1>1
    <3> QED
      BY <1>1, <3>1, ConcatProperties, SeqMonotonic DEF Queued
  <2>2. InOrder(Queued, fired[d], received[d], d)
    BY PacksOrdered DEF PackInv
  <2>3. CASE d = c
    <3>1. received'[d] = received[d] + 1 /\ fired'[d] = fired[d]
      BY <1>0, <1>1, <2>3
    <3> QED
      BY <1>3, <1>4, <2>1, <2>2, <2>3, <3>1, PushOrder
  <2>4. CASE d # c
    <3>1. received'[d] = received[d] /\ fired'[d] = fired[d]
      BY <1>0, <1>1, <2>4
    <3> QED
      BY <1>3, <1>4, <2>1, <2>2, <2>4, <3>1, PushOrder
  <2> QED
    BY <2>3, <2>4
<1>6. ~(onDisConnect[c] > 0)
  BY DEF NetServiceInv, BrokenOnce
<1>7. \A d \in Conn : d # c /\ NoneOf(d, NetPackVector) => NoneOf(d, NetPackVector)'
  <2> SUFFICES ASSUME NEW d \in Conn, d # c, NoneOf(d, NetPackVector)
               PROVE  NoneOf(d, NetPackVector)'
    OBVIOUS
  <2>1. NoneOf(d, Append(NetPackVector, p))
    BY <1>1, <1>3, AppendNone
  <2> QED
    BY <1>0, <1>2, <2>1 DEF NoneOf
<1>8. PacksInOrder'
  BY <1>5, PacksOrderedNext
<1> QED
  BY <1>0, <1>6, <1>7, <1>8 DEF PackInv, NoneOf

LEMMA PacksTaken ==
    ASSUME PackInv, NetServiceInv, TakePacks
    PROVE  PackInv'
<1>0. /\ phase = "connect" /\ phase' = "pack" /\ NetPackVectorTemp' = NetPackVector
      /\ NetPackVector' = <<>> /\ received' = received /\ fired' = fired
      /\ onDisConnect' = onDisConnect /\ drained' = drained
  BY DEF TakePacks, connVars, obsVars
<1>1. NetPackVector \in Seq(Pack) /\ NetPackVectorTemp = <<>>
  BY <1>0 DEF PackInv, NetServiceInv, TypeOK
<1>2. Queued' = Queued
  BY <1>0, <1>1, ConcatEmptySeq DEF Queued
<1>3. PacksInOrder'
  BY <1>0, <1>2 DEF PackInv, PacksInOrder, QueuedOf
<1> QED
  BY <1>0, <1>3 DEF PackInv, NoneOf

LEMMA PackFired ==
    ASSUME PackInv, NetServiceInv, FireMessage
    PROVE  PackInv' /\ \A c \in Conn : drained[c] => fired'[c] = fired[c]
<1>0. /\ phase = "pack" /\ NetPackVectorTemp # <<>> /\ phase' = phase
      /\ fired' = [fired EXCEPT ![Head(NetPackVectorTemp)[1]] =
                                   Append(@, Head(NetPackVectorTemp)[2])]
      /\ NetPackVectorTemp' = Tail(NetPackVectorTemp)
      /\ NetPackVector' = NetPackVector /\ received' = received
      /\ onDisConnect' = onDisConnect /\ drained' = drained
  BY DEF FireMessage, connVars, queueVars
<1>1. /\ NetPackVector \in Seq(Pack) /\ NetPackVectorTemp \in Seq(Pack)
      /\ received \in [Conn -> 0..MaxPack] /\ MaxPack \in Nat
      /\ fired \in [Conn -> Seq(1..MaxPack)]
  BY MaxPackAssumption DEF NetServiceInv, TypeOK
<1>2. PICK a, b, p : a = NetPackVectorTemp /\ b = NetPackVector /\ p = Head(a)
  OBVIOUS
<1>3. a \in Seq(Pack) /\ b \in Seq(Pack) /\ a # <<>> /\ p \in Pack /\ p[1] \in Conn
  BY <1>0, <1>1, <1>2, PackParts
<1>4. /\ DOMAIN a = 1..Len(a) /\ 1 \in DOMAIN a /\ a[1] = p
      /\ DOMAIN Tail(a) = 1..Len(a) - 1 /\ Tail(a) \in Seq(Pack)
      /\ \A i \in 1..Len(a) - 1 : Tail(a)[i] = a[i + 1] /\ i + 1 \in DOMAIN a
  BY <1>2, <1>3
<1>5. a \o b \in Seq(Pack) /\ a \o b # <<>> /\ Head(a \o b) = p /\ Tail(a \o b) = Tail(a) \o b
  BY <1>2, <1>3
<1>6. ASSUME NEW d \in Conn PROVE InOrder(Queued', fired'[d], received'[d], d)
  <2>1. a \o b = Queued /\ Tail(a \o b) = Queued'
    BY <1>0, <1>2, <1>5 DEF Queued
  <2>2. fired[d] \in Seq(Nat) /\ received[d] \in Nat /\ received'[d] = received[d]
    <3>1. fired[d] \in Seq(1..MaxPack) /\ 1..MaxPack \subseteq Nat
      BY <1>1
    <3> QED
      BY <1>0, <1>1, <3>1, SeqMonotonic
  <2>3. InOrder(a \o b, fired[d], received[d], d)
    BY <2>1, PacksOrdered DEF PackInv
  <2>4. /\ p[1] # d => InOrder(Tail(a \o b), fired[d], received[d], d)
        /\ p[1] = d => InOrder(Tail(a \o b), Append(fired[d], p[2]), received[d], d)
    BY <1>5, <2>2, <2>3, FireOrder
  <2>5. /\ p[1] # d => fired'[d] = fired[d]
        /\ p[1] = d => fired'[d] = Append(fired[d], p[2])
    BY <1>0, <1>1, <1>2, <1>3
  <2> QED
    BY <2>1, <2>2, <2>4, <2>5
<1>7. PacksInOrder'
  BY <1>6, PacksOrderedNext
<1>8. \A d \in Conn : NoneOf(d, NetPackVectorTemp) => NoneOf(d, NetPackVectorTemp)' /\ d # p[1]
  BY <1>0, <1>2, <1>4 DEF NoneOf
<1>9. \A d \in Conn : d # p[1] => fired'[d] = fired[d]
  BY <1>0, <1>1, <1>2, <1>3
<1> QED
  BY <1>0, <1>7, <1>8, <1>9 DEF PackInv, NoneOf

LEMMA PacksStep ==
    ASSUME PackInv, NetServiceInv, [Next]_vars
    PROVE  PackInv' /\ \A c \in Conn : drained[c] => fired'[c] = fired[c]
<1>t. TypeOK
  BY DEF NetServiceInv
<1>0. ASSUME UNCHANGED <<NetPackVector, NetPackVectorTemp, fired, received, drained>>,
             UNCHANGED onDisConnect, phase' = "terminated" \/ (phase' = "pack" <=> phase = "pack"),
             phase # "terminated" \/ phase' = "terminated"
      PROVE  PackInv' /\ \A c \in Conn : drained[c] => fired'[c] = fired[c]
  BY <1>0, PacksRest
<1>1. ASSUME NEW c \in Conn, OnAccept(c) \/ PushNewConnect(c) \/ PeerClose(c) \/ handle_close(c)
      PROVE  UNCHANGED <<NetPackVector, NetPackVectorTemp, fired, received, drained,
                         onDisConnect, phase>>
  BY <1>1 DEF OnAccept, PushNewConnect, PeerClose, handle_close, connVars, queueVars,
     mainVars, obsVars
<1>2. ASSUME NEW c \in Conn, NEW from, NEW to, KeepReading(c, from, to) \/ OnBreak(c)
                                                \/ ReadWebPackDataReady(c)
      PROVE  UNCHANGED <<NetPackVector, NetPackVectorTemp, fired, received, drained,
                         onDisConnect, phase>>
  BY <1>2 DEF KeepReading, OnBreak, ReadWebPackDataReady, queueVars, mainVars, obsVars
<1>3. ASSUME NEW c \in Conn, ReadHandler(c)
      PROVE  \/ UNCHANGED <<NetPackVector, NetPackVectorTemp, fired, received, drained,
                            onDisConnect, phase>>
             \/ reader[c] # "broken" /\ GetNetPack(c)
  <2>1. CASE OnHandShake(c) \/ ReadReadyHead(c) \/ ReadWebPackHeadReady(c)
    BY <1>2, <2>1 DEF OnHandShake, ReadReadyHead, ReadWebPackHeadReady
  <2>2. CASE ReadWebPackHeadBodyReady(c) \/ ReadWebPackDataReady(c) \/ ReadError(c)
    BY <1>2, <2>2 DEF ReadWebPackHeadBodyReady, ReadError
  <2>3. CASE ReadReadyBody(c)
    BY <2>3 DEF ReadReadyBody
  <2>4. CASE CutWebPacks(c)
    BY <1>2, <2>4 DEF CutWebPacks
  <2> QED
    BY <1>3, <2>1, <2>2, <2>3, <2>4 DEF ReadHandler
<1>4. CASE \E c \in Conn : \/ OnAccept(c) \/ PushNewConnect(c) \/ PeerClose(c)
                           \/ ReadHandler(c) \/ handle_close(c)
  <2>1. PICK c \in Conn : \/ OnAccept(c) \/ PushNewConnect(c) \/ PeerClose(c)
                          \/ ReadHandler(c) \/ handle_close(c)
    BY <1>4
  <2>2. CASE UNCHANGED <<NetPackVector, NetPackVectorTemp, fired, received, drained,
                         onDisConnect, phase>>
    BY <1>0, <2>2
  <2>3. CASE reader[c] # "broken" /\ GetNetPack(c)
    <3>1. fired' = fired
      BY <2>3 DEF GetNetPack, obsVars
    <3> QED
      BY <2>3, <3>1, PacksPushed
  <2> QED
    BY <1>1, <1>3, <2>1, <2>2, <2>3
<1>5. CASE TakeConnects \/ NotifyConnect
  BY <1>0, <1>5 DEF TakeConnects, NotifyConnect, connVars, queueVars, obsVars
<1>6. CASE TakePacks
  <2>1. fired' = fired
    BY <1>6 DEF TakePacks, obsVars
  <2> QED
    BY <1>6, <2>1, PacksTaken
<1>7. CASE FireMessage
  BY <1>7, PackFired
<1>8. CASE TakeDisConnects
  <2>0. /\ phase = "pack" /\ phase' = "disconnect" /\ NetPackVectorTemp = <<>>
        /\ drained' = [c \in Conn |-> onDisConnect[c] > 0]
        /\ UNCHANGED <<NetPackVector, NetPackVectorTemp, fired, received, onDisConnect>>
    BY <1>8 DEF TakeDisConnects, connVars
  <2>1. PacksInOrder'
    <3>1. Queued' = Queued
      BY <2>0 DEF Queued
    <3> QED
      BY <2>0, <3>1 DEF PackInv, PacksInOrder, QueuedOf
  <2>2. \A c \in Conn : drained'[c] =>
          onDisConnect[c] > 0 /\ NoneOf(c, NetPackVector) /\ NoneOf(c, NetPackVectorTemp)
    <3> SUFFICES ASSUME NEW c \in Conn, drained'[c]
                 PROVE  /\ onDisConnect[c] > 0 /\ NoneOf(c, NetPackVector)
                        /\ NoneOf(c, NetPackVectorTemp)
      OBVIOUS
    <3>1. onDisConnect[c] > 0
      BY <2>0
    <3>2. NoneOf(c, NetPackVector)
      BY <2>0, <3>1 DEF PackInv
    <3>3. NoneOf(c, NetPackVectorTemp)
      BY <2>0 DEF NoneOf
    <3> QED
      BY <3>1, <3>2, <3>3
  <2> QED
    BY <2>0, <2>1, <2>2 DEF PackInv, NoneOf
<1>9. CASE NotifyDisConnect
  <2>0. /\ phase = "disconnect" /\ phase' = phase /\ tmp_newDisConnect # <<>>
        /\ onDisConnect' = [onDisConnect EXCEPT ![Head(tmp_newDisConnect)] = @ + 1]
        /\ UNCHANGED <<NetPackVector, NetPackVectorTemp, fired, received, drained>>
    BY <1>9 DEF NotifyDisConnect, connVars, queueVars
  <2>1. PacksInOrder'
    <3>1. Queued' = Queued
      BY <2>0 DEF Queued
    <3> QED
      BY <2>0, <3>1 DEF PackInv, PacksInOrder, QueuedOf
  <2>2. ASSUME NEW c \in Conn, onDisConnect[c] > 0 PROVE onDisConnect'[c] > 0
    <3>1. onDisConnect \in [Conn -> Nat]
      BY <1>t DEF TypeOK
    <3> QED
      BY <2>0, <2>2, <3>1
  <2> QED
    BY <2>0, <2>1, <2>2 DEF PackInv, NoneOf
<1>10. CASE UpdateDone \/ stop \/ \E c \in Conn : OnAcceptThrows(c)
  <2>1. UNCHANGED <<NetPackVector, NetPackVectorTemp, fired, received, drained, onDisConnect>>
    BY <1>10 DEF UpdateDone, stop, StopAccept, StopWalk, StopClearNew, StopClearBroken,
       StopPool, OnAcceptThrows, connVars, queueVars, obsVars
  <2>2. /\ phase' = "terminated" \/ (phase' = "pack" <=> phase = "pack")
        /\ phase # "terminated"
    BY <1>10 DEF UpdateDone, stop, StopAccept, StopWalk, StopClearNew, StopClearBroken,
       StopPool, OnAcceptThrows, IoRunning
  <2> QED
    BY <1>0, <2>1, <2>2
<1>11. CASE UNCHANGED vars
  BY <1>0, <1>11 DEF vars, connVars, queueVars, mainVars, obsVars
<1> QED
  BY <1>4, <1>5, <1>6, <1>7, <1>8, <1>9, <1>10, <1>11 DEF Next, Update

LEMMA PacksInit == Init => PackInv
<1> SUFFICES ASSUME Init PROVE PackInv
  OBVIOUS
<1>1. /\ NetPackVector = <<>> /\ NetPackVectorTemp = <<>> /\ phase = "idle"
      /\ \A c \in Conn : fired[c] = <<>> /\ received[c] = 0 /\ ~drained[c]
  BY DEF Init
<1>2. Queued = <<>>
  BY <1>1 DEF Queued
<1>3. \A c \in Conn : InOrder(<<>>, <<>>, 0, c)
  BY DEF InOrder
<1>4. PacksInOrder
  BY <1>1, <1>2, <1>3, PacksOrdered
<1> QED
  BY <1>1, <1>4 DEF PackInv

LEMMA PacksKept == Spec => [](NetServiceInv /\ PackInv)
<1>1. NetServiceInv /\ PackInv /\ [Next]_vars => PackInv'
  BY PacksStep
<1> QED
  BY <1>1, PacksInit, Invariant, PTL DEF Spec

(* FireMessage gets the packs of a connection in the order they were read, *)
(* none twice and none missing, for any number of connections and packs.   *)
THEOREM PacksStayInOrder == Spec => []PacksInOrder
<1>1. PackInv => PacksInOrder
  BY DEF PackInv
<1> QED
  BY <1>1, PacksKept, PTL

(* No pack of a connection is fired once an update() that began after its  *)
(* OnDisConnect has fired what was left.                                   *)
THEOREM QuietOnceDrained == Spec => QuietAfterDisConnect
<1>1. NetServiceInv /\ PackInv /\ [Next]_vars
        => [\A c \in Conn : drained[c] => fired'[c] = fired[c]]_vars
  BY PacksStep
<1> QED
  BY <1>1, PacksKept, PTL DEF Spec, QuietAfterDisConnect

-----------------------------------------------------------------------------
(* stop().  A connection that was queued when it began is closed, or lies  *)
(* ahead of the loop in the vector that is walked, or waits in the vector  *)
(* that is walked next.  A posted handle_close and a reset socket belong   *)
(* to a connection that is closed, so CloseSocket leaves none open.        *)
Ahead(c, v, n) == \E i \in n + 1..Len(v) : v[i] = c

Sockets ==
    \A c \in Conn : /\ closePosted[c] \/ socket[c] = "reset" => bClose[c]
                    /\ reader[c] # "none" => socket[c] # "none"

ToClose(c) ==
    /\ phase = "stopNew" => \/ bClose[c] \/ Ahead(c, newConnect, walked)
                            \/ c \in Elements(newDisConnect)
    /\ phase = "clearNew" => bClose[c] \/ c \in Elements(newDisConnect)
    /\ phase = "stopBroken" => bClose[c] \/ Ahead(c, newDisConnect, walked)
    /\ phase \in {"clearBroken", "stopPool", "stopped"} => bClose[c]

StopInv == Sockets /\ \A c \in leftover : ToClose(c)

LEMMA AheadStays ==
    ASSUME NEW v \in Seq(Conn), NEW e \in Conn, NEW c, NEW n \in Nat
    PROVE  /\ Ahead(c, v, n) => Ahead(c, Append(v, e), n)
           /\ c \in Elements(v) => c \in Elements(Append(v, e))
<1>1. /\ Len(v) \in Nat /\ Len(Append(v, e)) = Len(v) + 1
      /\ DOMAIN v = 1..Len(v) /\ DOMAIN Append(v, e) = 1..Len(v) + 1
      /\ \A i \in 1..Len(v) : Append(v, e)[i] = v[i]
  OBVIOUS
<1>2. /\ \A i \in n + 1..Len(v) : i \in 1..Len(v) /\ i \in n + 1..Len(v) + 1
      /\ \A i \in 1..Len(v) : i \in 1..Len(v) + 1
  BY <1>1
<1>3. Ahead(c, v, n) => Ahead(c, Append(v, e), n)
  <2> SUFFICES ASSUME NEW i \in n + 1..Len(v), v[i] = c PROVE Ahead(c, Append(v, e), n)
    BY DEF Ahead
  <2>1. i \in n + 1..Len(Append(v, e)) /\ Append(v, e)[i] = c
    BY <1>1, <1>2
  <2> QED
    BY <2>1 DEF Ahead
<1>4. c \in Elements(v) => c \in Elements(Append(v, e))
  BY <1>1, <1>2 DEF Elements
<1> QED
  BY <1>3, <1>4

LEMMA AheadFromStart ==
    ASSUME NEW v \in Seq(Conn), NEW c \in Elements(v) PROVE Ahead(c, v, 0)
  BY DEF Ahead, Elements

LEMMA AheadOneOn ==
    ASSUME NEW v \in Seq(Conn), NEW n \in Nat, NEW c, Ahead(c, v, n)
    PROVE  n < Len(v) /\ (c = v[n + 1] \/ Ahead(c, v, n + 1))
<1>1. PICK i \in n + 1..Len(v) : v[i] = c
  BY DEF Ahead
<1>2. Len(v) \in Nat /\ n < Len(v) /\ (i = n + 1 \/ i \in (n + 1) + 1..Len(v))
  BY <1>1
<1> QED
  BY <1>1, <1>2 DEF Ahead

(* CloseSocket closes the sockets it is given, unless they are closed. *)
LEMMA Closes ==
    ASSUME TypeOK, Sockets, NEW cs, CloseSocket(cs), UNCHANGED <<socket, reader>>
    PROVE  /\ Sockets'
           /\ \A c \in Conn : bClose[c] => bClose'[c]
           /\ \A c \in Conn : c \in cs /\ reader[c] # "none" => bClose'[c]
<1>1. ASSUME NEW c \in Conn
      PROVE  /\ bClose'[c] <=> (c \in cs /\ socket[c] = "open" /\ ~bClose[c]) \/ bClose[c]
             /\ closePosted'[c] <=>
                  (c \in cs /\ socket[c] = "open" /\ ~bClose[c]) \/ closePosted[c]
  BY DEF CloseSocket
<1>2. ASSUME NEW c \in Conn PROVE socket[c] \in {"none", "open", "reset"}
  BY DEF TypeOK
<1> QED
  BY <1>1, <1>2 DEF Sockets

(* An io thread closes nothing and only pushes. *)
LEMMA StopIoStep ==
    ASSUME StopInv, TypeOK, Sockets', NEW c \in Conn,
           UNCHANGED <<bClose, phase, walked, leftover>>,
           newConnect' \in {newConnect, Append(newConnect, c)},
           newDisConnect' \in {newDisConnect, Append(newDisConnect, c)}
    PROVE  StopInv'
<1>1. newConnect \in Seq(Conn) /\ newDisConnect \in Seq(Conn) /\ walked \in Nat
  BY DEF TypeOK
<1>2. ASSUME NEW d
      PROVE  /\ Ahead(d, newConnect, walked) => Ahead(d, newConnect', walked)
             /\ Ahead(d, newDisConnect, walked) => Ahead(d, newDisConnect', walked)
             /\ d \in Elements(newDisConnect) => d \in Elements(newDisConnect')
  BY <1>1, AheadStays
<1>3. ASSUME NEW d \in leftover PROVE ToClose(d)'
  <2>1. ToClose(d)
    BY DEF StopInv
  <2> HIDE DEF Ahead, Elements
  <2> QED
    BY <1>2, <2>1 DEF ToClose
<1> QED
  BY <1>3 DEF StopInv

LEMMA StopWalkStep ==
    ASSUME StopInv, TypeOK, NewOnce, BrokenOnce,
           \/ StopWalk(newConnect, "stopNew", "clearNew")
           \/ StopWalk(newDisConnect, "stopBroken", "clearBroken")
    PROVE  StopInv'
<1>t. /\ newConnect \in Seq(Conn) /\ newDisConnect \in Seq(Conn) /\ walked \in Nat
      /\ leftover \subseteq Conn /\ Len(newConnect) \in Nat /\ Len(newDisConnect) \in Nat
  BY DEF TypeOK
<1>0. UNCHANGED <<socket, reader, newConnect, newDisConnect, leftover>>
  BY DEF StopWalk, connVars, queueVars, obsVars
<1>s. Sockets
  BY DEF StopInv
<1>1. CASE /\ phase = "stopNew" /\ ~WalkDone(newConnect) /\ phase' = phase
           /\ CloseSocket({newConnect[walked + 1]}) /\ walked' = walked + 1
  <2>1. walked + 1 \in DOMAIN newConnect
    BY <1>1, <1>t DEF WalkDone
  <2>2. newConnect[walked + 1] \in Conn /\ newConnect[walked + 1] \in Elements(newConnect)
    BY <2>1, <1>t DEF Elements
  <2>3. reader[newConnect[walked + 1]] # "none"
    BY <2>2 DEF NewOnce
  <2>4. /\ Sockets' /\ \A c \in Conn : bClose[c] => bClose'[c]
        /\ bClose'[newConnect[walked + 1]]
    BY <1>0, <1>1, <1>s, <2>2, <2>3, Closes
  <2>5. ASSUME NEW c \in leftover PROVE ToClose(c)'
    <3>1. bClose[c] \/ Ahead(c, newConnect, walked) \/ c \in Elements(newDisConnect)
      BY <1>1 DEF StopInv, ToClose
    <3>2. Ahead(c, newConnect, walked) =>
            c = newConnect[walked + 1] \/ Ahead(c, newConnect, walked + 1)
      BY <1>t, AheadOneOn
    <3>3. bClose'[c] \/ Ahead(c, newConnect', walked') \/ c \in Elements(newDisConnect')
      BY <1>0, <1>1, <1>t, <2>4, <3>1, <3>2
    <3> QED
      BY <1>1, <3>3 DEF ToClose
  <2> QED
    BY <1>0, <2>4, <2>5 DEF StopInv
<1>2. CASE /\ phase = "stopBroken" /\ ~WalkDone(newDisConnect) /\ phase' = phase
           /\ CloseSocket({newDisConnect[walked + 1]}) /\ walked' = walked + 1
  <2>1. walked + 1 \in DOMAIN newDisConnect
    BY <1>2, <1>t DEF WalkDone
  <2>2. /\ newDisConnect[walked + 1] \in Conn
        /\ newDisConnect[walked + 1] \in Elements(newDisConnect)
    BY <2>1, <1>t DEF Elements
  <2>3. reader[newDisConnect[walked + 1]] # "none"
    BY <2>2 DEF BrokenOnce
  <2>4. /\ Sockets' /\ \A c \in Conn : bClose[c] => bClose'[c]
        /\ bClose'[newDisConnect[walked + 1]]
    BY <1>0, <1>2, <1>s, <2>2, <2>3, Closes
  <2>5. ASSUME NEW c \in leftover PROVE ToClose(c)'
    <3>1. bClose[c] \/ Ahead(c, newDisConnect, walked)
      BY <1>2 DEF StopInv, ToClose
    <3>2. Ahead(c, newDisConnect, walked) =>
            c = newDisConnect[walked + 1] \/ Ahead(c, newDisConnect, walked + 1)
      BY <1>t, AheadOneOn
    <3>3. bClose'[c] \/ Ahead(c, newDisConnect', walked')
      BY <1>0, <1>2, <1>t, <2>4, <3>1, <3>2
    <3> QED
      BY <1>2, <3>3 DEF ToClose
  <2> QED
    BY <1>0, <2>4, <2>5 DEF StopInv
<1>3. CASE /\ phase = "stopNew" /\ WalkDone(newConnect) /\ phase' = "clearNew"
           /\ UNCHANGED <<walked, bClose, closePosted>>
  <2>1. ASSUME NEW c \in leftover PROVE ToClose(c)'
    <3>1. bClose[c] \/ Ahead(c, newConnect, walked) \/ c \in Elements(newDisConnect)
      BY <1>3 DEF StopInv, ToClose
    <3>2. ~Ahead(c, newConnect, walked)
      BY <1>3, <1>t, AheadOneOn DEF WalkDone
    <3>3. bClose'[c] \/ c \in Elements(newDisConnect')
      BY <1>0, <1>3, <3>1, <3>2
    <3> QED
      BY <1>3, <3>3 DEF ToClose
  <2> QED
    BY <1>0, <1>3, <1>s, <2>1 DEF StopInv, Sockets
<1>4. CASE /\ phase = "stopBroken" /\ WalkDone(newDisConnect) /\ phase' = "clearBroken"
           /\ UNCHANGED <<walked, bClose, closePosted>>
  <2>1. ASSUME NEW c \in leftover PROVE ToClose(c)'
    <3>1. bClose[c] \/ Ahead(c, newDisConnect, walked)
      BY <1>4 DEF StopInv, ToClose
    <3>2. ~Ahead(c, newDisConnect, walked)
      BY <1>4, <1>t, AheadOneOn DEF WalkDone
    <3>3. bClose'[c]
      BY <1>4, <3>1, <3>2
    <3> QED
      BY <1>4, <3>3 DEF ToClose
  <2> QED
    BY <1>0, <1>4, <1>s, <2>1 DEF StopInv, Sockets
<1> QED
  BY <1>1, <1>2, <1>3, <1>4 DEF StopWalk

LEMMA StopStep ==
    ASSUME StopInv, NetServiceInv, [Next]_vars
    PROVE  StopInv'
<1>t. /\ TypeOK /\ NewOnce /\ BrokenOnce /\ Sockets
      /\ newConnect \in Seq(Conn) /\ newDisConnect \in Seq(Conn) /\ leftover \subseteq Conn
  BY DEF NetServiceInv, TypeOK, StopInv
<1>1. ASSUME NEW c \in Conn, OnAccept(c) PROVE StopInv'
  <2>1. /\ UNCHANGED <<bClose, closePosted, phase, walked, leftover, newConnect, newDisConnect>>
        /\ reader' = [reader EXCEPT ![c] = "handshake"]
        /\ socket' = [socket EXCEPT ![c] = "open"]
    BY <1>1 DEF OnAccept, queueVars, mainVars, obsVars
  <2>2. \A d \in Conn : /\ socket'[d] = "reset" => socket[d] = "reset"
                        /\ socket'[d] = "none" => socket[d] = "none" /\ reader'[d] = reader[d]
    BY <2>1, <1>t DEF TypeOK
  <2>3. Sockets'
    BY <2>1, <2>2, <1>t DEF Sockets
  <2> QED
    BY <2>1, <2>3, <1>t, StopIoStep
<1>2. ASSUME NEW c \in Conn, PushNewConnect(c) \/ PeerClose(c) PROVE StopInv'
  <2>1. /\ UNCHANGED <<bClose, closePosted, socket, reader, phase, walked, leftover,
                       newDisConnect>>
        /\ newConnect' \in {newConnect, Append(newConnect, c)}
    BY <1>2 DEF PushNewConnect, PeerClose, sockVars, queueVars, mainVars, obsVars
  <2>2. Sockets'
    BY <2>1, <1>t DEF Sockets
  <2> QED
    BY <2>1, <2>2, <1>t, StopIoStep
<1>3. ASSUME NEW c \in Conn, ReadHandler(c) PROVE StopInv'
  <2>1. /\ UNCHANGED <<bClose, closePosted, socket, phase, walked, leftover, newConnect>>
        /\ newDisConnect' \in {newDisConnect, Append(newDisConnect, c)}
    BY <1>3 DEF ReadHandler, OnHandShake, ReadReadyHead, ReadReadyBody,
                ReadWebPackHeadReady, ReadWebPackHeadBodyReady,
                ReadWebPackDataReady, CutWebPacks, ReadError, KeepReading,
                OnBreak, GetNetPack, sockVars, queueVars, mainVars, obsVars
  <2>2. reader[c] # "none" /\ \A d \in Conn \ {c} : reader'[d] = reader[d]
    BY <1>3, <1>t
       DEF ReadHandler, OnHandShake, ReadReadyHead, ReadReadyBody,
           ReadWebPackHeadReady, ReadWebPackHeadBodyReady, ReadWebPackDataReady,
           CutWebPacks, ReadError, KeepReading, OnBreak, AskFor, TypeOK, Waiting
  <2>3. Sockets'
    BY <2>1, <2>2, <1>t DEF Sockets
  <2> QED
    BY <2>1, <2>3, <1>t, StopIoStep
<1>4. ASSUME NEW c \in Conn, handle_close(c) PROVE StopInv'
  <2>1. /\ UNCHANGED <<bClose, reader, phase, walked, leftover, newConnect, newDisConnect>>
        /\ closePosted[c] /\ closePosted' = [closePosted EXCEPT ![c] = FALSE]
        /\ socket' = [socket EXCEPT ![c] = "reset"]
    BY <1>4 DEF handle_close, connVars, queueVars, mainVars, obsVars
  <2>2. \A d \in Conn : /\ closePosted'[d] => closePosted[d]
                        /\ socket'[d] = "reset" => socket[d] = "reset" \/ d = c
                        /\ socket'[d] = "none" => socket[d] = "none"
    BY <2>1, <1>t DEF TypeOK
  <2>3. Sockets'
    BY <2>1, <2>2, <1>t DEF Sockets
  <2> QED
    BY <2>1, <2>3, <1>t, StopIoStep
(* Outside stop() nothing has to be closed. *)
<1>5. ASSUME Sockets',
             phase' \in {"idle", "connect", "pack", "disconnect", "terminated"}
      PROVE  StopInv'
  BY <1>5 DEF StopInv, ToClose
<1>6. CASE \/ TakeConnects \/ NotifyConnect \/ TakePacks \/ FireMessage
           \/ TakeDisConnects \/ UpdateDone \/ \E c \in Conn : OnAcceptThrows(c)
  <2>1. UNCHANGED <<bClose, closePosted, socket, reader>>
    BY <1>6 DEF TakeConnects, NotifyConnect, TakePacks, FireMessage, TakeDisConnects,
       UpdateDone, OnAcceptThrows, connVars, sockVars
  <2>2. phase' \in {"idle", "connect", "pack", "disconnect", "terminated"}
    BY <1>6 DEF TakeConnects, NotifyConnect, TakePacks, FireMessage, TakeDisConnects,
       UpdateDone, OnAcceptThrows
  <2> QED
    BY <1>5, <1>t, <2>1, <2>2 DEF Sockets
<1>7. CASE NotifyDisConnect
  <2>1. UNCHANGED <<socket, reader>> /\ phase' = "disconnect"
        /\ CloseSocket({Head(tmp_newDisConnect)})
    BY <1>7 DEF NotifyDisConnect, connVars
  <2> QED
    BY <1>5, <1>t, <2>1, Closes
<1>8. CASE StopAccept
  <2>1. /\ phase' = "stopNew" /\ walked' = 0
        /\ leftover' = Elements(newConnect) \union Elements(newDisConnect)
        /\ UNCHANGED <<bClose, closePosted, socket, reader, newConnect, newDisConnect>>
    BY <1>8 DEF StopAccept, sockVars, queueVars
  <2>2. ASSUME NEW c \in leftover' PROVE ToClose(c)'
    <3>1. Ahead(c, newConnect, 0) \/ c \in Elements(newDisConnect)
      BY <2>1, <1>t, AheadFromStart
    <3>2. Ahead(c, newConnect', walked') \/ c \in Elements(newDisConnect')
      BY <2>1, <3>1
    <3> QED
      BY <2>1, <3>2 DEF ToClose
  <2> QED
    BY <1>t, <2>1, <2>2 DEF StopInv, Sockets
<1>9. CASE StopClearNew
  <2>1. /\ phase = "clearNew" /\ phase' = "stopBroken" /\ walked' = 0
        /\ UNCHANGED <<bClose, closePosted, socket, reader, leftover, newDisConnect>>
    BY <1>9 DEF StopClearNew, connVars, sockVars, obsVars
  <2>2. ASSUME NEW c \in leftover PROVE ToClose(c)'
    <3>1. bClose[c] \/ c \in Elements(newDisConnect)
      BY <2>1 DEF StopInv, ToClose
    <3>2. bClose[c] \/ Ahead(c, newDisConnect, 0)
      BY <3>1, <1>t, AheadFromStart
    <3>3. bClose'[c] \/ Ahead(c, newDisConnect', walked')
      BY <2>1, <3>2
    <3> QED
      BY <2>1, <3>3 DEF ToClose
  <2> QED
    BY <1>t, <2>1, <2>2 DEF StopInv, Sockets
<1>10. CASE StopClearBroken \/ StopPool
  <2>1. /\ phase \in {"clearBroken", "stopPool"} /\ phase' \in {"stopPool", "stopped"}
        /\ UNCHANGED <<bClose, closePosted, socket, reader, leftover>>
    BY <1>10 DEF StopClearBroken, StopPool, connVars, sockVars, obsVars
  <2>2. ASSUME NEW c \in leftover PROVE ToClose(c)'
    <3>1. bClose'[c]
      BY <2>1 DEF StopInv, ToClose
    <3> QED
      BY <2>1, <3>1 DEF ToClose
  <2> QED
    BY <1>t, <2>1, <2>2 DEF StopInv, Sockets
<1>11. CASE UNCHANGED vars
  <2>1. UNCHANGED <<bClose, closePosted, socket, reader, phase, walked, leftover,
                    newConnect, newDisConnect>>
    BY <1>11 DEF vars, connVars, sockVars, queueVars, mainVars, obsVars
  <2> QED
    BY <2>1 DEF StopInv, Sockets, ToClose
<1> QED
  BY <1>1, <1>2, <1>3, <1>4, <1>6, <1>7, <1>8, <1>9, <1>10, <1>11, <1>t, StopWalkStep
     DEF Next, Update, stop

(* Whatever the io threads push while stop() walks the vectors without     *)
(* their mutexes: what was queued when it began is closed when it has      *)
(* cleared them.                                                           *)
THEOREM StopClosesAll == Spec => []StopClosesQueued
<1>1. Init => StopInv
  BY DEF Init, StopInv, Sockets
<1>2. NetServiceInv /\ StopInv /\ [Next]_vars => StopInv'
  BY StopStep
<1>3. StopInv => StopClosesQueued
  BY DEF StopInv, ToClose, StopClosesQueued
<1> QED
  BY <1>1, <1>2, <1>3, Invariant, PTL DEF Spec
=============================================================================
