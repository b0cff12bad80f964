-------------------------- MODULE ServerLiveProofs --------------------------
(***************************************************************************)
(* Theorems about the start of the game server (Initialer) and the         *)
(* prepared statements (MysqlStmt), each under its own specification and   *)
(* for every set of services, every number of breaks, statements and       *)
(* queries.                                                                *)
(***************************************************************************)
EXTENDS MCServerLive, FiniteSetTheorems, SequenceTheorems, TLAPS

-----------------------------------------------------------------------------
(* Initialer.  A service leaves the set only by a SetInit of its own, so   *)
(* it is enough to know what has happened before such a call.              *)

Calls(s) == \E t \in Start!Thread : call[t].at # "none" /\ call[t].who = s

(* The two connections and the calls they lead to.  The answers of the     *)
(* database are at most one more than its breaks.                          *)
InTime ==
    /\ "db" \in temp => db = "off"
    /\ "account" \in temp => account = "off"
    /\ response + (IF db = "answered" THEN 0 ELSE 1) <= breaks["db"] + 1
    /\ "db" \notin inital_ \/ Calls("db") => loaded /\ temp = {}
    /\ "account" \notin inital_ \/ Calls("account") => Start!AccountConnected
    /\ call["main"].at # "none" => call["main"].who # "account"
    /\ call["io"].at # "none" => call["io"].who = "account"

(* Overlapping calls may leave the count too high, never too low: an empty *)
(* count means an empty set.                                               *)
NotBelow ==
    /\ Cardinality(inital_) <= count
    /\ \A t \in Start!Thread : call[t].at = "erasing" =>
          call[t].size \in Cardinality(inital_)..Cardinality(Start!Service)

(* Without an overlap, one thread at a time is between erase and the test  *)
(* of size(), the count is exact, and nobody comes to the test again.      *)
Alone == ~overlapped =>
    /\ \A t \in Start!Thread :
          call[t].at \in {"erase", "erasing"} => call[t].who \in inital_
    /\ count = Cardinality(inital_)
    /\ \A t \in Start!Thread : call[t].at = "erasing" => call[t].size = count
    /\ \E t \in Start!Thread : call[t].at \notin {"erasing", "size"}
    /\ starts <= 1
    /\ starts = 1 => inital_ = {} /\ \A t \in Start!Thread : call[t].at # "size"

StartIInv ==
    Start!TypeOK /\ InTime /\ NotBelow /\ Alone /\ Start!ReadyBeforeListen

(* Initialer's instance of FiniteSets is the one of this module. *)
LEMMA SameCount ==
    \A S : /\ Start!Cardinality(S) = Cardinality(S)
           /\ Start!IsFiniteSet(S) <=> IsFiniteSet(S)
  BY DEF Start!Cardinality, Cardinality, Start!IsFiniteSet, IsFiniteSet

LEMMA ServicesFinite ==
    /\ IsFiniteSet(Start!Service) /\ Cardinality(Start!Service) \in Nat
    /\ {"account", "db"} \subseteq Start!Service
    /\ "account" \notin Plain /\ "db" \notin Plain /\ MaxBreaks \in Nat
<1>1. IsFiniteSet(Plain) /\ MaxBreaks \in Nat /\ {"account", "db"} \cap Plain = {}
  BY PartsAssumption, SameCount DEF Start!InitialerAssumption
<1>2. IsFiniteSet(Plain \union {"account"})
  BY <1>1, FS_AddElement
<1>3. IsFiniteSet((Plain \union {"account"}) \union {"db"})
  BY <1>2, FS_AddElement
<1>4. Start!Service = (Plain \union {"account"}) \union {"db"}
  BY DEF Start!Service
<1>5. IsFiniteSet(Start!Service)
  BY <1>3, <1>4
<1> QED
  BY <1>1, <1>4, <1>5, FS_CardinalityType

(* The set of services that are not ready, and what an erase makes of it. *)
LEMMA InitalCount ==
    ASSUME NEW S \in SUBSET Start!Service
    PROVE  /\ Cardinality(S) \in 0..Cardinality(Start!Service)
           /\ Cardinality(S) = 0 => S = {}
           /\ \A s : Cardinality(S \ {s}) =
                        IF s \in S THEN Cardinality(S) - 1 ELSE Cardinality(S)
<1>1. IsFiniteSet(S) /\ Cardinality(S) <= Cardinality(Start!Service)
  BY ServicesFinite, FS_Subset
<1>2. Cardinality(S) \in Nat
  BY <1>1, FS_CardinalityType
<1>3. Cardinality(S) = 0 => S = {}
  BY <1>1, FS_EmptySet
<1>4. \A s : Cardinality(S \ {s}) =
                IF s \in S THEN Cardinality(S) - 1 ELSE Cardinality(S)
  BY <1>1, FS_RemoveElement
<1> QED
  BY <1>1, <1>2, <1>3, <1>4, ServicesFinite

LEMMA StartInit == Start!Init => StartIInv
<1> SUFFICES ASSUME Start!Init PROVE StartIInv
  OBVIOUS
<1>0. /\ inital_ = Start!Service /\ count = Cardinality(Start!Service)
      /\ temp = Start!Service /\ account = "off" /\ db = "off"
      /\ breaks = [c \in {"account", "db"} |-> 0] /\ response = 0
      /\ loaded = FALSE /\ starts = 0 /\ overlapped = FALSE
  BY SameCount DEF Start!Init
<1>1. /\ \A t \in Start!Thread : call[t] = [at |-> "none", who |-> "db", size |-> 0]
      /\ call = [t \in Start!Thread |-> [at |-> "none", who |-> "db", size |-> 0]]
  BY DEF Start!Init, Start!Idle
<1>2. Start!TypeOK
  <2>1. loaded \in BOOLEAN /\ overlapped \in BOOLEAN
    BY <1>0
  <2>2. call \in [Start!Thread -> [at : {"none", "find", "erase", "erasing", "size"},
                                   who : Start!Service, size : Int]]
    BY <1>1, ServicesFinite
  <2>3. /\ breaks \in [{"account", "db"} -> 0..MaxBreaks]
        /\ response \in 0..MaxBreaks + 1
        /\ count \in 0..Start!Cardinality(Start!Service)
    BY <1>0, ServicesFinite, SameCount
  <2> QED
    BY <1>0, <2>1, <2>2, <2>3 DEF Start!TypeOK
<1>3. InTime
  BY <1>0, <1>1, ServicesFinite DEF InTime, Calls, Start!Thread
<1>4. NotBelow
  BY <1>0, <1>1, ServicesFinite DEF NotBelow
<1>5. Alone
  BY <1>0, <1>1 DEF Alone, Start!Thread
<1> QED
  BY <1>0, <1>2, <1>3, <1>4, <1>5 DEF StartIInv, Start!ReadyBeforeListen

CallRecord == [at : {"none", "find", "erase", "erasing", "size"},
               who : Start!Service, size : Int]

(* The types, with this module's Cardinality. *)
LEMMA StartTypes ==
    Start!TypeOK <=>
      /\ inital_ \subseteq Start!Service /\ temp \subseteq Start!Service
      /\ count \in 0..Cardinality(Start!Service)
      /\ account \in {"off", "connecting", "up"}
      /\ db \in {"off", "connecting", "asked", "answered"}
      /\ breaks \in [{"account", "db"} -> 0..MaxBreaks]
      /\ response \in 0..MaxBreaks + 1
      /\ loaded \in BOOLEAN /\ overlapped \in BOOLEAN
      /\ call \in [Start!Thread -> CallRecord]
      /\ starts \in Nat
  BY SameCount DEF Start!TypeOK, CallRecord

(* A call that begins disturbs neither the set nor its count. *)
LEMMA CallBegins ==
    ASSUME StartIInv, UNCHANGED <<inital_, count, starts, overlapped>>,
           \A t \in Start!Thread : call'[t] = call[t] \/ call'[t].at = "find"
    PROVE  NotBelow' /\ Alone'
<1>1. NotBelow'
  BY DEF StartIInv, NotBelow
<1>2. Alone'
  <2> SUFFICES ASSUME ~overlapped
               PROVE  /\ \A t \in Start!Thread :
                            call'[t].at \in {"erase", "erasing"} =>
                               call'[t].who \in inital_
                      /\ count = Cardinality(inital_)
                      /\ \A t \in Start!Thread :
                            call'[t].at = "erasing" => call'[t].size = count
                      /\ \E t \in Start!Thread : call'[t].at \notin {"erasing", "size"}
                      /\ starts <= 1
                      /\ starts = 1 => /\ inital_ = {}
                                       /\ \A t \in Start!Thread : call'[t].at # "size"
    BY DEF Alone
  <2>1. /\ \A t \in Start!Thread :
              call[t].at \in {"erase", "erasing"} => call[t].who \in inital_
        /\ count = Cardinality(inital_)
        /\ \A t \in Start!Thread : call[t].at = "erasing" => call[t].size = count
        /\ \E t \in Start!Thread : call[t].at \notin {"erasing", "size"}
        /\ starts <= 1
        /\ starts = 1 => inital_ = {} /\ \A t \in Start!Thread : call[t].at # "size"
    BY DEF StartIInv, Alone
  <2> QED
    BY <2>1
<1> QED
  BY <1>1, <1>2

(* What happens outside SetInit: a service is initialised, a connection is *)
(* made, breaks or answers, the players are loaded.                        *)
LEMMA OutsideStep ==
    ASSUME StartIInv,
           \/ \E s \in Start!Service : Start!Initial(s)
           \/ Start!AccountOnConnect \/ Start!AccountBreaks
           \/ Start!DBOnConnect \/ Start!DBAnswers \/ Start!DBBreaks
           \/ Start!PlayerResponse
    PROVE  StartIInv'
<1>0. /\ inital_ \subseteq Start!Service /\ temp \subseteq Start!Service
      /\ count \in 0..Cardinality(Start!Service)
      /\ account \in {"off", "connecting", "up"}
      /\ db \in {"off", "connecting", "asked", "answered"}
      /\ breaks \in [{"account", "db"} -> 0..MaxBreaks]
      /\ response \in 0..MaxBreaks + 1
      /\ loaded \in BOOLEAN /\ overlapped \in BOOLEAN
      /\ call \in [Start!Thread -> CallRecord]
      /\ starts \in Nat
  BY StartTypes DEF StartIInv
<1>i. InTime /\ Start!ReadyBeforeListen
  BY DEF StartIInv
<1>t. Start!Thread = {"main", "io"} /\ breaks["db"] \in Nat /\ response \in Nat
  BY <1>0, ServicesFinite DEF Start!Thread
<1> USE ServicesFinite
<1>u. ASSUME UNCHANGED <<inital_, count, starts, overlapped>>,
             \A t \in Start!Thread : call'[t] = call[t] \/ call'[t].at = "find",
             call' \in [Start!Thread -> CallRecord],
             temp' \subseteq temp, loaded' \in BOOLEAN, loaded => loaded',
             account' \in {"off", "connecting", "up"},
             Start!AccountConnected => Start!AccountConnected',
             db' \in {"off", "connecting", "asked", "answered"},
             breaks' \in [{"account", "db"} -> 0..MaxBreaks],
             response' \in 0..MaxBreaks + 1, InTime'
      PROVE  StartIInv'
  <2>1. NotBelow' /\ Alone'
    BY <1>u, CallBegins
  <2>2. Start!TypeOK'
    BY <1>0, <1>u, SameCount DEF Start!TypeOK, CallRecord
  <2>3. Start!ReadyBeforeListen'
    BY <1>0, <1>i, <1>u DEF Start!ReadyBeforeListen
  <2> QED
    BY <1>u, <2>1, <2>2, <2>3 DEF StartIInv
<1>1. ASSUME NEW s \in Start!Service, Start!Initial(s) PROVE StartIInv'
  <2>1. /\ s \in temp /\ call["main"].at = "none" /\ temp' = temp \ {s}
        /\ account' = IF s = "account" THEN "connecting" ELSE account
        /\ db' = IF s = "db" THEN "connecting" ELSE db
        /\ call' = IF s \in Plain
                   THEN [call EXCEPT !["main"] =
                           [at |-> "find", who |-> s, size |-> 0]]
                   ELSE call
        /\ UNCHANGED <<inital_, count, breaks, response, loaded, starts, overlapped>>
    BY <1>1 DEF Start!Initial, Start!Free, Start!SetInit
  <2>2. /\ call' \in [Start!Thread -> CallRecord] /\ call'["io"] = call["io"]
        /\ call'["main"] = call["main"]
              \/ (call'["main"].at = "find" /\ call'["main"].who = s /\ s \in Plain)
    BY <1>0, <1>t, <2>1 DEF CallRecord
  <2>3. \A t \in Start!Thread : call'[t] = call[t] \/ call'[t].at = "find"
    BY <1>t, <2>2
  <2>4. Start!AccountConnected => Start!AccountConnected'
    BY <1>i, <2>1 DEF InTime, Start!AccountConnected
  <2>5. InTime'
    <3>1. /\ "db" \in temp' => db' = "off"
          /\ "account" \in temp' => account' = "off"
      BY <1>i, <2>1 DEF InTime
    <3>2. response' + (IF db' = "answered" THEN 0 ELSE 1) <= breaks'["db"] + 1
      BY <1>0, <1>i, <1>t, <2>1 DEF InTime
    <3>3. "db" \notin inital_' \/ Calls("db")' => loaded' /\ temp' = {}
      BY <1>i, <1>t, <2>1, <2>2 DEF InTime, Calls
    <3>4. "account" \notin inital_' \/ Calls("account")' => Start!AccountConnected'
      BY <1>i, <1>t, <2>1, <2>2, <2>4 DEF InTime, Calls
    <3>5. /\ call'["main"].at # "none" => call'["main"].who # "account"
          /\ call'["io"].at # "none" => call'["io"].who = "account"
      BY <1>i, <2>2 DEF InTime
    <3> QED
      BY <3>1, <3>2, <3>3, <3>4, <3>5 DEF InTime
  <2> QED
    BY <1>0, <1>u, <2>1, <2>2, <2>3, <2>5, <2>4
<1>2. ASSUME Start!AccountOnConnect PROVE StartIInv'
  <2>1. /\ call["io"].at = "none" /\ account = "connecting" /\ account' = "up"
        /\ call' = [call EXCEPT !["io"] =
                      [at |-> "find", who |-> "account", size |-> 0]]
        /\ UNCHANGED <<db, breaks, response, loaded, inital_, count, temp, starts,
                       overlapped>>
    BY <1>2 DEF Start!AccountOnConnect, Start!Free, Start!SetInit,
       Start!SetUnchanged
  <2>2. /\ call' \in [Start!Thread -> CallRecord] /\ call'["main"] = call["main"]
        /\ call'["io"].at = "find" /\ call'["io"].who = "account"
    BY <1>0, <1>t, <2>1 DEF CallRecord
  <2>3. \A t \in Start!Thread : call'[t] = call[t] \/ call'[t].at = "find"
    BY <1>t, <2>2
  <2>4. Start!AccountConnected'
    BY <2>1 DEF Start!AccountConnected
  <2>5. InTime'
    <3>1. Calls("db")' => Calls("db")
      BY <1>t, <2>2 DEF Calls
    <3> QED
      BY <1>i, <2>1, <2>2, <2>4, <3>1 DEF InTime
  <2> QED
    BY <1>0, <1>u, <2>1, <2>2, <2>3, <2>5, <2>4
<1>3. ASSUME Start!AccountBreaks PROVE StartIInv'
  <2>1. /\ account = "up" /\ account' = "connecting"
        /\ breaks["account"] < MaxBreaks
        /\ breaks' = [breaks EXCEPT !["account"] = @ + 1]
        /\ UNCHANGED <<db, response, loaded, call, inital_, count, temp, starts,
                       overlapped>>
    BY <1>3 DEF Start!AccountBreaks, Start!SetUnchanged
  <2>2. breaks' \in [{"account", "db"} -> 0..MaxBreaks] /\ breaks'["db"] = breaks["db"]
    BY <1>0, <2>1
  <2>3. Start!AccountConnected'
    BY <1>0, <2>1 DEF Start!AccountConnected
  <2>4. InTime'
    BY <1>i, <2>1, <2>2, <2>3 DEF InTime, Calls
  <2> QED
    BY <1>0, <1>u, <2>1, <2>2, <2>3, <2>4
<1>4. ASSUME Start!DBOnConnect PROVE StartIInv'
  <2>1. /\ db = "connecting" /\ db' = "asked"
        /\ UNCHANGED <<account, breaks, response, loaded, call, inital_, count,
                       temp, starts, overlapped>>
    BY <1>4 DEF Start!DBOnConnect, Start!SetUnchanged
  <2>2. InTime'
    BY <1>i, <2>1 DEF InTime, Calls, Start!AccountConnected
  <2> QED
    BY <1>0, <1>u, <2>1, <2>2 DEF Start!AccountConnected
<1>5. ASSUME Start!DBAnswers PROVE StartIInv'
  <2>1. /\ db = "asked" /\ db' = "answered" /\ response' = response + 1
        /\ UNCHANGED <<account, breaks, loaded, call, inital_, count, temp, starts,
                       overlapped>>
    BY <1>5 DEF Start!DBAnswers, Start!SetUnchanged
  <2>2. response' <= breaks["db"] + 1
    BY <1>i, <1>t, <2>1 DEF InTime
  <2>3. InTime'
    BY <1>i, <1>t, <2>1, <2>2 DEF InTime, Calls, Start!AccountConnected
  <2>4. response' \in 0..MaxBreaks + 1
    BY <1>0, <1>t, <2>1, <2>2
  <2> QED
    BY <1>0, <1>u, <2>1, <2>3, <2>4 DEF Start!AccountConnected
<1>6. ASSUME Start!DBBreaks PROVE StartIInv'
  <2>1. /\ db \in {"asked", "answered"} /\ db' = "connecting"
        /\ breaks["db"] < MaxBreaks
        /\ breaks' = [breaks EXCEPT !["db"] = @ + 1]
        /\ UNCHANGED <<account, response, loaded, call, inital_, count, temp,
                       starts, overlapped>>
    BY <1>6 DEF Start!DBBreaks, Start!SetUnchanged
  <2>2. /\ breaks' \in [{"account", "db"} -> 0..MaxBreaks]
        /\ breaks'["db"] = breaks["db"] + 1
        /\ breaks'["account"] = breaks["account"]
    BY <1>0, <2>1
  <2>3. response' + 1 <= breaks'["db"] + 1
    BY <1>i, <1>t, <2>1, <2>2 DEF InTime
  <2>4. InTime'
    BY <1>i, <2>1, <2>2, <2>3 DEF InTime, Calls, Start!AccountConnected
  <2> QED
    BY <1>0, <1>u, <2>1, <2>2, <2>4 DEF Start!AccountConnected
<1>7. ASSUME Start!PlayerResponse PROVE StartIInv'
  <2>1. /\ temp = {} /\ call["main"].at = "none" /\ response > 0
        /\ response' = response - 1 /\ loaded' = TRUE
        /\ call' = [call EXCEPT !["main"] =
                      [at |-> "find", who |-> "db", size |-> 0]]
        /\ UNCHANGED <<account, db, breaks, inital_, count, temp, starts, overlapped>>
    BY <1>7 DEF Start!PlayerResponse, Start!Free, Start!SetInit, Start!SetUnchanged
  <2>2. /\ call' \in [Start!Thread -> CallRecord] /\ call'["io"] = call["io"]
        /\ call'["main"].at = "find" /\ call'["main"].who = "db"
    BY <1>0, <1>t, <2>1 DEF CallRecord
  <2>3. \A t \in Start!Thread : call'[t] = call[t] \/ call'[t].at = "find"
    BY <1>t, <2>2
  <2>4. loaded' \in BOOLEAN /\ loaded'
    BY <2>1
  <2>5. InTime'
    <3>1. Calls("account")' => Calls("account")
      BY <1>t, <2>2 DEF Calls
    <3>2. response' + (IF db' = "answered" THEN 0 ELSE 1) <= breaks'["db"] + 1
      BY <1>i, <1>t, <2>1 DEF InTime
    <3> QED
      BY <1>i, <2>1, <2>2, <2>4, <3>1, <3>2 DEF InTime, Start!AccountConnected
  <2>6. response' \in 0..MaxBreaks + 1
    BY <1>0, <1>t, <2>1
  <2> QED
    BY <1>0, <1>u, <2>1, <2>2, <2>3, <2>4, <2>5, <2>6 DEF Start!AccountConnected
<1> QED
  BY <1>1, <1>2, <1>3, <1>4, <1>5, <1>6, <1>7

(* SetInit, step by step. *)
LEMMA InsideStep ==
    ASSUME StartIInv, NEW t \in Start!Thread, Start!SetInitStep(t)
    PROVE  StartIInv'
<1> DEFINE o == Start!Other(t)
           n == Cardinality(inital_)
           max == Cardinality(Start!Service)
<1>0. /\ inital_ \subseteq Start!Service /\ temp \subseteq Start!Service
      /\ count \in 0..max
      /\ loaded \in BOOLEAN /\ overlapped \in BOOLEAN
      /\ call \in [Start!Thread -> CallRecord]
      /\ starts \in Nat /\ max \in Nat
  BY StartTypes, ServicesFinite DEF StartIInv
<1>i. InTime /\ Start!ReadyBeforeListen /\ NotBelow /\ Alone
  BY DEF StartIInv
<1>t. Start!Thread = {t, o} /\ t # o /\ Start!Thread = {"main", "io"}
  BY DEF Start!Thread, Start!Other
<1>n. n \in 0..max /\ (n = 0 => inital_ = {})
  BY <1>0, InitalCount
<1>r. /\ call[t] \in CallRecord /\ call[o] \in CallRecord
      /\ call[t].at \in {"none", "find", "erase", "erasing", "size"}
      /\ call[t].who \in Start!Service /\ call[t].size \in Int
  BY <1>0, <1>t DEF CallRecord
<1>b. (~overlapped /\ call[t].at # "none" /\ call[o].at # "none")
         => call[t].who # call[o].who
  BY <1>i, <1>t DEF InTime
<1> HIDE DEF o, n, max
<1>u. ASSUME UNCHANGED <<temp, account, db, breaks, response, loaded>>,
             inital_' \subseteq inital_, inital_ \subseteq inital_' \union {call[t].who},
             inital_' # inital_ => call[t].at # "none",
             call' \in [Start!Thread -> CallRecord], call'[o] = call[o],
             call'[t].at = "none" \/ (call'[t].who = call[t].who /\ call[t].at # "none"),
             overlapped' \in BOOLEAN, count' \in 0..max, starts' \in Nat,
             starts' > 0 => starts > 0 \/ inital_ = {}
      PROVE  Start!TypeOK' /\ InTime' /\ Start!ReadyBeforeListen'
  <2>1. Start!TypeOK'
    <3>1. count' \in 0..Start!Cardinality(Start!Service)
      BY <1>u, SameCount DEF max
    <3>2. inital_' \subseteq Start!Service
      BY <1>0, <1>u
    <3> QED
      BY <1>u, <3>1, <3>2 DEF StartIInv, Start!TypeOK, CallRecord
  <2>2. ASSUME NEW s PROVE Calls(s)' => Calls(s)
    BY <1>t, <1>u DEF Calls
  <2>3. ASSUME NEW s, s \notin inital_' PROVE s \notin inital_ \/ Calls(s)
    BY <1>t, <1>u, <2>3 DEF Calls
  <2>4. InTime'
    <3>1. "db" \notin inital_' \/ Calls("db")' => loaded' /\ temp' = {}
      BY <1>i, <1>u, <2>2, <2>3 DEF InTime
    <3>2. "account" \notin inital_' \/ Calls("account")' => Start!AccountConnected'
      BY <1>i, <1>u, <2>2, <2>3 DEF InTime, Start!AccountConnected
    <3>3. /\ call'["main"].at # "none" => call'["main"].who # "account"
          /\ call'["io"].at # "none" => call'["io"].who = "account"
      BY <1>i, <1>t, <1>u DEF InTime
    <3> QED
      BY <1>i, <1>u, <3>1, <3>2, <3>3 DEF InTime
  <2>5. Start!ReadyBeforeListen'
    <3>1. CASE starts > 0
      BY <1>i, <1>u, <3>1 DEF Start!ReadyBeforeListen, Start!AccountConnected
    <3>2. CASE inital_ = {}
      BY <1>i, <1>u, <3>2 DEF Start!ReadyBeforeListen, InTime, Start!AccountConnected
    <3>3. CASE ~(starts' > 0)
      BY <3>3 DEF Start!ReadyBeforeListen
    <3> QED
      BY <1>u, <3>1, <3>2, <3>3
  <2> QED
    BY <2>1, <2>4, <2>5
<1>a. ASSUME ~overlapped
      PROVE  /\ \A k \in {t, o} :
                   call[k].at \in {"erase", "erasing"} => call[k].who \in inital_
             /\ count = n
             /\ \A k \in {t, o} : call[k].at = "erasing" => call[k].size = count
             /\ call[t].at \notin {"erasing", "size"} \/ call[o].at \notin {"erasing", "size"}
             /\ starts <= 1
             /\ starts = 1 => /\ inital_ = {}
                              /\ call[t].at # "size" /\ call[o].at # "size"
  BY <1>a, <1>i, <1>t DEF Alone, n
<1>c. ASSUME ~overlapped' =>
                /\ \A k \in {t, o} :
                      call'[k].at \in {"erase", "erasing"} => call'[k].who \in inital_'
                /\ count' = Cardinality(inital_')
                /\ \A k \in {t, o} : call'[k].at = "erasing" => call'[k].size = count'
                /\ \/ call'[t].at \notin {"erasing", "size"}
                   \/ call'[o].at \notin {"erasing", "size"}
                /\ starts' <= 1
                /\ starts' = 1 => /\ inital_' = {}
                                  /\ call'[t].at # "size" /\ call'[o].at # "size"
      PROVE  Alone'
  BY <1>c, <1>t DEF Alone
<1>1. CASE Start!Find(t)
  <2>1. /\ call[t].at = "find"
        /\ overlapped' = (overlapped \/ call[o].at = "erasing")
        /\ UNCHANGED <<temp, account, db, breaks, response, loaded, inital_, count,
                       starts>>
    BY <1>1 DEF Start!Find, Start!CallUnchanged, o
  <2>2. /\ call' \in [Start!Thread -> CallRecord] /\ call'[o] = call[o]
        /\ \/ call'[t].at = "none"
           \/ /\ call'[t].at = "erase" /\ call'[t].who = call[t].who
              /\ call[t].who \in inital_
    <3>1. CASE call[t].who \in inital_ /\ Start!Goes(t, "erase")
      BY <1>0, <1>r, <1>t, <3>1 DEF Start!Goes, CallRecord
    <3>2. CASE Start!Returns(t)
      BY <1>0, <1>r, <1>t, <3>2, ServicesFinite DEF Start!Returns, Start!Idle, CallRecord
    <3> QED
      BY <1>1, <3>1, <3>2 DEF Start!Find
  <2>3. overlapped' \in BOOLEAN
    BY <2>1
  <2>4. Start!TypeOK' /\ InTime' /\ Start!ReadyBeforeListen'
    BY <1>0, <1>u, <2>1, <2>2, <2>3
  <2>5. NotBelow'
    BY <1>i, <1>t, <2>1, <2>2 DEF NotBelow
  <2>6. Alone'
    <3>1. ASSUME ~overlapped'
          PROVE  /\ ~overlapped /\ call[o].at # "erasing"
                 /\ call'[t].at \notin {"erasing", "size"}
      BY <2>1, <2>2, <3>1
    <3> QED
      BY <1>a, <1>c, <2>1, <2>2, <3>1 DEF n
  <2> QED
    BY <2>4, <2>5, <2>6 DEF StartIInv
<1>2. CASE Start!EraseBegins(t)
  <2>1. /\ call[t].at = "erase"
        /\ call' = [call EXCEPT ![t].at = "erasing", ![t].size = count]
        /\ overlapped' = (overlapped \/ call[o].at \in {"erasing", "size"})
        /\ UNCHANGED <<temp, account, db, breaks, response, loaded, inital_, count,
                       starts>>
    BY <1>2 DEF Start!EraseBegins, Start!CallUnchanged, o
  <2>2. /\ call' \in [Start!Thread -> CallRecord] /\ call'[o] = call[o]
        /\ call'[t].at = "erasing" /\ call'[t].who = call[t].who
        /\ call'[t].size = count
    <3>1. count \in Int
      BY <1>0
    <3>2. call'[o] = call[o]
      BY <1>0, <1>t, <2>1
    <3>3. call'[t] = [at |-> "erasing", who |-> call[t].who, size |-> count]
      BY <1>0, <1>r, <2>1 DEF CallRecord
    <3>4. call'[t] \in CallRecord
      BY <1>r, <3>1, <3>3 DEF CallRecord
    <3> QED
      BY <1>0, <1>r, <1>t, <2>1, <3>2, <3>3, <3>4
  <2>3. overlapped' \in BOOLEAN
    BY <2>1
  <2>4. Start!TypeOK' /\ InTime' /\ Start!ReadyBeforeListen'
    BY <1>0, <1>u, <2>1, <2>2, <2>3
  <2>5. NotBelow'
    BY <1>0, <1>i, <1>n, <1>t, <2>1, <2>2 DEF NotBelow, n, max
  <2>6. Alone'
    <3>1. ASSUME ~overlapped'
          PROVE  ~overlapped /\ call[o].at \notin {"erasing", "size"}
      BY <2>1, <3>1
    <3>2. ASSUME ~overlapped'
          PROVE  /\ starts <= 1 /\ starts # 1 /\ count = Cardinality(inital_)
                 /\ call[t].who \in inital_
                 /\ call[o].at = "erase" => call[o].who \in inital_
      BY <1>a, <2>1, <3>1, <3>2 DEF n
    <3>3. inital_' = inital_ /\ count' = count /\ starts' = starts
      BY <2>1
    <3> QED
      BY <1>c, <2>2, <3>1, <3>2, <3>3
  <2> QED
    BY <2>4, <2>5, <2>6 DEF StartIInv
<1>3. CASE Start!EraseEnds(t)
  <2>1. /\ call[t].at = "erasing"
        /\ inital_' = inital_ \ {call[t].who}
        /\ count' = IF call[t].who \in inital_ THEN call[t].size - 1 ELSE call[t].size
        /\ call' = [call EXCEPT ![t].at = "size"]
        /\ UNCHANGED <<temp, account, db, breaks, response, loaded, starts, overlapped>>
    BY <1>3 DEF Start!EraseEnds, Start!Goes, Start!CallUnchanged
  <2>2. /\ call' \in [Start!Thread -> CallRecord] /\ call'[o] = call[o]
        /\ call'[t].at = "size" /\ call'[t].who = call[t].who
    BY <1>0, <1>r, <1>t, <2>1 DEF CallRecord
  <2>3. /\ Cardinality(inital_') = IF call[t].who \in inital_ THEN n - 1 ELSE n
        /\ Cardinality(inital_') \in Nat
    BY <1>0, <2>1, InitalCount DEF n
  <2>4. call[t].size \in n..max
    BY <1>i, <1>t, <2>1 DEF NotBelow, n, max
  <2>5. count' \in 0..max /\ Cardinality(inital_') <= count'
    BY <1>0, <1>n, <2>1, <2>3, <2>4
  <2>6. Start!TypeOK' /\ InTime' /\ Start!ReadyBeforeListen'
    BY <1>0, <1>u, <2>1, <2>2, <2>5
  <2>7. NotBelow'
    <3>1. ASSUME call[o].at = "erasing" PROVE call[o].size \in n..max
      BY <1>i, <1>t, <3>1 DEF NotBelow, n, max
    <3>2. ASSUME call[o].at = "erasing"
          PROVE  call[o].size \in Cardinality(inital_')..max
      BY <1>0, <1>n, <2>3, <3>1, <3>2
    <3> QED
      BY <1>t, <2>2, <2>5, <3>2 DEF NotBelow, max
  <2>8. Alone'
    <3>1. ASSUME ~overlapped
          PROVE  /\ call[t].who \in inital_ /\ call[t].size = n
                 /\ call[o].at \notin {"erasing", "size"} /\ starts # 1
      BY <1>a, <2>1, <3>1
    <3>2. ASSUME ~overlapped PROVE count' = Cardinality(inital_')
      BY <2>1, <2>3, <3>1, <3>2
    <3>3. ASSUME ~overlapped, call[o].at = "erase" PROVE call[o].who \in inital_'
      BY <1>a, <1>b, <2>1, <3>3
    <3> QED
      BY <1>a, <1>c, <2>1, <2>2, <3>1, <3>2, <3>3
  <2> QED
    BY <2>6, <2>7, <2>8 DEF StartIInv
<1>4. CASE Start!TestSize(t)
  <2>1. /\ call[t].at = "size"
        /\ starts' = IF count = 0 THEN starts + 1 ELSE starts
        /\ call' = [call EXCEPT ![t] = [at |-> "none", who |-> "db", size |-> 0]]
        /\ UNCHANGED <<temp, account, db, breaks, response, loaded, inital_, count,
                       overlapped>>
    BY <1>4 DEF Start!TestSize, Start!Returns, Start!Idle, Start!CallUnchanged
  <2>2. /\ call' \in [Start!Thread -> CallRecord] /\ call'[o] = call[o]
        /\ call'[t].at = "none"
    BY <1>0, <1>t, <2>1, ServicesFinite DEF CallRecord
  <2>3. count = 0 => inital_ = {}
    BY <1>0, <1>i, <1>n DEF NotBelow, n
  <2>4. starts' \in Nat /\ (starts' > 0 => starts > 0 \/ inital_ = {})
    BY <1>0, <2>1, <2>3
  <2>5. Start!TypeOK' /\ InTime' /\ Start!ReadyBeforeListen'
    BY <1>0, <1>u, <2>1, <2>2, <2>4
  <2>6. NotBelow'
    BY <1>i, <1>t, <2>1, <2>2 DEF NotBelow
  <2>7. Alone'
    <3>1. ASSUME ~overlapped
          PROVE  /\ starts = 0 /\ call[o].at \notin {"erasing", "size"}
                 /\ starts' <= 1 /\ (starts' = 1 => inital_ = {})
      BY <1>0, <1>a, <2>1, <2>3, <3>1
    <3> QED
      BY <1>a, <1>c, <2>1, <2>2, <3>1 DEF n
  <2> QED
    BY <2>5, <2>6, <2>7 DEF StartIInv
<1> QED
  BY <1>1, <1>2, <1>3, <1>4 DEF Start!SetInitStep

LEMMA StartKept == Start!Spec => []StartIInv
<1>1. Start!Init => StartIInv
  BY StartInit
<1>2. StartIInv /\ [Start!Next]_(Start!vars) => StartIInv'
  <2> SUFFICES ASSUME StartIInv, [Start!Next]_(Start!vars) PROVE StartIInv'
    OBVIOUS
  <2>1. CASE Start!Next
    BY <2>1, OutsideStep, InsideStep DEF Start!Next
  <2>2. CASE UNCHANGED Start!vars
    BY <2>2 DEF Start!vars, StartIInv, Start!TypeOK, InTime, Calls, NotBelow,
       Alone, Start!ReadyBeforeListen, Start!AccountConnected
  <2> QED
    BY <2>1, <2>2
<1> QED
  BY <1>1, <1>2, PTL DEF Start!Spec

(* The game server listens only when initial_mgr has called every service, *)
(* the players are loaded and the account server has been connected, even  *)
(* when two calls of SetInit overlap; the set and its count stay within    *)
(* the services.                                                           *)
THEOREM ListensReady == Start!Spec => []StartInv
<1>1. StartIInv => StartInv
  BY DEF StartIInv, StartInv, Start!StartInv
<1> QED
  BY <1>1, StartKept, PTL

(* AllInitialOK is called once, however often the connections break, as    *)
(* long as no two calls of SetInit overlap.                                *)
THEOREM StartsOnce == Start!Spec => []ListensOnce
<1>1. StartIInv => ListensOnce
  BY DEF StartIInv, Alone, ListensOnce, Start!ListensOnce
<1> QED
  BY <1>1, StartKept, PTL

-----------------------------------------------------------------------------
(* MysqlStmt.  The place of a query in its list and the turns that have    *)
(* passed since it was submitted make up the queries it waited behind.     *)

LogEntry == [stmt : Statement, at : Nat, before : Nat, run : Nat]
Told == {"none", "rows", "failed", "dropped"}

StmtTypes ==
    /\ stmts \subseteq Statement /\ todo \subseteq stmts /\ turn \in Nat
    /\ CircularQuerys \in [Statement -> Seq(Stmts!Entry)]
    /\ log \in Seq(LogEntry) /\ outcome \in Seq(Told)
    /\ Len(outcome) = Len(log) /\ Len(log) <= MaxQueries

(* Update() has begun its turn and has not come to s. *)
Ahead(s) == IF s \in todo THEN 1 ELSE 0

Unrun(q, s) == log[q].stmt = s /\ outcome[q] # "dropped" /\ log[q].run = 0

(* The list l of s is the lone null entry, or the queries of s that have   *)
(* not run, in order, each where its turn says.                            *)
PlacedIn(s, l) ==
    /\ l = <<NULL>> \/ \A i \in DOMAIN l : l[i] \in 1..Len(log)
    /\ l # <<>> => s \in stmts
    /\ l # <<NULL>> =>
         /\ \A i, j \in DOMAIN l : i < j => l[i] < l[j]
         /\ \A i \in DOMAIN l :
               /\ Unrun(l[i], s)
               /\ log[l[i]].at + log[l[i]].before + 1 + Ahead(s) = turn + i
    /\ \A q \in 1..Len(log) : Unrun(q, s) => \E i \in DOMAIN l : l[i] = q

StmtIInv ==
    /\ StmtTypes
    /\ \A s \in Statement : PlacedIn(s, CircularQuerys[s])
    /\ Stmts!InTurn

LEMMA StmtNumbers ==
    /\ Select \subseteq Statement /\ MaxQueries \in Nat /\ NULL \notin Nat
    /\ \A S : Stmts!Cardinality(S) = Cardinality(S)
<1>1. \A S : Stmts!Cardinality(S) = Cardinality(S)
  BY DEF Stmts!Cardinality, Cardinality, Stmts!IsFiniteSet, IsFiniteSet
<1> QED
  BY <1>1, PartsAssumption DEF Stmts!StmtAssumption

(* A list is the lone null entry or has no null entry at all. *)
LEMMA ListShape ==
    ASSUME StmtIInv, NEW s \in Statement
    PROVE  /\ CircularQuerys[s] \in Seq(Stmts!Entry)
           /\ Stmts!LoneNull(s) <=> CircularQuerys[s] = <<NULL>>
           /\ CircularQuerys[s] # <<NULL>> =>
                 /\ \A i \in DOMAIN CircularQuerys[s] :
                       CircularQuerys[s][i] \in 1..Len(log)
                 /\ Stmts!Waiting(s) = 1..Len(CircularQuerys[s])
           /\ CircularQuerys[s] = <<NULL>> => Stmts!Waiting(s) = {}
<1> DEFINE l == CircularQuerys[s]
<1>0. l \in Seq(Stmts!Entry) /\ PlacedIn(s, l) /\ NULL \notin Nat /\ Len(log) \in Nat
  BY StmtNumbers DEF StmtIInv, StmtTypes
<1> HIDE DEF l
<1>1. DOMAIN l = 1..Len(l) /\ Len(l) \in Nat
  BY <1>0
<1>2. l # <<NULL>> => \A i \in DOMAIN l : l[i] \in 1..Len(log) /\ l[i] # NULL
  BY <1>0 DEF PlacedIn
<1>3. Len(l) = 1 /\ Head(l) = NULL <=> l = <<NULL>>
  <2>1. l = <<NULL>> => Len(l) = 1 /\ Head(l) = NULL
    OBVIOUS
  <2>2. ASSUME Len(l) = 1, Head(l) = NULL PROVE l = <<NULL>>
    <3>1. 1 \in DOMAIN l /\ l[1] = NULL
      BY <1>0, <1>1, <2>2
    <3> QED
      BY <1>2, <3>1
  <2> QED
    BY <2>1, <2>2
<1>4. l # <<NULL>> => Stmts!Waiting(s) = 1..Len(l)
  BY <1>1, <1>2 DEF Stmts!Waiting, l
<1>5. l = <<NULL>> => Stmts!Waiting(s) = {}
  BY <1>1 DEF Stmts!Waiting, l
<1> QED
  BY <1>0, <1>2, <1>3, <1>4, <1>5 DEF l, Stmts!LoneNull

LEMMA StmtInit == Stmts!Init => StmtIInv
<1> SUFFICES ASSUME Stmts!Init PROVE StmtIInv
  OBVIOUS
<1>0. /\ stmts = {} /\ todo = {} /\ outcome = <<>> /\ turn = 0 /\ log = <<>>
      /\ CircularQuerys = [r \in Statement |-> <<>>]
  BY DEF Stmts!Init
<1>1. StmtTypes
  BY <1>0, StmtNumbers DEF StmtTypes
<1>2. ASSUME NEW s \in Statement PROVE PlacedIn(s, CircularQuerys[s])
  <2>1. CircularQuerys[s] = <<>>
    BY <1>0
  <2> QED
    BY <1>0, <2>1 DEF PlacedIn
<1>3. Stmts!InTurn
  BY <1>0 DEF Stmts!InTurn, Stmts!Query
<1> QED
  BY <1>1, <1>2, <1>3 DEF StmtIInv

(* What the two submissions have in common: a new entry of the log. *)
LEMMA Submitted ==
    ASSUME StmtIInv, NEW e \in LogEntry, NEW w \in Told, e.run = 0,
           log' = Append(log, e), outcome' = Append(outcome, w), turn' = turn,
           todo = {}, todo' = todo, stmts \subseteq stmts', Len(log) < MaxQueries
    PROVE  /\ log' \in Seq(LogEntry) /\ outcome' \in Seq(Told)
           /\ Len(outcome') = Len(log') /\ Len(log') = Len(log) + 1
           /\ Len(log) \in Nat /\ Len(log') <= MaxQueries
           /\ log'[Len(log) + 1] = e /\ outcome'[Len(log) + 1] = w
           /\ \A q \in 1..Len(log) : log'[q] = log[q] /\ outcome'[q] = outcome[q]
           /\ Stmts!InTurn'
           /\ \A r \in Statement :
                 /\ CircularQuerys'[r] = CircularQuerys[r]
                 /\ e.stmt # r \/ w = "dropped"
                 => PlacedIn(r, CircularQuerys[r])'
<1>n. PICK n : n = Len(log)
  OBVIOUS
<1>0. /\ log \in Seq(LogEntry) /\ outcome \in Seq(Told) /\ Len(outcome) = n
      /\ n \in Nat /\ MaxQueries \in Nat
  BY <1>n, StmtNumbers DEF StmtIInv, StmtTypes
<1>1. /\ log' \in Seq(LogEntry) /\ outcome' \in Seq(Told)
      /\ Len(log') = n + 1 /\ Len(outcome') = n + 1
      /\ log'[n + 1] = e /\ outcome'[n + 1] = w
      /\ \A q \in 1..n : log'[q] = log[q] /\ outcome'[q] = outcome[q]
  BY <1>0, <1>n, AppendProperties
<1>2. DOMAIN log = 1..n /\ DOMAIN log' = 1..n + 1
  BY <1>0, <1>1, <1>n
<1>3. Stmts!InTurn'
  <2> SUFFICES ASSUME NEW q \in 1..n + 1, log'[q].run > 0
               PROVE  log'[q].run = log'[q].at + log'[q].before + 1
    BY <1>2 DEF Stmts!InTurn, Stmts!Query, Stmts!Ran
  <2>1. q \in 1..n
    BY <1>0, <1>1
  <2> QED
    BY <1>1, <1>2, <2>1 DEF StmtIInv, Stmts!InTurn, Stmts!Query, Stmts!Ran
<1>4. ASSUME NEW r \in Statement, CircularQuerys'[r] = CircularQuerys[r],
             e.stmt # r \/ w = "dropped"
      PROVE  PlacedIn(r, CircularQuerys[r])'
  <2>0. PICK l : l = CircularQuerys[r]
    OBVIOUS
  <2>1. PlacedIn(r, l)
    BY <2>0 DEF StmtIInv
  <2>2. \A q \in 1..n : Unrun(q, r)' <=> Unrun(q, r)
    BY <1>1 DEF Unrun
  <2>3. ~Unrun(n + 1, r)'
    BY <1>1, <1>4 DEF Unrun
  <2>4. Ahead(r)' = Ahead(r)
    BY DEF Ahead
  <2>5. l = <<NULL>> \/ \A i \in DOMAIN l : l[i] \in 1..n
    BY <1>n, <2>1 DEF PlacedIn
  <2>6. PlacedIn(r, l)'
    <3>1. l = <<NULL>> \/ \A i \in DOMAIN l : l[i] \in 1..n + 1
      BY <1>0, <2>5
    <3>2. l # <<>> => r \in stmts'
      BY <2>1 DEF PlacedIn
    <3>3. ASSUME l # <<NULL>>
          PROVE  /\ \A i, j \in DOMAIN l : i < j => l[i] < l[j]
                 /\ \A i \in DOMAIN l :
                       /\ Unrun(l[i], r)'
                       /\ log'[l[i]].at + log'[l[i]].before + 1 + Ahead(r)' = turn' + i
      BY <1>1, <2>1, <2>2, <2>4, <2>5, <3>3 DEF PlacedIn
    <3>4. ASSUME NEW q \in 1..n + 1, Unrun(q, r)' PROVE \E i \in DOMAIN l : l[i] = q
      <4>1. q \in 1..n
        <5>1. q # n + 1
          BY <2>3, <3>4
        <5> QED
          BY <1>0, <5>1
      <4> QED
        BY <1>n, <2>1, <2>2, <3>4, <4>1 DEF PlacedIn
    <3> QED
      BY <1>1, <3>1, <3>2, <3>3, <3>4 DEF PlacedIn
  <2> QED
    BY <1>4, <2>0, <2>6
<1> QED
  BY <1>0, <1>1, <1>3, <1>4, <1>n

(* The queries in the list of s, the null entry left out. *)
LEMMA Queued ==
    ASSUME StmtIInv, NEW s \in Statement
    PROVE  \E m \in Seq(1..Len(log)) :
             /\ m = IF CircularQuerys[s] = <<NULL>> THEN <<>> ELSE CircularQuerys[s]
             /\ Len(m) \in Nat /\ DOMAIN m = 1..Len(m)
             /\ Stmts!Cardinality(Stmts!Waiting(s)) = Len(m)
             /\ \A k : Stmts!With(s, k) = Append(m, k)
             /\ \A i, j \in DOMAIN m : i < j => m[i] < m[j]
             /\ \A i \in DOMAIN m :
                   /\ Unrun(m[i], s)
                   /\ log[m[i]].at + log[m[i]].before + 1 + Ahead(s) = turn + i
             /\ \A q \in 1..Len(log) : Unrun(q, s) => \E i \in DOMAIN m : m[i] = q
<1>1. PICK l : l = CircularQuerys[s]
  OBVIOUS
<1>2. /\ l \in Seq(Stmts!Entry) /\ PlacedIn(s, l) /\ NULL \notin Nat
      /\ Len(log) \in Nat /\ Stmts!LoneNull(s) <=> l = <<NULL>>
  BY <1>1, ListShape, StmtNumbers DEF StmtIInv, StmtTypes
<1>3. CASE l = <<NULL>>
  <2>1. Stmts!Cardinality(Stmts!Waiting(s)) = 0
    BY <1>1, <1>3, ListShape, StmtNumbers, FS_EmptySet
  <2>2. \A k : Stmts!With(s, k) = Append(<<>>, k)
    BY <1>2, <1>3 DEF Stmts!With
  <2>3. \A q \in 1..Len(log) : ~Unrun(q, s)
    <3>1. DOMAIN l = {1} /\ l[1] = NULL
      BY <1>3
    <3> QED
      BY <1>2, <3>1 DEF PlacedIn
  <2>4. <<>> \in Seq(1..Len(log)) /\ Len(<<>>) = 0 /\ DOMAIN <<>> = {} /\ 1..0 = {}
    OBVIOUS
  <2> WITNESS <<>> \in Seq(1..Len(log))
  <2> QED
    BY <1>1, <1>3, <2>1, <2>2, <2>3, <2>4
<1>4. CASE l # <<NULL>>
  <2>1. l \in Seq(1..Len(log)) /\ Len(l) \in Nat /\ DOMAIN l = 1..Len(l)
    BY <1>1, <1>2, <1>4, ListShape, ElementOfSeq
  <2>2. Stmts!Cardinality(Stmts!Waiting(s)) = Len(l)
    <3>1. Stmts!Waiting(s) = 1..Len(l)
      BY <1>1, <1>4, ListShape
    <3>2. Cardinality(1..Len(l)) = Len(l)
      <4>1. Len(l) \in Nat /\ Len(l) \in Int /\ 1 \in Int
        BY <2>1
      <4>2. Cardinality(1..Len(l)) = IF 1 > Len(l) THEN 0 ELSE Len(l) - 1 + 1
        BY <4>1, FS_Interval, Zenon
      <4> QED
        BY <4>1, <4>2
    <3> QED
      BY <3>1, <3>2, StmtNumbers
  <2>3. \A k : Stmts!With(s, k) = Append(l, k)
    BY <1>1, <1>2, <1>4 DEF Stmts!With
  <2> QED
    BY <1>1, <1>2, <1>4, <2>1, <2>2, <2>3 DEF PlacedIn
<1> QED
  BY <1>3, <1>4

LEMMA AsynStep ==
    ASSUME StmtIInv, NEW s \in Statement, Stmts!AsynExecuteQueryVariable(s)
    PROVE  StmtIInv'
<1>n. PICK n : n = Len(log)
  OBVIOUS
<1>m. PICK m \in Seq(1..n) :
        /\ Len(m) \in Nat /\ DOMAIN m = 1..Len(m)
        /\ Stmts!Cardinality(Stmts!Waiting(s)) = Len(m)
        /\ \A k : Stmts!With(s, k) = Append(m, k)
        /\ \A i, j \in DOMAIN m : i < j => m[i] < m[j]
        /\ \A i \in DOMAIN m :
              /\ Unrun(m[i], s)
              /\ log[m[i]].at + log[m[i]].before + 1 + Ahead(s) = turn + i
        /\ \A q \in 1..n : Unrun(q, s) => \E i \in DOMAIN m : m[i] = q
  BY <1>n, Queued
<1>e. PICK e : e = [stmt |-> s, at |-> turn, before |-> Len(m), run |-> 0]
  OBVIOUS
<1>0. /\ todo = {} /\ n + 1 <= MaxQueries /\ stmts' = stmts \union {s}
      /\ CircularQuerys' = [CircularQuerys EXCEPT ![s] = Append(m, n + 1)]
      /\ outcome' = Append(outcome, "none") /\ log' = Append(log, e)
      /\ todo' = todo /\ turn' = turn
  BY <1>e, <1>m, <1>n DEF Stmts!AsynExecuteQueryVariable, Stmts!Entered
<1>1. /\ stmts \subseteq Statement /\ turn \in Nat /\ n \in Nat /\ MaxQueries \in Nat
      /\ CircularQuerys \in [Statement -> Seq(Stmts!Entry)]
  BY <1>n, StmtNumbers DEF StmtIInv, StmtTypes
<1>2. e \in LogEntry /\ "none" \in Told /\ e.run = 0 /\ e.stmt = s
  BY <1>e, <1>m, <1>1 DEF LogEntry, Told
<1>3. /\ log' \in Seq(LogEntry) /\ outcome' \in Seq(Told)
      /\ Len(outcome') = Len(log') /\ Len(log') = n + 1 /\ Len(log') <= MaxQueries
      /\ log'[n + 1] = e /\ outcome'[n + 1] = "none"
      /\ \A q \in 1..n : log'[q] = log[q] /\ outcome'[q] = outcome[q]
      /\ Stmts!InTurn'
      /\ \A r \in Statement : CircularQuerys'[r] = CircularQuerys[r] /\ r # s
                                => PlacedIn(r, CircularQuerys[r])'
  BY <1>n, <1>0, <1>1, <1>2, Submitted
<1>4. PICK k : k = Append(m, n + 1)
  OBVIOUS
<1>5. /\ k \in Seq(1..n + 1) /\ Len(k) = Len(m) + 1 /\ DOMAIN k = 1..Len(m) + 1
      /\ k[Len(m) + 1] = n + 1
      /\ \A i \in 1..Len(m) : k[i] = m[i] /\ m[i] \in 1..n
      /\ \A i \in 1..Len(m) + 1 : k[i] \in 1..n + 1
  <2>0. 1..n \subseteq 1..n + 1 /\ n + 1 \in 1..n + 1
    BY <1>1
  <2>1. m \in Seq(1..n + 1)
    BY <1>m, <2>0, SeqMonotonic
  <2>2. /\ k \in Seq(1..n + 1) /\ Len(k) = Len(m) + 1 /\ k[Len(m) + 1] = n + 1
        /\ \A i \in 1..Len(m) : k[i] = m[i]
    BY <1>4, <2>0, <2>1, AppendProperties
  <2>3. \A i \in 1..Len(m) : m[i] \in 1..n
    BY <1>m, ElementOfSeq
  <2>4. \A i \in 1..Len(k) : k[i] \in 1..n + 1
    BY <2>2, ElementOfSeq
  <2>5. DOMAIN k = 1..Len(k)
    BY <2>2
  <2> QED
    BY <2>2, <2>3, <2>4, <2>5
<1>6. CircularQuerys'[s] = k /\ \A r \in Statement : r # s => CircularQuerys'[r] = CircularQuerys[r]
  BY <1>0, <1>1, <1>4
<1>7. StmtTypes'
  <2>1. k \in Seq(Stmts!Entry)
    <3>1. 1..n + 1 \subseteq Stmts!Entry
      BY <1>0, <1>1 DEF Stmts!Entry
    <3> QED
      BY <1>5, <3>1, SeqMonotonic
  <2>2. CircularQuerys' \in [Statement -> Seq(Stmts!Entry)]
    BY <1>0, <1>1, <1>4, <2>1
  <2> QED
    BY <1>0, <1>1, <1>3, <2>2 DEF StmtTypes, Stmts!Entry
<1>8. PlacedIn(s, k)'
  <2>1. \A q \in 1..n : Unrun(q, s)' <=> Unrun(q, s)
    BY <1>3 DEF Unrun
  <2>2. Unrun(n + 1, s)'
    BY <1>2, <1>3 DEF Unrun
  <2>3. Ahead(s)' = 0 /\ Ahead(s) = 0
    BY <1>0 DEF Ahead
  <2>4. \A i \in DOMAIN k : k[i] \in 1..n + 1
    BY <1>5
  <2>5. ASSUME NEW i \in DOMAIN k, NEW j \in DOMAIN k, i < j PROVE k[i] < k[j]
    <3>1. i \in 1..Len(m) /\ j \in 1..Len(m) + 1
      BY <1>5, <1>m, <2>5
    <3>2. CASE j \in 1..Len(m)
      BY <1>5, <1>m, <2>5, <3>1, <3>2
    <3>3. CASE j = Len(m) + 1
      <4>1. k[i] \in 1..n /\ k[j] = n + 1
        BY <1>5, <3>1, <3>3
      <4> QED
        BY <1>1, <4>1
    <3> QED
      BY <1>m, <3>1, <3>2, <3>3
  <2>6. ASSUME NEW i \in DOMAIN k
        PROVE  /\ Unrun(k[i], s)'
               /\ log'[k[i]].at + log'[k[i]].before + 1 + Ahead(s)' = turn' + i
    <3>1. CASE i \in 1..Len(m)
      BY <1>0, <1>3, <1>5, <1>m, <2>1, <2>3, <3>1
    <3>2. CASE i = Len(m) + 1
      <4>1. k[i] = n + 1 /\ log'[k[i]].at = turn /\ log'[k[i]].before = Len(m)
        BY <1>3, <1>5, <1>e, <3>2
      <4> QED
        BY <1>0, <1>1, <1>m, <2>2, <2>3, <3>2, <4>1
    <3> QED
      BY <1>5, <1>m, <3>1, <3>2
  <2>7. ASSUME NEW q \in 1..n + 1, Unrun(q, s)' PROVE \E i \in DOMAIN k : k[i] = q
    <3>1. CASE q \in 1..n
      <4>1. PICK i \in DOMAIN m : m[i] = q
        BY <1>m, <2>1, <2>7, <3>1
      <4> QED
        BY <1>5, <1>m, <4>1
    <3>2. CASE q = n + 1
      <4>1. Len(m) + 1 \in DOMAIN k
        BY <1>5, <1>m
      <4> QED
        BY <1>5, <3>2, <4>1
    <3> QED
      BY <1>1, <3>1, <3>2
  <2> QED
    BY <1>0, <1>3, <2>4, <2>5, <2>6, <2>7 DEF PlacedIn
<1>9. ASSUME NEW r \in Statement PROVE PlacedIn(r, CircularQuerys[r])'
  BY <1>3, <1>6, <1>8
<1> QED
  BY <1>3, <1>7, <1>9 DEF StmtIInv

LEMMA PrepareStep ==
    ASSUME StmtIInv, NEW s \in Statement, Stmts!PrepareFails(s)
    PROVE  StmtIInv'
<1>m. Stmts!Cardinality(Stmts!Waiting(s)) \in Nat
  BY Queued
<1>e. PICK e : e = Stmts!Entered(s, 0)
  OBVIOUS
<1>0. /\ todo = {} /\ Len(log) < MaxQueries
      /\ outcome' = Append(outcome, "dropped") /\ log' = Append(log, e)
      /\ stmts' = stmts /\ CircularQuerys' = CircularQuerys
      /\ todo' = todo /\ turn' = turn
  BY <1>e DEF Stmts!PrepareFails
<1>1. e \in LogEntry /\ "dropped" \in Told /\ e.run = 0
  BY <1>e, <1>m DEF LogEntry, Told, Stmts!Entered, StmtIInv, StmtTypes
<1>2. /\ log' \in Seq(LogEntry) /\ outcome' \in Seq(Told)
      /\ Len(outcome') = Len(log') /\ Len(log') <= MaxQueries /\ Stmts!InTurn'
      /\ \A r \in Statement : PlacedIn(r, CircularQuerys[r])'
  BY <1>0, <1>1, Submitted
<1>3. StmtTypes'
  BY <1>0, <1>2 DEF StmtTypes, StmtIInv, Stmts!Entry
<1> QED
  BY <1>2, <1>3 DEF StmtIInv

LEMMA UpdateStep ==
    ASSUME StmtIInv, Stmts!Update
    PROVE  StmtIInv'
<1>0. /\ todo = {} /\ todo' = stmts /\ turn' = turn + 1
      /\ stmts' = stmts /\ CircularQuerys' = CircularQuerys
      /\ outcome' = outcome /\ log' = log
  BY DEF Stmts!Update
<1>1. StmtTypes' /\ turn \in Nat
  BY <1>0 DEF StmtTypes, StmtIInv, Stmts!Entry
<1>2. Stmts!InTurn'
  BY <1>0 DEF StmtIInv, Stmts!InTurn, Stmts!Query, Stmts!Ran
<1>3. ASSUME NEW r \in Statement PROVE PlacedIn(r, CircularQuerys[r])'
  <2>0. PICK l : l = CircularQuerys[r]
    OBVIOUS
  <2>1. PlacedIn(r, l) /\ l \in Seq(Stmts!Entry)
    BY <2>0, ListShape DEF StmtIInv
  <2>2. \A q : Unrun(q, r)' <=> Unrun(q, r)
    BY <1>0 DEF Unrun
  <2>3. l # <<>> => Ahead(r)' = 1 /\ Ahead(r) = 0
    BY <1>0, <2>1 DEF Ahead, PlacedIn
  <2>4. ASSUME l # <<NULL>>, NEW i \in DOMAIN l
        PROVE  log'[l[i]].at + log'[l[i]].before + 1 + Ahead(r)' = turn' + i
    <3>1. l # <<>> /\ i \in Nat
      BY <2>1
    <3>2. log[l[i]].at \in Nat /\ log[l[i]].before \in Nat
      <4>1. l[i] \in 1..Len(log) /\ log \in Seq(LogEntry)
        BY <2>1, <2>4 DEF PlacedIn, StmtIInv, StmtTypes
      <4>2. log[l[i]] \in LogEntry
        BY <4>1, ElementOfSeq
      <4> QED
        BY <4>2 DEF LogEntry
    <3>3. log[l[i]].at + log[l[i]].before + 1 + Ahead(r) = turn + i
      BY <2>1, <2>4 DEF PlacedIn
    <3> QED
      BY <1>0, <1>1, <2>3, <3>1, <3>2, <3>3
  <2>5. PlacedIn(r, l)'
    BY <1>0, <2>1, <2>2, <2>4 DEF PlacedIn
  <2> QED
    BY <1>0, <2>0, <2>5
<1> QED
  BY <1>1, <1>2, <1>3 DEF StmtIInv

(* Stmt::update of s runs the front of its list, which the equation of its *)
(* place says is due in this turn.                                         *)
LEMMA FrontRuns ==
    ASSUME StmtIInv, NEW s \in Statement, Stmts!StmtUpdate(s),
           CircularQuerys[s] # <<>>, CircularQuerys[s] # <<NULL>>
    PROVE  StmtIInv'
<1>l. PICK l : l = CircularQuerys[s]
  OBVIOUS
<1>n. PICK n : n = Len(log)
  OBVIOUS
<1>0. /\ PlacedIn(s, l) /\ l # <<>> /\ l # <<NULL>>
      /\ stmts \subseteq Statement /\ todo \subseteq stmts /\ turn \in Nat
      /\ CircularQuerys \in [Statement -> Seq(Stmts!Entry)]
      /\ log \in Seq(LogEntry) /\ outcome \in Seq(Told)
      /\ n \in Nat /\ Len(outcome) = n /\ n <= MaxQueries
      /\ DOMAIN log = 1..n /\ DOMAIN outcome = 1..n
  BY <1>l, <1>n DEF StmtIInv, StmtTypes
<1>1. /\ l \in Seq(Stmts!Entry) /\ \A i \in DOMAIN l : l[i] \in 1..n
      /\ ~Stmts!LoneNull(s)
  BY <1>l, <1>n, <1>0, ListShape
<1>2. Len(l) \in Nat \ {0} /\ DOMAIN l = 1..Len(l) /\ 1 \in DOMAIN l /\ Head(l) = l[1]
  BY <1>0, <1>1
<1>q. PICK q \in 1..n : q = Head(l)
  BY <1>1, <1>2
<1>3. q # NULL
  BY <1>0, StmtNumbers
<1>4. PICK o \in Told \ {"dropped"} :
        /\ s \in todo /\ todo' = todo \ {s}
        /\ outcome' = [outcome EXCEPT ![q] = o]
        /\ log' = [log EXCEPT ![q].run = turn]
        /\ CircularQuerys' = [CircularQuerys EXCEPT ![s] = Stmts!WithoutFront(s)]
        /\ stmts' = stmts /\ turn' = turn
  BY <1>l, <1>q, <1>0, <1>1, <1>3 DEF Stmts!StmtUpdate, Stmts!Outcomes, Told
<1>5. /\ log[q] \in LogEntry /\ log[q].stmt = s /\ log[q].run = 0
      /\ outcome[q] # "dropped"
      /\ log[q].at + log[q].before + 1 = turn
      /\ turn > 0
  <2>1. /\ Unrun(l[1], s)
        /\ log[l[1]].at + log[l[1]].before + 1 + Ahead(s) = turn + 1
    BY <1>0, <1>2 DEF PlacedIn
  <2>2. Ahead(s) = 1
    BY <1>4 DEF Ahead
  <2>3. log[q] \in LogEntry
    BY <1>0, <1>n, <1>q, ElementOfSeq
  <2>4. log[q].at \in Nat /\ log[q].before \in Nat
    BY <2>3 DEF LogEntry
  <2>5. Unrun(q, s) /\ log[q].at + log[q].before + 1 + 1 = turn + 1
    BY <1>2, <1>q, <2>1, <2>2
  <2>6. log[q].at + log[q].before + 1 = turn /\ turn > 0
    <3>1. turn \in Nat
      BY <1>0
    <3>2. PICK a \in Nat, b \in Nat : a = log[q].at /\ b = log[q].before
      BY <2>4
    <3>3. a + b + 1 + 1 = turn + 1
      BY <2>5, <3>2
    <3>4. a + b + 1 = turn /\ turn > 0
      BY <3>1, <3>3
    <3> QED
      BY <3>2, <3>4
  <2> QED
    BY <2>3, <2>5, <2>6 DEF Unrun
<1>6. PICK e : e = [log[q] EXCEPT !.run = turn]
  OBVIOUS
<1>7. /\ e \in LogEntry /\ e.run = turn /\ e.stmt = s
      /\ e.at = log[q].at /\ e.before = log[q].before
  BY <1>0, <1>5, <1>6 DEF LogEntry
<1>8. /\ log' \in Seq(LogEntry) /\ outcome' \in Seq(Told)
      /\ Len(log') = n /\ Len(outcome') = n /\ DOMAIN log' = 1..n
      /\ log'[q] = e
      /\ \A p \in 1..n : p # q => log'[p] = log[p] /\ outcome'[p] = outcome[p]
  <2>1. log' = [log EXCEPT ![q] = e]
    BY <1>4, <1>6
  <2>2. q \in 1..Len(log) /\ q \in 1..Len(outcome) /\ o \in Told
    BY <1>0, <1>n
  <2>3. /\ log' \in Seq(LogEntry) /\ Len(log') = n /\ log'[q] = e
        /\ \A p \in 1..n : p # q => log'[p] = log[p]
    BY <1>0, <1>7, <1>n, <2>1, <2>2, ExceptSeq
  <2>4. /\ outcome' \in Seq(Told) /\ Len(outcome') = n
        /\ \A p \in 1..n : p # q => outcome'[p] = outcome[p]
    BY <1>0, <1>4, <1>n, <2>2, ExceptSeq
  <2> QED
    BY <2>3, <2>4
<1>9. Stmts!InTurn'
  <2> SUFFICES ASSUME NEW p \in 1..n, log'[p].run > 0
               PROVE  log'[p].run = log'[p].at + log'[p].before + 1
    BY <1>8 DEF Stmts!InTurn, Stmts!Query, Stmts!Ran
  <2>1. CASE p = q
    BY <1>5, <1>7, <1>8, <2>1
  <2>2. CASE p # q
    BY <1>0, <1>8, <2>2 DEF StmtIInv, Stmts!InTurn, Stmts!Query, Stmts!Ran
  <2> QED
    BY <2>1, <2>2
<1>10. ~Unrun(q, s)' /\ \A p \in 1..n : \A r : p # q => (Unrun(p, r)' <=> Unrun(p, r))
  BY <1>5, <1>7, <1>8 DEF Unrun
<1>11. PICK k : k = IF Len(l) > 1 THEN Tail(l) ELSE <<NULL>>
  OBVIOUS
<1>12. /\ CircularQuerys'[s] = k
       /\ \A r \in Statement : r # s => CircularQuerys'[r] = CircularQuerys[r]
  BY <1>0, <1>4, <1>11, <1>l DEF Stmts!WithoutFront
<1>13. Len(l) > 1 => /\ k \in Seq(Stmts!Entry) /\ DOMAIN k = 1..Len(l) - 1
                     /\ Len(k) = Len(l) - 1
                     /\ \A i \in 1..Len(l) - 1 : k[i] = l[i + 1]
  BY <1>1, <1>2, <1>11
<1>14. StmtTypes'
  <2>1. <<NULL>> \in Seq(Stmts!Entry)
    BY DEF Stmts!Entry
  <2>2. k \in Seq(Stmts!Entry)
    BY <1>2, <1>11, <1>13, <2>1
  <2>3. CircularQuerys' \in [Statement -> Seq(Stmts!Entry)]
    BY <1>0, <1>4, <1>12, <2>2
  <2> QED
    BY <1>0, <1>4, <1>8, <2>3 DEF StmtTypes, Stmts!Entry
<1>15. Ahead(s) = 1 /\ Ahead(s)' = 0 /\ \A r : r # s => Ahead(r)' = Ahead(r)
  BY <1>4 DEF Ahead
<1>16. PlacedIn(s, k)'
  <2>0. s \in stmts'
    BY <1>0, <1>4
  <2>1. ASSUME NEW p \in 1..n, Unrun(p, s)'
        PROVE  p # q /\ \E i \in DOMAIN l : i > 1 /\ l[i] = p
    <3>1. p # q /\ Unrun(p, s)
      BY <1>10, <2>1
    <3>2. PICK i \in DOMAIN l : l[i] = p
      BY <1>0, <1>n, <3>1 DEF PlacedIn
    <3> QED
      BY <1>2, <1>q, <3>1, <3>2
  <2>2. CASE Len(l) = 1
    <3>1. \A p \in 1..n : ~Unrun(p, s)'
      BY <1>2, <2>1, <2>2
    <3>2. k = <<NULL>>
      BY <1>11, <2>2
    <3> QED
      BY <1>8, <2>0, <3>1, <3>2 DEF PlacedIn
  <2>3. CASE Len(l) > 1
    <3>0. \A i \in 1..Len(l) - 1 : i + 1 \in DOMAIN l /\ k[i] = l[i + 1]
      BY <1>2, <1>13, <2>3
    <3>1. \A i \in DOMAIN k : k[i] \in 1..n
      BY <1>1, <1>13, <2>3, <3>0
    <3>2. ASSUME NEW i \in DOMAIN k, NEW j \in DOMAIN k, i < j PROVE k[i] < k[j]
      <4>1. i \in 1..Len(l) - 1 /\ j \in 1..Len(l) - 1 /\ i + 1 < j + 1
        BY <1>2, <1>13, <2>3, <3>2
      <4>2. \A a, b \in DOMAIN l : a < b => l[a] < l[b]
        BY <1>0 DEF PlacedIn
      <4>3. l[i + 1] < l[j + 1]
        BY <3>0, <4>1, <4>2
      <4> QED
        BY <3>0, <4>1, <4>3
    <3>3. ASSUME NEW i \in DOMAIN k
          PROVE  /\ Unrun(k[i], s)'
                 /\ log'[k[i]].at + log'[k[i]].before + 1 + Ahead(s)' = turn' + i
      <4>1. i \in 1..Len(l) - 1 /\ i + 1 \in DOMAIN l /\ k[i] = l[i + 1] /\ i \in Nat
        BY <1>2, <1>13, <2>3, <3>0
      <4>2. k[i] # q /\ k[i] \in 1..n
        <5>1. 1 < i + 1
          BY <4>1
        <5>2. l[1] < l[i + 1] /\ l[1] \in Nat /\ l[i + 1] \in Nat
          <6>1. \A a, b \in DOMAIN l : a < b => l[a] < l[b]
            BY <1>0 DEF PlacedIn
          <6>2. l[1] \in 1..n /\ l[i + 1] \in 1..n
            BY <1>1, <1>2, <4>1
          <6>3. l[1] < l[i + 1]
            BY <1>2, <4>1, <5>1, <6>1
          <6> QED
            BY <6>2, <6>3
        <5> QED
          BY <1>2, <1>q, <3>1, <4>1, <5>2
      <4>3. /\ Unrun(k[i], s)
            /\ log[k[i]].at + log[k[i]].before + 1 + Ahead(s) = turn + (i + 1)
        BY <1>0, <4>1 DEF PlacedIn
      <4>4. log[k[i]].at \in Nat /\ log[k[i]].before \in Nat
        <5>1. log[k[i]] \in LogEntry
          BY <1>0, <1>n, <4>2, ElementOfSeq
        <5> QED
          BY <5>1 DEF LogEntry
      <4>5. Unrun(k[i], s)' /\ log'[k[i]] = log[k[i]]
        BY <1>8, <1>10, <4>2, <4>3
      <4>6. log[k[i]].at + log[k[i]].before + 1 + 1 = turn + (i + 1)
        BY <1>15, <4>3
      <4>7. log[k[i]].at + log[k[i]].before + 1 + 0 = turn + i
        <5>1. turn \in Nat /\ i \in Nat
          BY <1>0, <4>1
        <5>2. PICK a \in Nat, b \in Nat : a = log[k[i]].at /\ b = log[k[i]].before
          BY <4>4
        <5>3. a + b + 1 + 1 = turn + (i + 1)
          BY <4>6, <5>2
        <5>4. a + b + 1 + 0 = turn + i
          BY <5>1, <5>3
        <5> QED
          BY <5>2, <5>4
      <4> QED
        BY <1>4, <1>15, <4>5, <4>7
    <3>4. ASSUME NEW p \in 1..n, Unrun(p, s)' PROVE \E i \in DOMAIN k : k[i] = p
      <4>1. PICK i \in DOMAIN l : i > 1 /\ l[i] = p
        BY <2>1, <3>4
      <4>2. i - 1 \in DOMAIN k /\ k[i - 1] = p
        BY <1>2, <1>13, <2>3, <4>1
      <4> QED
        BY <4>2
    <3> QED
      BY <1>8, <2>0, <3>1, <3>2, <3>3, <3>4 DEF PlacedIn
  <2> QED
    BY <1>2, <2>2, <2>3
<1>17. ASSUME NEW r \in Statement, r # s PROVE PlacedIn(r, CircularQuerys[r])'
  <2>0. PICK m : m = CircularQuerys[r]
    OBVIOUS
  <2>1. PlacedIn(r, m)
    BY <2>0 DEF StmtIInv
  <2>2. \A p \in 1..n : Unrun(p, r)' <=> Unrun(p, r)
    BY <1>5, <1>7, <1>8, <1>10, <1>17 DEF Unrun
  <2>3. \A p \in 1..n : Unrun(p, r) => p # q
    BY <1>5, <1>17 DEF Unrun
  <2>4. m # <<NULL>> => \A i \in DOMAIN m : m[i] \in 1..n
    BY <1>n, <2>1 DEF PlacedIn
  <2>5. ASSUME m # <<NULL>>, NEW i \in DOMAIN m
        PROVE  /\ Unrun(m[i], r)'
               /\ log'[m[i]].at + log'[m[i]].before + 1 + Ahead(r)' = turn' + i
    <3>1. /\ m[i] \in 1..n /\ Unrun(m[i], r)
          /\ log[m[i]].at + log[m[i]].before + 1 + Ahead(r) = turn + i
      BY <2>1, <2>4, <2>5 DEF PlacedIn
    <3> QED
      BY <1>4, <1>8, <1>15, <1>17, <2>2, <2>3, <3>1
  <2>6. m = <<NULL>> \/ \A i \in DOMAIN m : m[i] \in 1..Len(log')
    BY <1>8, <2>4
  <2>7. m # <<>> => r \in stmts'
    BY <1>4, <2>1 DEF PlacedIn
  <2>8. \A p \in 1..Len(log') : Unrun(p, r)' => \E i \in DOMAIN m : m[i] = p
    BY <1>8, <1>n, <2>1, <2>2 DEF PlacedIn
  <2>9. m # <<NULL>> => \A i, j \in DOMAIN m : i < j => m[i] < m[j]
    BY <2>1 DEF PlacedIn
  <2>10. PlacedIn(r, m)'
    BY <2>5, <2>6, <2>7, <2>8, <2>9 DEF PlacedIn
  <2> QED
    BY <1>12, <1>17, <2>0, <2>10
<1>18. ASSUME NEW r \in Statement PROVE PlacedIn(r, CircularQuerys[r])'
  BY <1>12, <1>16, <1>17
<1> QED
  BY <1>9, <1>14, <1>18 DEF StmtIInv

(* With nothing in its list, Stmt::update of s leaves everything as it is. *)
LEMMA NothingRuns ==
    ASSUME StmtIInv, NEW s \in Statement, Stmts!StmtUpdate(s),
           CircularQuerys[s] = <<>> \/ CircularQuerys[s] = <<NULL>>
    PROVE  StmtIInv'
<1>0. /\ todo' = todo \ {s} /\ stmts' = stmts /\ turn' = turn
      /\ CircularQuerys' = CircularQuerys /\ outcome' = outcome /\ log' = log
  BY ListShape DEF Stmts!StmtUpdate
<1>1. StmtTypes'
  BY <1>0 DEF StmtTypes, StmtIInv, Stmts!Entry
<1>2. Stmts!InTurn'
  BY <1>0 DEF StmtIInv, Stmts!InTurn, Stmts!Query, Stmts!Ran
<1>3. ASSUME NEW r \in Statement PROVE PlacedIn(r, CircularQuerys[r])'
  <2>0. PICK l : l = CircularQuerys[r]
    OBVIOUS
  <2>1. PlacedIn(r, l)
    BY <2>0 DEF StmtIInv
  <2>2. \A p : Unrun(p, r)' <=> Unrun(p, r)
    BY <1>0 DEF Unrun
  <2>3. r # s => Ahead(r)' = Ahead(r)
    BY <1>0 DEF Ahead
  <2>4. CASE r # s
    BY <1>0, <2>0, <2>1, <2>2, <2>3, <2>4 DEF PlacedIn
  <2>5. CASE r = s
    <3>1. l = <<>> \/ l = <<NULL>>
      BY <2>0, <2>5
    <3>2. l # <<NULL>> => DOMAIN l = {}
      BY <3>1
    <3> QED
      BY <1>0, <2>0, <2>1, <2>2, <3>2 DEF PlacedIn
  <2> QED
    BY <2>4, <2>5
<1> QED
  BY <1>1, <1>2, <1>3 DEF StmtIInv

LEMMA StmtKept == Stmts!Spec => []StmtIInv
<1>1. Stmts!Init => StmtIInv
  BY StmtInit
<1>2. StmtIInv /\ [Stmts!Next]_(Stmts!vars) => StmtIInv'
  <2> SUFFICES ASSUME StmtIInv, [Stmts!Next]_(Stmts!vars) PROVE StmtIInv'
    OBVIOUS
  <2>1. CASE Stmts!Next
    BY <2>1, AsynStep, PrepareStep, UpdateStep, FrontRuns, NothingRuns
       DEF Stmts!Next
  <2>2. CASE UNCHANGED Stmts!vars
    <3>1. /\ stmts' = stmts /\ CircularQuerys' = CircularQuerys /\ todo' = todo
          /\ outcome' = outcome /\ turn' = turn /\ log' = log
      BY <2>2 DEF Stmts!vars
    <3>2. StmtTypes'
      BY <3>1 DEF StmtIInv, StmtTypes, Stmts!Entry
    <3>3. Stmts!InTurn'
      BY <3>1 DEF StmtIInv, Stmts!InTurn, Stmts!Query, Stmts!Ran
    <3>4. ASSUME NEW r \in Statement PROVE PlacedIn(r, CircularQuerys[r])'
      BY <3>1 DEF StmtIInv, PlacedIn, Unrun, Ahead
    <3> QED
      BY <3>2, <3>3, <3>4 DEF StmtIInv
  <2> QED
    BY <2>1, <2>2
<1> QED
  BY <1>1, <1>2, PTL DEF Stmts!Spec

(* However submissions and turns of Update() follow one another, a query   *)
(* that was accepted is in the list of its statement until it has run, the *)
(* list is in order and its null entry stands alone, and every query that  *)
(* runs does so in the turn its place in its own list gave it.             *)
THEOREM QueriesInTurn == Stmts!Spec => []StmtInv
<1>1. ASSUME StmtIInv PROVE StmtInv
  <2>0. /\ StmtTypes /\ Len(log) \in Nat
        /\ DOMAIN log = 1..Len(log) /\ DOMAIN outcome = 1..Len(log)
    BY <1>1 DEF StmtIInv, StmtTypes
  <2>1. Stmts!TypeOK
    <3>1. ASSUME NEW s \in Statement,
                 NULL \in {CircularQuerys[s][i] : i \in DOMAIN CircularQuerys[s]}
          PROVE  CircularQuerys[s] = <<NULL>>
      BY <1>1, <2>0, <3>1, ListShape, StmtNumbers
    <3>2. \A q \in Stmts!Query : outcome[q] \in Told
      BY <2>0, ElementOfSeq DEF Stmts!Query, StmtTypes
    <3> QED
      BY <2>0, <3>1, <3>2 DEF Stmts!TypeOK, StmtTypes, Stmts!Query, Told
  <2>2. Stmts!Listed
    <3> SUFFICES ASSUME NEW s \in Statement
                 PROVE  /\ {CircularQuerys[s][i] : i \in Stmts!Waiting(s)} =
                             {q \in Stmts!Query : log[q].stmt = s /\ Stmts!Accepted(q)
                                                  /\ ~Stmts!Ran(q)}
                        /\ \A i, j \in Stmts!Waiting(s) :
                             i < j => CircularQuerys[s][i] < CircularQuerys[s][j]
      BY DEF Stmts!Listed
    <3>0. PICK l : l = CircularQuerys[s]
      OBVIOUS
    <3>1. PlacedIn(s, l) /\ l \in Seq(Stmts!Entry) /\ DOMAIN l = 1..Len(l)
      BY <1>1, <3>0, ListShape DEF StmtIInv
    <3>2. \A q \in Stmts!Query : Stmts!Accepted(q) /\ ~Stmts!Ran(q) /\ log[q].stmt = s
                                   <=> Unrun(q, s)
      <4>1. \A q \in 1..Len(log) : log[q].run \in Nat
        <5>1. \A q \in 1..Len(log) : log[q] \in LogEntry
          BY <2>0, ElementOfSeq DEF StmtTypes
        <5> QED
          BY <5>1 DEF LogEntry
      <4> QED
        BY <2>0, <4>1 DEF Stmts!Query, Stmts!Accepted, Stmts!Ran, Unrun
    <3>3. CASE l = <<NULL>>
      <4>1. Stmts!Waiting(s) = {}
        BY <1>1, <3>0, <3>3, ListShape
      <4>2. \A q \in Stmts!Query : ~Unrun(q, s)
        <5>1. DOMAIN l = {1} /\ l[1] = NULL
          BY <3>3
        <5> QED
          BY <2>0, <3>1, <5>1, StmtNumbers DEF PlacedIn, Stmts!Query
      <4> QED
        BY <3>2, <4>1, <4>2
    <3>4. CASE l # <<NULL>>
      <4>1. /\ Stmts!Waiting(s) = DOMAIN l
            /\ \A i \in DOMAIN l : l[i] \in Stmts!Query /\ Unrun(l[i], s)
        BY <1>1, <2>0, <3>0, <3>1, <3>4, ListShape DEF PlacedIn, Stmts!Query
      <4>2. \A q \in Stmts!Query : Unrun(q, s) => \E i \in DOMAIN l : l[i] = q
        BY <2>0, <3>1 DEF PlacedIn, Stmts!Query
      <4>3. {l[i] : i \in DOMAIN l} =
              {q \in Stmts!Query : log[q].stmt = s /\ Stmts!Accepted(q) /\ ~Stmts!Ran(q)}
        BY <3>2, <4>1, <4>2
      <4>4. \A i, j \in DOMAIN l : i < j => l[i] < l[j]
        BY <3>1, <3>4 DEF PlacedIn
      <4> QED
        BY <3>0, <4>1, <4>3, <4>4
    <3> QED
      BY <3>3, <3>4
  <2> QED
    BY <1>1, <2>1, <2>2 DEF StmtIInv, StmtInv, Stmts!StmtInv
<1>2. StmtIInv => StmtInv
  BY <1>1
<1> QED
  BY <1>2, StmtKept, PTL
=============================================================================
