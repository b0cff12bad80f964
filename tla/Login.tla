------------------------------- MODULE Login --------------------------------
(***************************************************************************)
(* The account server: LoginManager (hh/Account/Login.cpp).  It answers    *)
(* requests in the order they arrive, keeps the accounts in _accMap and    *)
(* writes a new one to the table later, when its Update() runs the queued  *)
(* statement.  A restart loses the queue and reads the table again.        *)
(***************************************************************************)
EXTENDS Naturals, Sequences

CONSTANTS
    Account, Pwd, NoPwd,
    Conn,
    StoredAccount,      \* the accounts in the table at start: name -> pwd
    MaxId               \* bound on account ids

VARIABLES
    _accMap,            \* name -> password, NoPwd when absent
    _unique_acc,
    table,              \* the rows of table account
    inserts,            \* statements queued and not executed
    toAccount, fromAccount,
    proven              \* history: the accounts a connection gave the
                        \* password of

loginVars == <<_accMap, _unique_acc, table, inserts, proven>>

Row == [id : 1..MaxId, name : Account, psw : Pwd]

(* The largest id of the rows, 0 when there is none. *)
LastId(rows) ==
    CHOOSE m \in 0..MaxId : /\ m = 0 \/ \E r \in rows : r.id = m
                            /\ \A r \in rows : r.id <= m

(* Mutant: loadAcc without _unique_acc += 1. *)
LoadNotOneMore(rows) ==
    /\ _accMap' = [a \in Account |->
                     IF \E r \in rows : r.name = a
                     THEN (CHOOSE r \in rows : r.name = a).psw ELSE NoPwd]
    /\ _unique_acc' = LastId(rows)

(* loadAcc *)
Load(rows) ==
    /\ _accMap' = [a \in Account |->
                     IF \E r \in rows : r.name = a
                     THEN (CHOOSE r \in rows : r.name = a).psw ELSE NoPwd]
    /\ _unique_acc' = LastId(rows) + 1

(* The table as the operator left it: each stored account has an id of its *)
(* own, here counted up from 1.                                            *)
LoginInit(rows) ==
    /\ table = rows
    /\ _accMap = [a \in Account |-> IF a \in DOMAIN StoredAccount
                                    THEN StoredAccount[a] ELSE NoPwd]
    /\ _unique_acc = LastId(rows) + 1
    /\ inserts = <<>>
    /\ proven = [c \in Conn |-> {}]

CreateAccount ==
    /\ toAccount # <<>> /\ Head(toAccount).type = "create"
    /\ toAccount' = Tail(toAccount)
    /\ LET q == Head(toAccount)
           exists == _accMap[q.name] # NoPwd
       IN  /\ exists \/ _unique_acc <= MaxId
           /\ IF exists
              THEN UNCHANGED <<_accMap, _unique_acc, inserts>>
              ELSE /\ _accMap' = [_accMap EXCEPT ![q.name] = q.pwd]
                   /\ inserts' = Append(inserts, [id |-> _unique_acc,
                                                  name |-> q.name,
                                                  psw |-> q.pwd])
                   /\ _unique_acc' = _unique_acc + 1
           /\ fromAccount' = Append(fromAccount,
                 [type |-> "created", result |-> IF exists THEN 1 ELSE 0,
                  name |-> q.name, by |-> q.by])
    /\ UNCHANGED <<table, proven>>

(* Mutant: AccountCheck that does not answer a wrong password. *)
AccountCheckSilent ==
    /\ toAccount # <<>> /\ Head(toAccount).type = "check"
    /\ toAccount' = Tail(toAccount)
    /\ LET q == Head(toAccount)
       IN  IF q.pwd = _accMap[q.name]
           THEN /\ fromAccount' = Append(fromAccount,
                      [type |-> "checked", result |-> 0, name |-> q.name,
                       increament |-> q.increament, by |-> q.by])
                /\ proven' = [proven EXCEPT ![q.by] = @ \union {q.name}]
           ELSE UNCHANGED <<fromAccount, proven>>
    /\ UNCHANGED <<_accMap, _unique_acc, table, inserts>>

AccountCheck ==
    /\ toAccount # <<>> /\ Head(toAccount).type = "check"
    /\ toAccount' = Tail(toAccount)
    /\ LET q == Head(toAccount)
           result == IF _accMap[q.name] = NoPwd THEN 1
                     ELSE IF q.pwd # _accMap[q.name] THEN 2 ELSE 0
       IN  /\ fromAccount' = Append(fromAccount,
                 [type |-> "checked", result |-> result, name |-> q.name,
                  increament |-> q.increament, by |-> q.by])
           /\ proven' = IF result = 0
                        THEN [proven EXCEPT ![q.by] = @ \union {q.name}]
                        ELSE proven
    /\ UNCHANGED <<_accMap, _unique_acc, table, inserts>>

(* Update() executes the oldest queued statement. *)
ExecuteInsert ==
    /\ inserts # <<>>
    /\ table' = table \union {Head(inserts)}
    /\ inserts' = Tail(inserts)
    /\ UNCHANGED <<_accMap, _unique_acc, toAccount, fromAccount, proven>>

(* The process is started again: _accMap and the counter come from the     *)
(* table, the queued statements are lost.                                  *)
Restart ==
    /\ Load(table)
    /\ inserts' = <<>>
    /\ UNCHANGED <<table, proven>>
=============================================================================
