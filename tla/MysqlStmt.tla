----------------------------- MODULE MysqlStmt ------------------------------
(***************************************************************************)
(* Prepared statements as the account and the database server use them     *)
(* (xlib/src/mysql/MysqlStmt.cpp): one list of queries for each statement  *)
(* text, and Update(), called once in every turn of the main loop, which   *)
(* runs the first query of each list.  A list that has run dry keeps one   *)
(* null entry, which the next query replaces.                              *)
(*                                                                         *)
(* Everything happens on the main thread: no query is submitted while      *)
(* Update() is under way, since no callback in the servers submits one.    *)
(* What the database makes of a query is its outcome; parameters and rows  *)
(* are left out.                                                           *)
(***************************************************************************)
EXTENDS Naturals, Sequences, FiniteSets

CONSTANTS
    Statement,          \* statement texts
    Select,             \* those with a result set
    NULL,               \* the null entry
    MaxQueries          \* bound: queries submitted

StmtAssumption ==
    /\ Select \subseteq Statement
    /\ MaxQueries \in Nat
    /\ NULL \notin Nat

VARIABLES
    stmts,              \* the statements that are prepared
    CircularQuerys,     \* statement -> list of queries
    todo,               \* statements Update() has not come to in this turn
    outcome,            \* query -> what its caller was told
    turn,               \* history: turns of Update() so far
    log                 \* history: query -> its statement and when it was
                        \* submitted and run, and the queries before it

vars == <<stmts, CircularQuerys, todo, outcome, turn, log>>

Query == DOMAIN log
Entry == 1..MaxQueries \union {NULL}
Waiting(s) == {i \in DOMAIN CircularQuerys[s] : CircularQuerys[s][i] # NULL}

TypeOK ==
    /\ stmts \subseteq Statement /\ todo \subseteq stmts
    /\ CircularQuerys \in [Statement -> Seq(Entry)]
    /\ \A s \in Statement :
         NULL \in {CircularQuerys[s][i] : i \in DOMAIN CircularQuerys[s]}
           => CircularQuerys[s] = <<NULL>>
    /\ DOMAIN outcome = Query
    /\ \A q \in Query :
         outcome[q] \in {"none", "rows", "failed", "dropped"}
    /\ turn \in Nat

Init ==
    /\ stmts = {}
    /\ CircularQuerys = [s \in Statement |-> <<>>]
    /\ todo = {}
    /\ outcome = <<>> /\ turn = 0 /\ log = <<>>

-----------------------------------------------------------------------------
(* The list of s with the query q: Stmt::AsynExecuteQueryVariable. *)
LoneNull(s) == Len(CircularQuerys[s]) = 1 /\ Head(CircularQuerys[s]) = NULL

(* Mutant: the only entry is replaced whether it is null or not. *)
WithReplaced(s, q) ==
    IF Len(CircularQuerys[s]) = 1 THEN <<q>> ELSE Append(CircularQuerys[s], q)

(* Mutant: every query goes to the end of the list. *)
WithAtEnd(s, q) ==
    Append(CircularQuerys[s], q)

With(s, q) ==
    IF LoneNull(s) THEN <<q>> ELSE Append(CircularQuerys[s], q)

Entered(s, run) ==
    [stmt |-> s, at |-> turn, before |-> Cardinality(Waiting(s)), run |-> run]

(* MysqlStmt::AsynExecuteQueryVariable: a text that is new is prepared. *)
AsynExecuteQueryVariable(s) ==
    LET q == Len(log) + 1
    IN  /\ todo = {} /\ q <= MaxQueries
        /\ stmts' = stmts \union {s}
        /\ CircularQuerys' = [CircularQuerys EXCEPT ![s] = With(s, q)]
        /\ outcome' = Append(outcome, "none")
        /\ log' = Append(log, Entered(s, 0))
        /\ UNCHANGED <<todo, turn>>

(* PrepareQuery fails for a select without parameters, which goes to       *)
(* AsynExecuteQueryVariable at once (DBPlayer.cpp:60): it is given up       *)
(* without a word to its caller.  The callers with parameters call          *)
(* PrepareQuery themselves and write through the null pointer it gives them *)
(* (DBPlayer.cpp:36-37, Login.cpp:81-82): the process ends there, and so    *)
(* does the model.                                                         *)
PrepareFails(s) ==
    /\ todo = {} /\ Len(log) < MaxQueries /\ s \in Select \ stmts
    /\ outcome' = Append(outcome, "dropped")
    /\ log' = Append(log, Entered(s, 0))
    /\ UNCHANGED <<stmts, CircularQuerys, todo, turn>>

-----------------------------------------------------------------------------
(* Mutant: an only entry is taken for the null one. *)
UpdateLeavesLast ==
    /\ todo = {} /\ \E s \in stmts : Len(CircularQuerys[s]) > 1
    /\ todo' = stmts
    /\ turn' = turn + 1
    /\ UNCHANGED <<stmts, CircularQuerys, outcome, log>>

(* MysqlStmt::Update, a turn of which some statement has a query. *)
Update ==
    /\ todo = {} /\ \E s \in stmts : Waiting(s) # {}
    /\ todo' = stmts
    /\ turn' = turn + 1
    /\ UNCHANGED <<stmts, CircularQuerys, outcome, log>>

(* Stmt::Execute: a callback is called for rows and for an error, and for  *)
(* nothing else: not when a statement without a result set succeeds, and   *)
(* not when the rows cannot be stored.                                     *)
Outcomes(s) ==
    IF s \in Select THEN {"rows", "failed", "none"} ELSE {"failed", "none"}

(* Mutant: the front is set to null and stays. *)
WithNullFront(s) ==
    <<NULL>> \o Tail(CircularQuerys[s])

(* The list after its front has run and has been set to null. *)
WithoutFront(s) ==
    IF Len(CircularQuerys[s]) > 1 THEN Tail(CircularQuerys[s]) ELSE <<NULL>>

(* Stmt::update of one statement. *)
StmtUpdate(s) ==
    /\ s \in todo
    /\ todo' = todo \ {s}
    /\ IF CircularQuerys[s] = <<>> \/ LoneNull(s)
       THEN UNCHANGED <<CircularQuerys, outcome, log>>
       ELSE LET q == Head(CircularQuerys[s])
            IN  /\ IF q = NULL
                   THEN UNCHANGED <<outcome, log>>
                   ELSE /\ \E o \in Outcomes(s) : outcome' = [outcome EXCEPT ![q] = o]
                        /\ log' = [log EXCEPT ![q].run = turn]
                /\ CircularQuerys' = [CircularQuerys EXCEPT ![s] = WithoutFront(s)]
    /\ UNCHANGED <<stmts, turn>>

Next ==
    \/ \E s \in Statement : AsynExecuteQueryVariable(s) \/ PrepareFails(s) \/ StmtUpdate(s)
    \/ Update

(* The main loop goes on. *)
Fairness ==
    /\ WF_vars(Update)
    /\ WF_vars(\E s \in Statement : StmtUpdate(s))

Spec == Init /\ [][Next]_vars /\ Fairness

-----------------------------------------------------------------------------
Accepted(q) == outcome[q] # "dropped"
Ran(q) == log[q].run > 0

(* Every query that was accepted is in the list of its statement until it  *)
(* has run, once, and the list is in the order of submission: no query is  *)
(* lost to the null entry or run twice.                                    *)
Listed ==
    \A s \in Statement :
      LET l == CircularQuerys[s]
      IN  /\ {l[i] : i \in Waiting(s)} =
               {q \in Query : log[q].stmt = s /\ Accepted(q) /\ ~Ran(q)}
          /\ \A i, j \in Waiting(s) : i < j => l[i] < l[j]

(* A query runs in the turn its place in its own list gives it, whatever   *)
(* the other statements do.  So a query overtakes one of another statement *)
(* only if the other had at least as many queries waiting before it.       *)
InTurn ==
    \A q \in Query : Ran(q) => log[q].run = log[q].at + log[q].before + 1

(* The lists are sound: a null entry stands alone, no query is lost,       *)
(* doubled or out of turn.                                                 *)
StmtInv == TypeOK /\ Listed /\ InTurn

(* Every accepted query is run at last. *)
AllRun ==
    \A n \in 1..MaxQueries :
      n \in Query /\ Accepted(n) ~> n \in Query /\ Ran(n)
=============================================================================
