------------------------------ MODULE AsyncSql ------------------------------
(***************************************************************************)
(* What DBService::asynQuery and asynExcute promise their callers: the     *)
(* statements of one key are executed in the order they were asked for,    *)
(* each once, and their callbacks are made in that order, each once and    *)
(* after its statement.  Nothing is said about different keys.             *)
(***************************************************************************)
EXTENDS Naturals, Sequences

CONSTANT Key

VARIABLES
    keyOf,      \* the key of the i-th statement asked for
    executed,   \* the statements given to the database
    called      \* the statements whose callback was made

vars == <<keyOf, executed, called>>

Earlier(i) == {j \in 1..i - 1 : keyOf[j] = keyOf[i]}

Init == keyOf = <<>> /\ executed = {} /\ called = {}

Ask(k) ==
    /\ keyOf' = Append(keyOf, k)
    /\ UNCHANGED <<executed, called>>

Execute(i) ==
    /\ i \notin executed /\ Earlier(i) \subseteq executed
    /\ executed' = executed \union {i}
    /\ UNCHANGED <<keyOf, called>>

Call(i) ==
    /\ i \in executed \ called /\ Earlier(i) \subseteq called
    /\ called' = called \union {i}
    /\ UNCHANGED <<keyOf, executed>>

Next ==
    \/ \E k \in Key : Ask(k)
    \/ \E i \in DOMAIN keyOf : Execute(i) \/ Call(i)

Spec == Init /\ [][Next]_vars
=============================================================================
