------------------------------ MODULE AoiArea -------------------------------
(***************************************************************************)
(* What the area of interest promises, without lists, nodes or triggers:   *)
(* after every request each entity sees everyone within its inner range,   *)
(* and of those it saw before also the ones still within its outer range.  *)
(***************************************************************************)
EXTENDS Integers

CONSTANTS Entity

VARIABLES present, position, inner, outer, sees

vars == <<present, position, inner, outer, sees>>

Distance(v, w) == IF v < w THEN w - v ELSE v - w

(* Within r on every axis: the areas are boxes. *)
Within(e, b, r) == \A a \in 1..3 : Distance(position[e][a], position[b][a]) <= r

Init ==
    /\ present = {}
    /\ sees = [e \in Entity |-> {}]

(* Whatever the request, this is what is seen after it. *)
Seen ==
    sees' = [e \in Entity |->
               IF e \notin present' THEN {}
               ELSE {b \in present' \ {e} :
                       \/ Within(e, b, inner[e])'
                       \/ b \in sees[e] /\ Within(e, b, outer[e])'}]

Come(e) ==
    /\ e \notin present /\ present' = present \union {e}
    /\ UNCHANGED <<position, inner, outer>>

Go(e) ==
    /\ e \in present /\ present' = present \ {e}
    /\ UNCHANGED <<position, inner, outer>>

Walk(e) ==
    /\ e \in present
    /\ position' = [position EXCEPT ![e] = position'[e]]
    /\ UNCHANGED <<present, inner, outer>>

Look(e) ==
    /\ inner' = [inner EXCEPT ![e] = inner'[e]]
    /\ outer' = [outer EXCEPT ![e] = outer'[e]]
    /\ UNCHANGED <<present, position>>

Next == Seen /\ \E e \in Entity : Come(e) \/ Go(e) \/ Walk(e) \/ Look(e)

Spec == Init /\ [][Next]_vars
=============================================================================
