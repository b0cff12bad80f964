---------------------------- MODULE MCNetService ----------------------------
(* NetService for TLC: interchangeable connections. *)
EXTENDS NetService, TLC

Symmetry == Permutations(Conn)
=============================================================================
