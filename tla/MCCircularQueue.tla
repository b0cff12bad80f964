-------------------------- MODULE MCCircularQueue ---------------------------
(* CircularQueue for TLC. *)
EXTENDS CircularQueue, TLC
=============================================================================
