---------------------------- MODULE MCSqlThread -----------------------------
(* SqlThread for TLC. *)
EXTENDS SqlThread, TLC
=============================================================================
