---------------------------- MODULE MCGameLogin -----------------------------
(* GameLogin for TLC: account "a" has player 1 at start, "b" has none. *)
EXTENDS GameLogin, TLC

MCStoredPlayer == 1 :> "a"
MCStoredAccount == ("a" :> "x") @@ ("b" :> "y")
MCOneAccount == "a" :> "x"
MCAccount == {"a", "b"}
MCPwd == {"x", "y"}
Symmetry == Permutations(Conn)
=============================================================================
