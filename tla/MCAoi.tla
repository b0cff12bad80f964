------------------------------- MODULE MCAoi --------------------------------
(* Aoi for TLC. *)
EXTENDS Aoi

Symmetry == Permutations(Entity)

(* Areas that change their size, on a grid of which no point is on an edge.  *)
(* The steps go along one, two and three axes.                             *)
MCWorld == {0, 5, 10}
MCStart == {<<0, 0, 0>>, <<5, 10, 5>>}
MCStep == {<<5, 0, -5>>, <<-5, 5, 0>>, <<0, -5, 5>>, <<5, 5, 5>>, <<-5, -5, -5>>}
MCRadii == {<<3, 3>>, <<8, 0>>, <<8, 3>>}
MCLimit == 8
MCFirst == <<3, 3>>

(* The game: players stand anywhere and only ever go by (2, 2, 0). *)
GameWorld == 0..7
GameStart == {<<0, 0, 0>>, <<3, 5, 1>>}
GameStep == {<<2, 2, 0>>}
GameFirst == <<5, 1>>

(* The game, with a player on whose y another one has the edge of its area. *)
EdgeWorld == 0..8
EdgeStart == {<<0, 0, 0>>, <<6, 5, 0>>}
=============================================================================
