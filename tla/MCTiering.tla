------------------------------ MODULE MCTiering ------------------------------
(* Two purges of one table, one of them inside the other's range.          *)
EXTENDS Tiering, TLC

CONSTANTS p1, p2

Nested == p1 :> {1} @@ p2 :> {1, 2}
=============================================================================
