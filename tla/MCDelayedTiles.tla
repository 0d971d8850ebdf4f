--------------------------- MODULE MCDelayedTiles ---------------------------
(* An instance of DelayedTiles: a grid that is read from a storage, a tile   *)
(* d1 that a binary operator calculates from g1 and g2, and a lazy tile e1   *)
(* that another one calculates from d1 and g2.                               *)
EXTENDS DelayedTiles, TLC

CONSTANTS Grid, Middle, Derived, g1, g2, d1, e1, t1, t2, w1

MCItemOf == [n \in Tile |-> CASE n = d1 -> Middle [] n = e1 -> Derived [] OTHER -> Grid]
MCArg == [n \in Tile |-> CASE n = d1 -> {g1, g2} [] n = e1 -> {d1, g2} [] OTHER -> {}]
MCAsync == [n \in Tile |-> CASE n = d1 -> {g1} [] n = e1 -> {d1} [] OTHER -> {}]
MCLevel == [i \in Item |-> CASE i = Grid -> 0 [] i = Middle -> 1 [] i = Derived -> 2]

MCAsked == [t \in Thread \ Worker |-> IF t = t1 THEN {e1} ELSE {d1, e1}]
=============================================================================
