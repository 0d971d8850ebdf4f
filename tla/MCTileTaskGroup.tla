-------------------------- MODULE MCTileTaskGroup --------------------------
(* Small instances of TileTaskGroup for TLC. *)
EXTENDS TileTaskGroup, TLC
=============================================================================
