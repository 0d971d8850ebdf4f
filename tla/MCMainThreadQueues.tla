------------------------- MODULE MCMainThreadQueues -------------------------
(* Small instances of MainThreadQueues for TLC. *)
EXTENDS MainThreadQueues, TLC
=============================================================================
