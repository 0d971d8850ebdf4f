--------------------------- MODULE MCItemAccess ---------------------------
(* A cache root p with a data item d, produced by contexts c1 and c2.      *)
EXTENDS ItemAccess, TLC

CONSTANTS p, d, c1, c2

RootDef == (p :> p) @@ (d :> p)
ResultDef == (c1 :> p) @@ (c2 :> p)
TargetDef == (c1 :> d) @@ (c2 :> d)
=============================================================================
