-------------------------- MODULE MCInterestCount --------------------------
(* Three actors: base is the unit and the parent of result, and a supplier *)
(* of calc; calc is what result is calculated from and its data            *)
(* controller; result may refer to base.                                   *)
EXTENDS InterestRaces, TLC

CONSTANTS result, calc, base

Graph(ofResult, ofCalc) == (result :> ofResult) @@ (calc :> ofCalc) @@ (base :> {})
NoneDef == Graph({}, {})
UnitsDef == Graph({base}, {})
ParentDef == Graph({base}, {})
SupplDef == Graph({calc}, {base})
CalcDef == Graph({calc}, {})
RefDef == Graph({NoActor, base}, {})
=============================================================================
