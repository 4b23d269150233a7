---------------------------- MODULE MCMaintenance ----------------------------
(* Two families with one task each.  The first task was tried twice: a     *)
(* unit of each try forks at step 0, and one of the longer first try at a  *)
(* step that the second one, onto which all three are loaded, has not.     *)
EXTENDS Maintenance, TLC

CONSTANTS pydantic, click, t1, t2, ep1, ep2, ep3, w, x, y, z, recorded

MCToday == [f \in Families |-> recorded]
MCEps == <<ep1, ep2, ep3>>
MCLength == ep1 :> 2 @@ ep2 :> 1 @@ ep3 :> 1
MCTaskOf == ep1 :> t1 @@ ep2 :> t1 @@ ep3 :> t2
MCFamilyOf == t1 :> pydantic @@ t2 :> click
MCStepOf == x :> 0 @@ w :> 0 @@ y :> 1 @@ z :> 0

U(e, i) == [episode |-> e, edit |-> i]

MCUnits == <<U(ep2, x), U(ep1, w), U(ep3, z), U(ep1, y)>>
=============================================================================
