----------------------------- MODULE MCFrontEnd -----------------------------
(* FrontEnd for TLC. *)
EXTENDS FrontEnd, TLC

CONSTANTS city1, city2, loc1, loc2, cat1, cat2, sub1, sub2

MCCityOf == loc1 :> city1 @@ loc2 :> city2
MCParentOf == sub1 :> cat1 @@ sub2 :> cat2
MCActive == {sub1}
=============================================================================
