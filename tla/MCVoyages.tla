----------------------------- MODULE MCVoyages -----------------------------
(* One port, two vessels, two storms that may overlap, two breakdowns of   *)
(* which one may come before the other is repaired.                        *)
EXTENDS Voyages, TLC

CONSTANTS port, v1, v2, d1, d2

MCBerthsTotal == port :> 1
MCBaseSpeed == v1 :> 20 @@ v2 :> 10
MCSeedHours == {2, 3}
MCTurnarounds == {1}
MCDistances == {60}
MCStormForces == {50, 100}
MCStormHours == {2}
MCSteps == {2}
MCFailureGaps == {1}
MCStormAreas == {{}, {v1}}
=============================================================================
