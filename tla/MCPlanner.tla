----------------------------- MODULE MCPlanner -----------------------------
(***************************************************************************)
(* Two ports and two types. One voyage takes empties over before the two   *)
(* that a booking may take back; another booking is seeded on the first of *)
(* these, so that both do not fit.                                         *)
(***************************************************************************)
EXTENDS Planner, TLC

CONSTANTS a, b, out, back, late

MCTeu == "20DC" :> 1 @@ "40DC" :> 2
MCFrom == out :> a @@ back :> b @@ late :> b
MCTo == out :> b @@ back :> a @@ late :> a
MCDeparture == out :> 1 @@ back :> 8 @@ late :> 9
MCArrival == out :> 3 @@ back :> 10 @@ late :> 12
MCCapacity == out :> 1 @@ back :> 2 @@ late :> 2
MCOrigin == 1 :> b @@ 2 :> b
MCDestination == 1 :> a @@ 2 :> a
MCTypeOf == 1 :> "20DC" @@ 2 :> "40DC"
MCQuantity == 1 :> 2 @@ 2 :> 1
MCCargoReady == 1 :> 8 @@ 2 :> 8
MCSeedVoyage == 1 :> NoVoyage @@ 2 :> back
MCSeedPools == {<<a, "20DC">>, <<b, "20DC">>, <<b, "40DC">>}
MCLeasePools == {<<b, "20DC">>}
MCTarget(k, n) == IF n = 0 THEN 0 ELSE n - 1
=============================================================================
