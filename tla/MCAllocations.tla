--------------------------- MODULE MCAllocations ---------------------------
(* A lock of two days, half a day per tick. Booking b1 is seeded allocated *)
(* to the late voyage with its cutoff at day 1, b2 is unallocated with its *)
(* cutoff at the first instant, b3 is seeded LOCKED on a voyage about to   *)
(* leave.                                                                  *)
EXTENDS Allocations, TLC

CONSTANTS b1, b2, b3, c1, c2, c3, c4, soon, mid, late

MCDeparture == (soon :> 3) @@ (mid :> 6) @@ (late :> 10)
MCCargoReady == (b1 :> 6) @@ (b2 :> 4) @@ (b3 :> 4)
MCCutoff == (b1 :> 2) @@ (b2 :> 0) @@ (b3 :> 4)
MCQuantity == (b1 :> 1) @@ (b2 :> 2) @@ (b3 :> 1)
MCSeedVoyage == (b1 :> late) @@ (b2 :> NoVoyage) @@ (b3 :> soon)
MCSeedHolder == (c1 :> b1) @@ (c2 :> b3) @@ (c3 :> Nobody) @@ (c4 :> Nobody)

\* The two containers nobody holds at first: nothing tells them apart.
Spare == Permutations({c3, c4})
=============================================================================
