-------------------------- MODULE MCContainerDesk --------------------------
(***************************************************************************)
(* One box, two requests at once and assignments for two bookings: enough  *)
(* for two releases and an assignment of one box to overlap. A voyage and  *)
(* a location are there or not.                                            *)
(***************************************************************************)
EXTENDS ContainerDesk, TLC

Symmetry == Permutations(Assignments) \cup Permutations(Clerks)
=============================================================================
