---------------------------- MODULE MCWorldRuns ----------------------------
(***************************************************************************)
(* A small instance of WorldRuns: three requests for two worlds, one edit, *)
(* one disruption with an override in range and one out of it.             *)
(***************************************************************************)
EXTENDS WorldRuns

CONSTANTS w1, w2

Symmetry == Permutations(Worlds)

MCEdits ==
    {[name |-> "PORT_CONGESTION_THRESHOLD", value |-> 300, scope |-> "INMAA"]}

MCOverrides == {[STORM_SPEED_FACTOR |-> 300, STORM_SEVERITY |-> 1001]}

=============================================================================
