---------------------------- MODULE MCPortCalls ----------------------------
(* One port of two berths, the smallest the seeder builds, and three       *)
(* vessels; severity 50 leaves one berth usable and 90 none.               *)
EXTENDS PortCalls, TLC

CONSTANTS port, v1, v2, v3, d1, d2

MCBerthsTotal == port :> 2
MCSeedHours == {1, 3}
MCTurnarounds == {1, 2}
MCSeverities == {50, 90}
MCDurations == {2}
=============================================================================
