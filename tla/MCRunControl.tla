---------------------------- MODULE MCRunControl ----------------------------
(* Two requests at once: one at start()'s awaits, the other behind it, and  *)
(* the consumer beside both. Two runs: one published, the next being built  *)
(* when decisions come in or the start fails, with its events queued or     *)
(* without. A start that fails before it has made a run can be repeated     *)
(* without end.                                                             *)
EXTENDS RunControl, TLC

CONSTANTS c1, c2, r1, r2
=============================================================================
