---------------------------- MODULE MCSimKernel ----------------------------
(* Two event types: one of a high and one of a low priority.               *)
EXTENDS SimKernel, TLC

CONSTANTS arrival, persistence

MCPriority == (arrival :> 3) @@ (persistence :> 10)
MCDelays == {0, 1}

\* Between steps the bounds may leave nothing to do, within a step never.
AtBounds == phase = "idle" /\ UNCHANGED vars

BoundedSpec == Init /\ [][Next \/ AtBounds]_vars
=============================================================================
