----------------------------- MODULE EventOrder -----------------------------
(***************************************************************************)
(* The order of the kernel's scheduled events: the dataclass(order=True)   *)
(* comparison of ScheduledEvent, services/simulation/app/engine/           *)
(* simulation_kernel.py.                                                   *)
(***************************************************************************)
EXTENDS Integers

\* Fault: the priority is compared before the time.
PriorityFirst(a, b) ==
    \/ a.priority < b.priority
    \/ a.priority = b.priority /\ a.time < b.time
    \/ a.time = b.time /\ a.priority = b.priority /\ a.sequence < b.sequence

\* Time first, then EventPriority (a lower value runs first), then insertion
\* order; the event itself and its handler are not compared.
Precedes(a, b) ==
    \/ a.time < b.time
    \/ a.time = b.time /\ a.priority < b.priority
    \/ a.time = b.time /\ a.priority = b.priority /\ a.sequence < b.sequence
=============================================================================
