---------------------------- MODULE Allocations ----------------------------
(***************************************************************************)
(* The allocations of a simulated world and the seven-day lock.            *)
(*                                                                         *)
(* Two writers allocate containers to bookings: the planning engine of the *)
(* simulation service (cargopilot/planning_engine.py, run on request) and  *)
(* the Kafka consumer, which observes decisions published by the API       *)
(* service (kafka/consumer.py, models/allocation_model.py). The end of an  *)
(* advance locks bookings whose cutoff has come and repairs the lock flag  *)
(* of allocations (world/validator.py).                                    *)
(*                                                                         *)
(* Each of the three runs without an await and is one step here; a message *)
(* may come at any moment, late, twice or never. Time is in any unit. One   *)
(* port and one equipment type; voyage space, costs and the solver's       *)
(* search are left out: it may return any plan the constraints allow.      *)
(***************************************************************************)
EXTENDS Integers, FiniteSets

CONSTANTS
    Bookings, Containers, Voyages,
    NoVoyage, Nobody,  \* None, for a booking's voyage and a container's booking
    Departure,    \* scheduled_departure of each voyage
    CargoReady,   \* cargo_ready_time of each booking
    Cutoff,       \* cutoff_time of each booking
    Quantity,     \* containers each booking asks for
    LockTime,     \* seven days: cutoff_delta of the engine
    Day,          \* one day: an advance is no longer
    SeedVoyage,   \* voyage of the bookings the world is seeded with allocated
    SeedHolder,   \* booking each container is seeded allocated to
    SeedLocked,   \* bookings seeded LOCKED
    MaxTime       \* bound: no advance goes beyond

ASSUME AllocationAssumption ==
    /\ NoVoyage \notin Voyages
    /\ Nobody \notin Bookings
    /\ Departure \in [Voyages -> Nat]
    /\ CargoReady \in [Bookings -> Nat]
    /\ Cutoff \in [Bookings -> Nat]
    /\ Quantity \in [Bookings -> Nat]
    /\ LockTime \in Nat
    /\ Day \in Nat \ {0}
    /\ SeedVoyage \in [Bookings -> Voyages \union {NoVoyage}]
    /\ SeedHolder \in [Containers -> Bookings \union {Nobody}]
    /\ SeedLocked \subseteq Bookings
    /\ MaxTime \in Nat

VARIABLES
    now,       \* WorldState.simulation_time
    locked,    \* bookings whose lock_status is LOCKED
    voyage,    \* BookingState.voyage_id
    source,    \* what BookingState.allocation_id names: see Reference
    planned,   \* allocations seeded or made by the engine, under fresh ids
    observed,  \* allocations the consumer keeps under the id AL-<booking>
    holder     \* the booking a container is allocated to; Nobody: empty, or
               \* not leased yet

vars == <<now, locked, voyage, source, planned, observed, holder>>

Allocation == [booking : Bookings, container : Containers,
               voyage : Voyages \union {NoVoyage}, locked : BOOLEAN]

\* No allocation; the seeded one; the AL one; the engine's ALLOC-SET, an id
\* that no allocation has.
Reference == {"NONE", "SEEDED", "AL", "ALLOC-SET"}

Allocations == planned \union observed
AllocationsOf(b) == {a \in Allocations : a.booking = b}

-----------------------------------------------------------------------------

\* The seeded world: some bookings have an allocation, some are LOCKED with
\* it. A booking whose cutoff is the first instant need not be.
Init ==
    /\ now = 0
    /\ locked = SeedLocked
    /\ voyage = SeedVoyage
    /\ holder = SeedHolder
    /\ planned = {[booking |-> holder[c], container |-> c,
                   voyage |-> voyage[holder[c]],
                   locked |-> holder[c] \in SeedLocked] :
                      c \in {d \in Containers : holder[d] # Nobody}}
    /\ source = [b \in Bookings |->
          IF \E c \in Containers : holder[c] = b THEN "SEEDED" ELSE "NONE"]
    /\ observed = {}

-----------------------------------------------------------------------------
(***************************************************************************)
(* The lock                                                                *)
(***************************************************************************)

\* Fault: equality belongs to the unlocked state.
IsLockedAfter(cutoff, t) == t > cutoff

\* is_allocation_locked()
IsAllocationLocked(cutoff, t) == t >= cutoff

\* The allocations a booking's allocation_id names.
Named(b) ==
    CASE source[b] = "SEEDED" -> {a \in planned : /\ a.booking = b
                                                  /\ SeedHolder[a.container] = b}
      [] source[b] = "AL" -> {a \in observed : a.booking = b}
      [] OTHER -> {}

\* An allocation ends an advance with its flag on if it had it, if its booking
\* was locked before (the validator's repair), or if it is the one its booking
\* names and the booking crossed its cutoff in this advance.
Flagged(a, crossed) ==
    \/ a.locked
    \/ a.booking \in locked
    \/ a.booking \in crossed /\ a \in Named(a.booking)

TimeAfter(d) == now + d

\* advance(): the kernel's validators, then evaluate_booking_locks() at the
\* new time.
Advance(d) ==
    LET crossed == {b \in Bookings \ locked :
                       IsAllocationLocked(Cutoff[b], TimeAfter(d))}
    IN  /\ now + d <= MaxTime
        /\ now' = TimeAfter(d)
        /\ locked' = locked \union crossed
        /\ planned' = {[a EXCEPT !.locked = Flagged(a, crossed)] : a \in planned}
        /\ observed' = {[a EXCEPT !.locked = Flagged(a, crossed)] : a \in observed}
        /\ UNCHANGED <<voyage, source, holder>>

-----------------------------------------------------------------------------
(***************************************************************************)
(* The Kafka consumer                                                      *)
(***************************************************************************)

\* Fault: the lock is not looked at.
AlwaysModifiable(b) == TRUE

Modifiable(b) == b \notin locked

\* process_message() and observe_cargo_pilot_allocation(): the one allocation
\* under the booking's AL id is replaced, unless the booking is locked (the
\* error is logged and the message dropped). Container, voyage and the
\* booking's voyage are not looked at.
Observe(b, c, v) ==
    /\ Modifiable(b)
    /\ observed' = {a \in observed : a.booking # b} \union
          {[booking |-> b, container |-> c, voyage |-> v, locked |-> FALSE]}
    /\ source' = [source EXCEPT ![b] = "AL"]
    /\ UNCHANGED <<now, locked, voyage, planned, holder>>

-----------------------------------------------------------------------------
(***************************************************************************)
(* The planning engine                                                     *)
(***************************************************************************)

\* _estimate_departure_time()
DepartureOf(b) ==
    LET later == {Departure[v] : v \in {w \in Voyages : Departure[w] >= CargoReady[b]}}
    IN  IF voyage[b] # NoVoyage THEN Departure[voyage[b]]
        ELSE IF later # {} THEN CHOOSE t \in later : \A u \in later : t <= u
        ELSE CargoReady[b] + 2 * Day

\* is_inside_7d: the booking is preserved, or an exception; never replanned.
InsideWindow(b) == DepartureOf(b) - now <= LockTime

Optimizable == {b \in Bookings : ~InsideWindow(b)}

\* Fault: any container counts as empty.
AllContainers == Containers

\* The empty containers at the port and those that may be leased.
Empty == {c \in Containers : holder[c] = Nobody}

CandidateVoyages(b) ==
    {v \in Voyages : /\ Departure[v] >= now + LockTime
                     /\ Departure[v] >= CargoReady[b] - Day}

\* What the engine makes of a solution: for each optimizable booking nothing,
\* or a voyage and at most its quantity of containers, none given twice. It
\* may find fewer than were planned, or no container at all.
Plans ==
    {plan \in [Optimizable -> (Voyages \union {NoVoyage}) \X SUBSET Empty] :
        /\ \A b \in Optimizable :
              \/ plan[b] = <<NoVoyage, {}>>
              \/ /\ plan[b][1] \in CandidateVoyages(b)
                 /\ Cardinality(plan[b][2]) <= Quantity[b]
        /\ \A b, c \in Optimizable : b # c => plan[b][2] \intersect plan[c][2] = {}}

\* optimize(), when a solution is found: bookings already allocated are
\* planned again in full, and what they had is kept.
Optimize ==
    \E plan \in Plans :
        LET served == {b \in Optimizable : plan[b][1] # NoVoyage}
        IN  /\ planned' = planned \union
                  UNION {{[booking |-> b, container |-> c, voyage |-> plan[b][1],
                           locked |-> FALSE] : c \in plan[b][2]} : b \in served}
            /\ holder' = [c \in Containers |->
                  IF \E b \in served : c \in plan[b][2]
                  THEN CHOOSE b \in served : c \in plan[b][2] ELSE holder[c]]
            /\ voyage' = [b \in Bookings |->
                  IF b \in served THEN plan[b][1] ELSE voyage[b]]
            /\ source' = [b \in Bookings |->
                  IF b \in served THEN "ALLOC-SET" ELSE source[b]]
            /\ UNCHANGED <<now, locked, observed>>

Next ==
    \/ \E d \in 1..Day : Advance(d)
    \/ \E b \in Bookings, c \in Containers, v \in Voyages : Observe(b, c, v)
    \/ Optimize

Spec == Init /\ [][Next]_vars

-----------------------------------------------------------------------------
(***************************************************************************)
(* Properties                                                              *)
(***************************************************************************)

\* The state has the shape the world state gives it.
TypeOK ==
    /\ now \in Nat
    /\ locked \subseteq Bookings
    /\ voyage \in [Bookings -> Voyages \union {NoVoyage}]
    /\ source \in [Bookings -> Reference]
    /\ planned \subseteq Allocation
    /\ observed \subseteq Allocation
    /\ holder \in [Containers -> Bookings \union {Nobody}]

\* From the end of the first advance on, a booking at or past its cutoff is
\* locked, however time is cut into advances.
LocksAreTimely ==
    now > 0 => \A b \in Bookings : Cutoff[b] <= now => b \in locked

\* No allocation is flagged locked while its booking can still be changed:
\* replaced, replanned and repaired flags never run ahead of the lock.
FlagsFollowLocks == \A a \in Allocations : a.locked => a.booking \in locked

\* However often it runs, the engine gives a container to one booking once,
\* and the container knows that booking.
EngineAllocatesOnce ==
    /\ \A a, b \in planned : a.container = b.container => a = b
    /\ \A a \in planned : holder[a.container] = a.booking

\* What an allocation commits a booking to.
Commitments(b) ==
    <<voyage[b], {<<a.container, a.voyage>> : a \in AllocationsOf(b)}>>

\* A locked booking that departs within seven days keeps its allocations and
\* voyage: late messages are refused, and the engine leaves it alone.
FrozenInsideWindow ==
    [][\A b \in locked : InsideWindow(b) => Commitments(b)' = Commitments(b)]_vars

\* The specification document, 9.5: "Once locked" an allocation stays the same
\* "under normal CargoPilot allocation operations". Of a locked booking that has
\* allocations, however far off its voyage.
LockedAllocationsFrozen ==
    [][\A b \in locked : AllocationsOf(b) # {} => Commitments(b)' = Commitments(b)]_vars

=============================================================================
