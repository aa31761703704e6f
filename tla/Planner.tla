------------------------------ MODULE Planner ------------------------------
(***************************************************************************)
(* The planning engine of the simulation service in detail                 *)
(* (cargopilot/planning_engine.py): the plans its constraints allow, and   *)
(* what becomes of the world when one is applied, run after run. Module    *)
(* Allocations has one port and one type and knows each container; here    *)
(* empties are counted by port and type, and move.                         *)
(*                                                                         *)
(* optimize() has no await: it is one step, and time passes between runs.  *)
(* The objective is left out, as any plan that meets the constraints is    *)
(* one the solver may stop at; and so are the report's texts and costs.    *)
(* The load of a vessel at sea counts against the voyage it is on, which   *)
(* has left and which no constraint looks at. Time is in days.             *)
(***************************************************************************)
EXTENDS Integers, FiniteSets, FiniteSetsExt

CONSTANTS
    Ports, Types,
    Teu,          \* of a container of each type
    Voyages, NoVoyage,
    From, To, Departure, Arrival, Capacity,         \* of each voyage
    Bookings,     \* numbers: bookings are taken in their order
    Origin, Destination, TypeOf, Quantity, CargoReady,  \* of each booking
    SeedVoyage,   \* voyage of the bookings the world is seeded with allocated
    Empties,      \* empty boxes the world is seeded with
    SeedPools,    \* where those may be
    Target(_, _), \* target of a pool that is seeded with so many
    MaxLease,     \* MAX_LEASE_PER_PORT
    LeasePools,   \* bound: pools leases are ordered for
    Periods,      \* NUM_PERIODS
    Week,         \* PERIOD_SECONDS and cutoff_delta
    MaxTime,      \* bound: days simulated
    MaxRuns       \* bound: runs of the engine

\* Balances are kept for a port and a type.
Pools == Ports \X Types

ASSUME PlannerAssumption ==
    /\ IsFiniteSet(Types) /\ IsFiniteSet(Voyages) /\ IsFiniteSet(Bookings)
    /\ Teu \in [Types -> Nat]
    /\ NoVoyage \notin Voyages
    /\ From \in [Voyages -> Ports] /\ To \in [Voyages -> Ports]
    /\ Departure \in [Voyages -> Nat] /\ Arrival \in [Voyages -> Nat]
    /\ Capacity \in [Voyages -> Nat]
    /\ Bookings \subseteq Nat
    /\ Origin \in [Bookings -> Ports] /\ Destination \in [Bookings -> Ports]
    /\ TypeOf \in [Bookings -> Types]
    /\ Quantity \in [Bookings -> Nat] /\ CargoReady \in [Bookings -> Nat]
    /\ SeedVoyage \in [Bookings -> Voyages \union {NoVoyage}]
    /\ Empties \in Nat /\ SeedPools \subseteq Pools
    /\ \A k \in Pools, n \in 0..Empties : Target(k, n) \in Nat
    /\ MaxLease \in Nat /\ LeasePools \subseteq Pools
    /\ Periods \in Nat \ {0} /\ Week \in Nat \ {0}
    /\ MaxTime \in Nat /\ MaxRuns \in Nat

VARIABLES
    now,        \* WorldState.simulation_time
    runs,       \* runs of the engine so far
    voyage,     \* BookingState.voyage_id
    empty,      \* containers EMPTY_AVAILABLE in each pool
    available,  \* EquipmentBalance.available
    target,     \* EquipmentBalance.target
    leases,     \* containers of the LeaseStates made here
    rented,     \* containers of the leases that bookings have, C-LSD-...
    moves,      \* containers in the RepositioningStates made, by voyage and type
    booked,     \* VoyageState.booked_teu since the world was seeded
    missing     \* containers a booking was said to get and did not

stock == <<empty, available, leases, rented, missing>>
vars == <<now, runs, voyage, stock, target, moves, booked>>

NotBelowZero(n) == IF n < 0 THEN 0 ELSE n
AtMost(n, m) == IF n < m THEN n ELSE m

-----------------------------------------------------------------------------
(***************************************************************************)
(* What the engine looks at                                                *)
(***************************************************************************)

\* _estimate_departure_time()
DepartureOf(b) ==
    LET later == {Departure[v] : v \in {w \in Voyages :
                     /\ From[w] = Origin[b] /\ To[w] = Destination[b]
                     /\ Departure[w] >= CargoReady[b]}}
    IN  IF voyage[b] # NoVoyage THEN Departure[voyage[b]]
        ELSE IF later # {} THEN Min(later) ELSE CargoReady[b] + 2

\* Bookings within the cutoff, preserved if they have a voyage, are left alone.
Optimizable == {b \in Bookings : DepartureOf(b) - now > Week}
Preserved(v) == {b \in Bookings \ Optimizable : voyage[b] = v}

TeuOf(b) == Teu[TypeOf[b]]

\* net_voyage_capacity: what was planned earlier and is not preserved yet does
\* not count.
Room(v) ==
    NotBelowZero(Capacity[v]
                 - SumFunction([b \in Preserved(v) |-> TeuOf(b) * Quantity[b]]))

Candidates(b) ==
    {v \in Voyages : /\ From[v] = Origin[b] /\ To[v] = Destination[b]
                     /\ Departure[v] >= now + Week
                     /\ Departure[v] >= CargoReady[b] - 1}

\* scheduled_future_voyages
Ahead == {v \in Voyages : Departure[v] >= now}

\* _get_period()
Period(t) == AtMost((t - now) \div Week, Periods - 1)

PoolOf(b) == <<Origin[b], TypeOf[b]>>

-----------------------------------------------------------------------------
(***************************************************************************)
(* The plans                                                               *)
(***************************************************************************)

\* Y_own and L_lease: what is left of the quantity is U_unserved, (a).
Shares(b) ==
    {share \in [Candidates(b) -> [own : 0..Quantity[b], lease : 0..Quantity[b]]] :
        SumFunction([v \in Candidates(b)
                     |-> share[v].own + share[v].lease]) <= Quantity[b]}

Bookable ==
    {s \in [Optimizable -> UNION {Shares(b) : b \in Optimizable}] :
        \A b \in Optimizable : s[b] \in Shares(b)}

\* Bookings with their candidate voyages
Carriages(plan) ==
    UNION {{<<b, v>> : v \in DOMAIN plan.booked[b]} : b \in DOMAIN plan.booked}

UnitsOn(plan, c) == plan.booked[c[1]][c[2]].own + plan.booked[c[1]][c[2]].lease

MovedFrom(moved, k) ==
    SumFunction([v \in {v \in DOMAIN moved : From[v] = k[1]} |-> moved[v][k[2]]])

\* (e): no more than the surplus of the empties over the target; the empties an
\* earlier run has moved are still there.
Surplus(k) == NotBelowZero(empty[k] - target[k])

Movable ==
    {moved \in [Ahead -> [Types -> 0..Max({Surplus(k) : k \in Pools} \union {0})]] :
        \A k \in Pools : MovedFrom(moved, k) <= Surplus(k)}

Orders == [LeasePools -> 0..MaxLease]
OrderedAt(plan, k) == IF k \in LeasePools THEN plan.ordered[k] ELSE 0

\* What comes to a pool and leaves it up to the end of a week
Inflow(plan, k, week) ==
    SumFunction([v \in {v \in DOMAIN plan.moved :
                         To[v] = k[1] /\ Period(Arrival[v]) <= week}
                 |-> plan.moved[v][k[2]]])

Outflow(plan, k, week) ==
    SumFunction([c \in {c \in Carriages(plan) :
                         PoolOf(c[1]) = k /\ Period(Departure[c[2]]) <= week}
                 |-> plan.booked[c[1]][c[2]].own])
    + SumFunction([v \in {v \in DOMAIN plan.moved :
                           From[v] = k[1] /\ Period(Departure[v]) <= week}
                   |-> plan.moved[v][k[2]]])

\* Fault: any stock will do.
NoFlowConserved(plan) == TRUE

\* (b): I_inv, what is left at the end of each week
FlowConserved(plan) ==
    \A k \in Pools, week \in 0..(Periods - 1) :
        empty[k] + Inflow(plan, k, week) >= Outflow(plan, k, week)

\* (c)
LeasesLinked(plan) ==
    \A k \in Pools :
        SumFunction([c \in {c \in Carriages(plan) : PoolOf(c[1]) = k}
                     |-> plan.booked[c[1]][c[2]].lease]) <= OrderedAt(plan, k)

TeuBooked(plan, v) ==
    SumFunction([c \in {c \in Carriages(plan) : c[2] = v}
                 |-> TeuOf(c[1]) * UnitsOn(plan, c)])

\* Fault: empties take no room.
FitsBookingsOnly(plan) == \A v \in Ahead : TeuBooked(plan, v) <= Room(v)

\* (d)
FitsVoyages(plan) ==
    \A v \in Ahead :
        TeuBooked(plan, v) + SumFunction([k \in Types |-> Teu[k] * plan.moved[v][k]])
          <= Room(v)

Feasible(plan) == LeasesLinked(plan) /\ FlowConserved(plan) /\ FitsVoyages(plan)

Plans ==
    {plan \in [booked : Bookable, moved : Movable, ordered : Orders] : Feasible(plan)}

-----------------------------------------------------------------------------
(***************************************************************************)
(* A plan applied                                                          *)
(***************************************************************************)

Used(plan, b) ==
    {v \in Candidates(b) : UnitsOn(plan, <<b, v>>) > 0}

Served(plan) == {b \in Optimizable : Used(plan, b) # {}}

\* The first voyage to depart; what the plan put on later ones is dropped.
Taken(plan, b) ==
    CHOOSE v \in Used(plan, b) : \A w \in Used(plan, b) : Departure[v] <= Departure[w]

OwnOf(plan, b) == plan.booked[b][Taken(plan, b)].own
LeaseOf(plan, b) == plan.booked[b][Taken(plan, b)].lease

ServedFrom(plan, k) == {b \in Served(plan) : PoolOf(b) = k}
OwnFrom(plan, k) == SumFunction([b \in ServedFrom(plan, k) |-> OwnOf(plan, b)])
LeaseFrom(plan, k) == SumFunction([b \in ServedFrom(plan, k) |-> LeaseOf(plan, b)])

\* Fault: the containers given to bookings stay on the balance.
StillAvailable(plan, k) ==
    NotBelowZero(available[k] - MovedFrom(plan.moved, k)) + OrderedAt(plan, k)

\* Leased containers go to the balance too, those that bookings have included.
AvailableAfter(plan, k) ==
    NotBelowZero(available[k] - OwnFrom(plan, k) - MovedFrom(plan.moved, k))
    + OrderedAt(plan, k)

\* optimize(): the containers of a booking are those empty now where it starts,
\* as many as there are, and leased ones. Moved empties are ordered and taken
\* off the balance; the containers stay what and where they are.
Apply(plan) ==
    /\ voyage' = [b \in Bookings |->
          IF b \in Served(plan) THEN Taken(plan, b) ELSE voyage[b]]
    /\ empty' = [k \in Pools |-> NotBelowZero(empty[k] - OwnFrom(plan, k))]
    /\ missing' = [k \in Pools |->
          missing[k] + NotBelowZero(OwnFrom(plan, k) - empty[k])]
    /\ rented' = [k \in Pools |-> rented[k] + LeaseFrom(plan, k)]
    /\ leases' = [k \in Pools |-> leases[k] + OrderedAt(plan, k)]
    /\ available' = [k \in Pools |-> AvailableAfter(plan, k)]
    /\ moves' = [v \in Voyages |-> [k \in Types |->
          moves[v][k] + (IF v \in Ahead THEN plan.moved[v][k] ELSE 0)]]
    /\ booked' = [v \in Voyages |-> booked[v] +
          SumFunction([b \in {b \in Served(plan) : Taken(plan, b) = v}
                       |-> TeuOf(b) * (OwnOf(plan, b) + LeaseOf(plan, b))])]

\* A run finds a plan, or none in its time and touches nothing.
Optimize ==
    /\ runs < MaxRuns
    /\ runs' = runs + 1
    /\ \/ \E plan \in Plans : Apply(plan)
       \/ UNCHANGED <<voyage, stock, moves, booked>>
    /\ UNCHANGED <<now, target>>

Advance ==
    /\ now < MaxTime
    /\ now' = now + 1
    /\ UNCHANGED <<runs, voyage, stock, target, moves, booked>>

\* _seed_containers(), _seed_equipment_with_realism(): each empty container is
\* of some type in some port, and the balances count them.
Init ==
    /\ now = 0 /\ runs = 0
    /\ voyage = SeedVoyage
    /\ \E seeded \in [1..Empties -> SeedPools] :
          empty = [k \in Pools |-> Cardinality({i \in 1..Empties : seeded[i] = k})]
    /\ available = empty
    /\ target = [k \in Pools |-> Target(k, empty[k])]
    /\ leases = [k \in Pools |-> 0] /\ rented = [k \in Pools |-> 0]
    /\ missing = [k \in Pools |-> 0]
    /\ moves = [v \in Voyages |-> [k \in Types |-> 0]]
    /\ booked = [v \in Voyages |-> 0]

Next == Optimize \/ Advance

Spec == Init /\ [][Next]_vars

-----------------------------------------------------------------------------
(***************************************************************************)
(* Properties                                                              *)
(***************************************************************************)

\* Counts are never negative; a booking keeps to voyages there are.
PlannerTypeOK ==
    /\ \A f \in {empty, available, target, leases, rented, missing} : f \in [Pools -> Nat]
    /\ moves \in [Voyages -> [Types -> Nat]]
    /\ booked \in [Voyages -> Nat]
    /\ voyage \in [Bookings -> Voyages \union {NoVoyage}]

\* What a run puts aboard a voyage, empties included, fits beside the bookings
\* preserved on it.
RunsFitVoyages ==
    [][\A v \in Voyages : moves'[v] # moves[v] \/ booked'[v] # booked[v] =>
          booked'[v] - booked[v]
          + SumFunction([k \in Types |-> Teu[k] * (moves'[v][k] - moves[v][k])])
             <= Room(v)]_vars

\* Every leased container that a booking has is one of a lease of its port and
\* type, however plans are cut down to one voyage.
RentedBoxesAreLeased == \A k \in Pools : rented[k] <= leases[k]

\* A balance never shows more than the empties there are and the leases.
AvailableIsBacked == \A k \in Pools : available[k] <= empty[k] + leases[k]

\* The three books of the stock, balances, containers and leases, go together.
StockIsSound == PlannerTypeOK /\ RentedBoxesAreLeased /\ AvailableIsBacked

\* A booking that is said to get more containers than are there only lacks
\* what was ordered to be moved to its port: the engine counts on empties of
\* later weeks and takes those of today.
MissingBoxesAreMoved ==
    \A k \in Pools :
        missing[k]
          <= SumFunction([v \in {v \in Voyages : To[v] = k[1]} |-> moves[v][k[2]]])

=============================================================================
