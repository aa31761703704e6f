---------------------------- MODULE DailyEngine ----------------------------
(***************************************************************************)
(* The day by day run of a planned world in the API                        *)
(* (simulation/daily_engine.py, served by api/v1/simulation.py). The MILP  *)
(* has planned the stock of every port for the whole horizon; the engine   *)
(* keeps a stock of its own, moves it by the plan's decisions, and writes  *)
(* a snapshot of every day. Both count the same boxes by rules written     *)
(* down twice.                                                             *)
(*                                                                         *)
(* A snapshot is a copy of the state: here it is the state, and what is    *)
(* computed for it are operators of the state.                             *)
(***************************************************************************)
EXTENDS MilpPlan

CONSTANTS
    Datasets,    \* what may be loaded from the test database
    MaxEmpties,  \* bounds the empties of a plan on one leg
    HomePort     \* where a vessel is shown before its first leg

ASSUME EngineAssumption ==
    /\ Datasets \subseteq Dataset
    /\ None \notin Days
    /\ \A d \in Datasets, k \in Bookings : None \notin Network(d)[k]

VARIABLES
    data, plan,
    path,       \* the path of each booking's first decision, None without one
    day,        \* current_day
    stock,      \* inventories
    devanning,  \* devanning_queue: [booking, port, type, day, quantity]
    status,     \* of each booking
    delivered   \* actual_delivery_day of each booking, None before

vars == <<data, plan, path, day, stock, devanning, status, delivered>>
fixed == <<data, plan, path>>

\* The statuses a booking goes through, in this order
Rank == [REQUESTED |-> 1, CONFIRMED |-> 2, IN_TRANSIT |-> 3, DELIVERED |-> 4]
Statuses == {"REQUESTED", "CONFIRMED", "IN_TRANSIT", "DELIVERED"}

-----------------------------------------------------------------------------
(***************************************************************************)
(* booking_decisions has a decision for each path that is used, in the     *)
(* order of the paths: the direct ones, then those with a transshipment.   *)
(* The engine always takes the first of a booking.                         *)
(***************************************************************************)
Used(pl, k) == {p \in PathsOf(pl, k) : Units(pl.booked[k][p]) > 0}

FirstUsed(d, pl, k) ==
    LET U == Used(pl, k)
        D == U \cap DirectPaths(d.legs, d.bookings[k])
    IN  IF U = {} THEN {None} ELSE IF D = {} THEN U ELSE D

Init ==
    /\ data \in Datasets
    /\ plan \in Plans(data, MaxEmpties)
    /\ path \in {f \in [Bookings -> UNION {FirstUsed(data, plan, k) : k \in Bookings}] :
                    \A k \in Bookings : f[k] \in FirstUsed(data, plan, k)}
    /\ day = 0
    /\ stock = data.stock
    /\ devanning = {}
    /\ status = [k \in Bookings |-> "REQUESTED"]
    /\ delivered = [k \in Bookings |-> None]

-----------------------------------------------------------------------------
(* The decision of a booking that has one *)
Departure(k) == data.legs[path[k].first].departure
Arrival(k) == data.legs[path[k].last].arrival
Owned(k) == plan.booked[k][path[k]].own
Booked(k) == data.bookings[k]

Sails(k, t) == path[k] # None /\ Departure(k) = t
Lands(k, t) == path[k] # None /\ Arrival(k) = t

(***************************************************************************)
(* What a day t does: empties and loaded boxes leave the stock of a port,  *)
(* empties arrive, and boxes whose devanning ends today come back. What    *)
(* was delivered today is queued after that.                               *)
(***************************************************************************)
EmptiesOut(p, t, n) ==
    SumFunction([i \in {i \in DOMAIN data.legs :
                         data.legs[i].from = p /\ data.legs[i].departure = n}
                 |-> plan.empties[i][t]])
EmptiesIn(p, t, n) ==
    SumFunction([i \in {i \in DOMAIN data.legs :
                         data.legs[i].to = p /\ data.legs[i].arrival = n}
                 |-> plan.empties[i][t]])
LadenOut(p, t, n) ==
    SumFunction([k \in {k \in Bookings :
                         Sails(k, n) /\ Booked(k).origin = p /\ Booked(k).type = t}
                 |-> Owned(k)])
Devanned(p, t, n) ==
    SumFunction([e \in {e \in devanning : e.port = p /\ e.type = t /\ e.day = n}
                 |-> e.quantity])

\* Fault: empties come ashore a day late
StockWithoutArrivals(n) ==
    [p \in Ports |-> [t \in Types |->
        stock[p][t] + Devanned(p, t, n) - EmptiesOut(p, t, n) + EmptiesIn(p, t, n - 1)
                    - LadenOut(p, t, n)]]

StockAfter(n) ==
    [p \in Ports |-> [t \in Types |->
        stock[p][t] + Devanned(p, t, n) - EmptiesOut(p, t, n) + EmptiesIn(p, t, n)
                    - LadenOut(p, t, n)]]

Queued(n) ==
    {[booking |-> k, port |-> Booked(k).destination, type |-> Booked(k).type,
      day |-> n + data.ports[Booked(k).destination].lead, quantity |-> Owned(k)] :
        k \in {k \in Bookings : Lands(k, n) /\ Owned(k) > 0}}

\* Fault: what is delivered is not queued
QueueDropsNew(n) == {e \in devanning : e.day # n}

QueueAfter(n) == {e \in devanning : e.day # n} \cup Queued(n)

StatusAfter(k, n) ==
    IF Lands(k, n) THEN "DELIVERED"
    ELSE IF Sails(k, n) THEN "IN_TRANSIT"
    ELSE IF Booked(k).ready = n /\ status[k] = "REQUESTED" THEN "CONFIRMED"
    ELSE status[k]

\* Fault: the run ends a day before the horizon
StopsShort ==
    /\ day < Horizon - 1
    /\ day' = day + 1
    /\ stock' = StockAfter(day')
    /\ devanning' = QueueAfter(day')
    /\ status' = [k \in Bookings |-> StatusAfter(k, day')]
    /\ delivered' = [k \in Bookings |-> IF Lands(k, day') THEN day' ELSE delivered[k]]
    /\ UNCHANGED fixed

Step ==
    /\ day < Horizon
    /\ day' = day + 1
    /\ stock' = StockAfter(day')
    /\ devanning' = QueueAfter(day')
    /\ status' = [k \in Bookings |-> StatusAfter(k, day')]
    /\ delivered' = [k \in Bookings |-> IF Lands(k, day') THEN day' ELSE delivered[k]]
    /\ UNCHANGED fixed

Next == Step

Spec == Init /\ [][Next]_vars

\* run_all steps in one loop, in the thread of its request
FairSpec == Spec /\ WF_vars(Step)

-----------------------------------------------------------------------------
(* What a snapshot says besides *)

\* Of a booking: what the operator is told to do
Directive(k) ==
    IF path[k] = None THEN "NONE"
    ELSE IF day = Booked(k).ready THEN "DISPATCH_NOW"
    ELSE IF day = Departure(k) THEN "LOAD_VESSEL_TODAY"
    ELSE IF Departure(k) < day /\ day < Arrival(k) THEN "IN_TRANSIT"
    ELSE IF day >= Arrival(k) THEN "DELIVERED"
    ELSE "UPCOMING"

At(p) == [from |-> p, to |-> p]

\* Fault: a vessel leaves on the day after its departure
LateUnderWay(v) == {i \in DOMAIN data.legs : /\ data.legs[i].vessel = v
                                             /\ data.legs[i].departure < day
                                             /\ day <= data.legs[i].arrival}

UnderWay(v) == {i \in DOMAIN data.legs : /\ data.legs[i].vessel = v
                                         /\ data.legs[i].departure <= day
                                         /\ day <= data.legs[i].arrival}

\* Of a vessel: where it is, the first of the legs that are under way
Position(v) ==
    LET Active == UnderWay(v)
        Done == {i \in DOMAIN data.legs : data.legs[i].vessel = v /\ data.legs[i].arrival <= day}
        Last == {i \in Done : \A j \in Done : data.legs[j].arrival <= data.legs[i].arrival}
        l == data.legs[Min(Active)]
    IN  IF Active # {}
        THEN IF day < Max({l.departure + 1, l.arrival}) THEN [from |-> l.from, to |-> l.to]
             ELSE At(l.to)
        ELSE IF Last # {} THEN At(data.legs[Min(Last)].to)
        ELSE At(HomePort)

(***************************************************************************)
(* Of a port: what it is to load today, in containers and, for empties, in *)
(* TEU. The laden order is for the booked quantity, whatever part of it    *)
(* the plan serves.                                                        *)
(***************************************************************************)

LadenOrder(p) ==
    SumFunction([k \in {k \in Bookings : Sails(k, day) /\ Booked(k).origin = p}
                 |-> Booked(k).quantity])
LeasedToday(p) ==
    SumFunction([k \in {k \in Bookings : Sails(k, day) /\ Booked(k).origin = p}
                 |-> plan.booked[k][path[k]].lease])
EmptyOrder(p) ==
    SumFunction([i \in {i \in DOMAIN data.legs :
                         data.legs[i].from = p /\ data.legs[i].departure = day}
                 |-> EmptyTeu(data, plan, i)])

-----------------------------------------------------------------------------
(* Properties *)

\* Days, stocks, entries and statuses are of their kind.
TypeOK ==
    /\ day \in Days
    /\ stock \in [Ports -> [Types -> Int]]
    /\ \A e \in devanning : /\ e.booking \in Bookings /\ e.port \in Ports /\ e.type \in Types
                            /\ e.day \in Int /\ e.quantity \in Nat
    /\ status \in [Bookings -> Statuses]
    /\ delivered \in [Bookings -> Days \cup {None}]

\* A booking is served on one path, none departs or arrives before the first
\* day that is stepped, and a day at least passes in devanning.
Executable ==
    /\ plan.solved
    /\ \A k \in Bookings : Cardinality(Used(plan, k)) <= 1
    /\ \A i \in DOMAIN data.legs : data.legs[i].departure > 0 /\ data.legs[i].arrival > 0
    /\ \A p \in Ports : data.ports[p].lead > 0

(***************************************************************************)
(* The stock the engine arrives at is the stock the plan was made for, on  *)
(* every day, so no port ships what it has not (step, Eq 1 and Eq 13).     *)
(***************************************************************************)
StockFollowsPlan ==
    Executable =>
       \A p \in Ports, t \in Types : stock[p][t] = Planned(data, plan, p, t)[day]

OnDay(t) ==
    SumFunction([i \in {i \in DOMAIN data.legs :
                         data.legs[i].departure <= day /\ day < data.legs[i].arrival}
                 |-> plan.empties[i][t]])
    + SumFunction([k \in {k \in Bookings : status[k] = "IN_TRANSIT" /\ Booked(k).type = t}
                   |-> Owned(k)])
    + SumFunction([e \in {e \in devanning : e.type = t} |-> e.quantity])

(***************************************************************************)
(* No box appears or is lost: what was in stock is in stock, at sea or     *)
(* being unpacked, also in a plan that splits its bookings, for data the   *)
(* validator passes with no leg on day 0 (step).                           *)
(***************************************************************************)
NothingLost ==
    NoErrors(data) /\ (\A i \in DOMAIN data.legs : data.legs[i].departure > 0) =>
       \A t \in Types : SumFunction([p \in Ports |-> stock[p][t]]) + OnDay(t)
                        = SumFunction([p \in Ports |-> data.stock[p][t]])

\* Every box is accounted for, day by day, whatever the plan looks like.
BoxesConserved == TypeOK /\ NothingLost

(***************************************************************************)
(* What the operator is told of a booking and the status it has go         *)
(* together, though one is computed from the date and the other kept from  *)
(* day to day, for data the validator passes (_record_snapshot, step).     *)
(***************************************************************************)
DirectiveMatchesStatus ==
    NoErrors(data) =>
       \A k \in Bookings : path[k] # None =>
          /\ status[k] = "DELIVERED" <=> Directive(k) = "DELIVERED"
          /\ status[k] = "IN_TRANSIT" =>
                \/ Directive(k) \in {"LOAD_VESSEL_TODAY", "IN_TRANSIT"}
                \/ Directive(k) = "DISPATCH_NOW" /\ Departure(k) = day
          /\ status[k] = "REQUESTED" => Directive(k) = "UPCOMING"
          /\ status[k] = "CONFIRMED" =>
                Directive(k) \in {"DISPATCH_NOW", "UPCOMING"} /\ Departure(k) # day
          /\ delivered[k] # None <=> status[k] = "DELIVERED"

\* The legs of a vessel do not meet, not even on one day.
OneLegAtATime ==
    \A i, j \in DOMAIN data.legs :
       i # j /\ data.legs[i].vessel = data.legs[j].vessel
          => data.legs[i].arrival < data.legs[j].departure
                \/ data.legs[j].arrival < data.legs[i].departure

(***************************************************************************)
(* A booking at sea is shown where its vessel is shown, for data the       *)
(* validator passes and vessels with one leg at a time (_record_snapshot). *)
(***************************************************************************)
CargoIsWithItsVessel ==
    NoErrors(data) /\ OneLegAtATime =>
       \A k \in Bookings : status[k] = "IN_TRANSIT" =>
          \A i \in path[k].legs :
             LET l == data.legs[i]
             IN  l.departure <= day /\ day < l.arrival
                    => Position(l.vessel) = [from |-> l.from, to |-> l.to]

(***************************************************************************)
(* The manifests of a leg, laden and empty, fit beside the slots others    *)
(* have booked (run_world_1_simulation, _build_voyage_util).               *)
(***************************************************************************)
LegsNotOverbooked ==
    plan.solved => \A i \in DOMAIN data.legs :
       LadenTeu(data, plan, i) + EmptyTeu(data, plan, i) + data.legs[i].booked_teu
          <= data.legs[i].teu

(***************************************************************************)
(* What a port is told to load is what leaves its stock that day, as long  *)
(* as its bookings are served in full (_record_snapshot, step).            *)
(***************************************************************************)
OrdersMatchOutflow ==
    Executable => \A p \in Ports :
       (\A k \in Bookings : Booked(k).origin = p => Unserved(data, plan, k) = 0) =>
          /\ LadenOrder(p) - LeasedToday(p)
               = SumFunction([t \in Types |-> LadenOut(p, t, day)])
          /\ EmptyOrder(p)
               = SumFunction([t \in Types |-> Teu(t) * EmptiesOut(p, t, day)])

\* The snapshot of a day, computed from plan and date, tells what the day's step
\* has made of bookings, vessels, legs and stock.
SnapshotIsTrue ==
    DirectiveMatchesStatus /\ CargoIsWithItsVessel /\ LegsNotOverbooked /\ OrdersMatchOutflow

(***************************************************************************)
(* A booking never goes back to a status it has left, for data the         *)
(* validator passes (step).                                                *)
(***************************************************************************)
StatusMovesForward ==
    [][NoErrors(data) => \A k \in Bookings : Rank[status[k]] <= Rank[status'[k]]]_vars

(***************************************************************************)
(* What was to arrive by today has been delivered, on the very day its     *)
(* path has it arrive, for data the validator passes (step).               *)
(***************************************************************************)
DueIsDelivered ==
    NoErrors(data) => \A k \in Bookings :
       path[k] # None /\ Arrival(k) <= day =>
          status[k] = "DELIVERED" /\ delivered[k] = Arrival(k)

(***************************************************************************)
(* The run comes to its horizon, and what was to arrive by then has been   *)
(* delivered, for data the validator passes (run_all).                     *)
(***************************************************************************)
RunCompletes == <>(day = Horizon /\ DueIsDelivered)

=============================================================================
