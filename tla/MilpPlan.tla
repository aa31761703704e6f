------------------------------ MODULE MilpPlan ------------------------------
(***************************************************************************)
(* What the MILP solver of the API may answer for a dataset of world 1     *)
(* (optimization/milp_solver.py). Its constraints are the code's; its      *)
(* objective is left out: any plan that meets the constraints is one the   *)
(* solver may stop at, at its time limit at the latest. When none meets    *)
(* them, or none was found in time, no variable has a value and all are    *)
(* read as zero, the unserved quantities too.                              *)
(***************************************************************************)
EXTENDS CargoNetwork, FiniteSetsExt

CONSTANTS
    Horizon,                \* horizon_days
    Teu(_), Laden(_), Tare(_),  \* of a container of a type
    None

ASSUME HorizonAssumption == Horizon \in Nat

ASSUME TypeAssumption ==
    \A t \in Types : Teu(t) \in Nat /\ Laden(t) \in Nat /\ Tare(t) \in Nat

Days == 0..Horizon

\* booking_candidate_paths
Network(d) == [k \in Bookings |-> Paths(d.legs, d.bookings[k])]

Units(a) == a.own + a.lease

(***************************************************************************)
(* Y_own and L_short for each booking and path: a booking gets no more     *)
(* than its quantity, what is missing is the slack U (Eq 3, Eq 15).        *)
(***************************************************************************)
Allocations(q, paths) ==
    {a \in [paths -> [own : 0..q, lease : 0..q]] :
        SumFunction([p \in paths |-> Units(a[p])]) <= q}

PathsOf(plan, k) == DOMAIN plan.booked[k]

Unserved(d, plan, k) ==
    IF plan.solved
    THEN d.bookings[k].quantity
            - SumFunction([p \in PathsOf(plan, k) |-> Units(plan.booked[k][p])])
    ELSE 0

\* Every booking with each of its paths
Carriages(plan) == UNION {{<<k, p>> : p \in PathsOf(plan, k)} : k \in Bookings}

\* What bookings and empties take of a leg: Eq 5 and Eq 6, build_voyage_util
LadenTeu(d, plan, i) ==
    SumFunction([c \in {c \in Carriages(plan) : i \in c[2].legs}
                 |-> Teu(d.bookings[c[1]].type) * Units(plan.booked[c[1]][c[2]])])
EmptyTeu(d, plan, i) == SumFunction([t \in Types |-> Teu(t) * plan.empties[i][t]])
LadenMt(d, plan, i) ==
    SumFunction([c \in {c \in Carriages(plan) : i \in c[2].legs}
                 |-> Laden(d.bookings[c[1]].type) * Units(plan.booked[c[1]][c[2]])])
EmptyMt(d, plan, i) == SumFunction([t \in Types |-> Tare(t) * plan.empties[i][t]])

FitsAboard(d, plan) ==
    \A i \in DOMAIN d.legs :
       /\ LadenTeu(d, plan, i) + EmptyTeu(d, plan, i) <= d.legs[i].teu - d.legs[i].booked_teu
       /\ LadenMt(d, plan, i) + EmptyMt(d, plan, i) <= d.legs[i].mt - d.legs[i].booked_mt

(***************************************************************************)
(* Eq 1 and Eq 13: the stock of a port at the end of each day. Legs and    *)
(* paths enter on the day they depart and arrive, owned containers come    *)
(* back a lead time after their arrival, leased ones never were in stock.  *)
(***************************************************************************)
Inflow(d, plan, p, t, day) ==
    SumFunction([i \in {i \in DOMAIN d.legs : d.legs[i].to = p /\ d.legs[i].arrival = day}
                 |-> plan.empties[i][t]])
    + SumFunction([c \in {c \in Carriages(plan) :
                           /\ d.bookings[c[1]].destination = p /\ d.bookings[c[1]].type = t
                           /\ d.legs[c[2].last].arrival + d.ports[p].lead = day}
                   |-> plan.booked[c[1]][c[2]].own])

Outflow(d, plan, p, t, day) ==
    SumFunction([i \in {i \in DOMAIN d.legs : d.legs[i].from = p /\ d.legs[i].departure = day}
                 |-> plan.empties[i][t]])
    + SumFunction([c \in {c \in Carriages(plan) :
                           /\ d.bookings[c[1]].origin = p /\ d.bookings[c[1]].type = t
                           /\ d.legs[c[2].first].departure = day}
                   |-> plan.booked[c[1]][c[2]].own])

Planned(d, plan, p, t) ==
    LET I[day \in Days] == (IF day = 0 THEN d.stock[p][t] ELSE I[day - 1])
                           + Inflow(d, plan, p, t, day) - Outflow(d, plan, p, t, day)
    IN  I

StockLasts(d, plan) ==
    \A p \in Ports, t \in Types : \A day \in Days : Planned(d, plan, p, t)[day] >= 0

Feasible(d, plan) == FitsAboard(d, plan) /\ StockLasts(d, plan)

Nothing(network, legs) ==
    [solved |-> FALSE,
     booked |-> [k \in Bookings |-> [p \in network[k] |-> [own |-> 0, lease |-> 0]]],
     empties |-> [i \in legs |-> [t \in Types |-> 0]]]

\* Values of the variables that meet the constraints, whatever the objective
\* prefers. X for each leg and type is bounded by MaxEmpties, a bound of the
\* instance.
Plans(d, MaxEmpties) ==
    LET network == Network(d)
        All == [k \in Bookings |-> Allocations(d.bookings[k].quantity, network[k])]
    IN  {plan \in [solved : {TRUE},
                   booked : {b \in [Bookings -> UNION {All[k] : k \in Bookings}] :
                                \A k \in Bookings : b[k] \in All[k]},
                   empties : [DOMAIN d.legs -> [Types -> 0..MaxEmpties]]] : Feasible(d, plan)}
        \cup {Nothing(network, DOMAIN d.legs)}
=============================================================================
