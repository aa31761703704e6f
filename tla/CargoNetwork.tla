---------------------------- MODULE CargoNetwork ----------------------------
(***************************************************************************)
(* The dataset the planner of the API works on, the rules the validator    *)
(* has for it (validation/data_validator.py) and the paths a booking may   *)
(* take through its voyage legs (optimization/network_builder.py).         *)
(* Operators only.                                                         *)
(*                                                                         *)
(* A leg is known by its place in the dataset. A path is the set of its    *)
(* legs with the first and the last of them: times and ports of the whole  *)
(* are those of these two.                                                 *)
(***************************************************************************)
EXTENDS Integers, Sequences, FiniteSets

CONSTANTS
    Ports, Vessels, Voyages, Types, Bookings,
    MaxWait,     \* MAX_TRANSSHIP_WAIT, in days
    Overshoot    \* days an arrival may be past the deadline

ASSUME NetworkAssumption ==
    /\ IsFiniteSet(Ports) /\ IsFiniteSet(Types) /\ IsFiniteSet(Bookings)
    /\ MaxWait \in Nat /\ Overshoot \in Nat

Leg == [voyage : Voyages, vessel : Vessels, from : Ports, to : Ports,
        departure : Int, arrival : Int,
        teu : Int, booked_teu : Int, mt : Int, booked_mt : Int]
Booking == [origin : Ports, destination : Ports, type : Types, quantity : Int,
            ready : Int, cutoff : Int, deadline : Int]
Port == [storage : Int, safety : Int, lead : Int]
Dataset == [ports : [Ports -> Port], vessels : [Vessels -> Int], legs : Seq(Leg),
            bookings : [Bookings -> Booking], stock : [Ports -> [Types -> Int]]]

-----------------------------------------------------------------------------
\* sorted(legs, key=departure_day), which keeps the order of equals
Before(legs, i, j) ==
    \/ legs[i].departure < legs[j].departure
    \/ legs[i].departure = legs[j].departure /\ i < j

SameVoyage(legs, i, j) == legs[i].voyage = legs[j].voyage

\* j is the leg of the same voyage that follows i
Follows(legs, i, j) ==
    /\ SameVoyage(legs, i, j) /\ Before(legs, i, j)
    /\ \A m \in DOMAIN legs :
          SameVoyage(legs, i, m) => ~(Before(legs, i, m) /\ Before(legs, m, j))

Path(S, i, j) == [legs |-> S, first |-> i, last |-> j]

InTime(legs, b, j) == legs[j].arrival <= b.deadline + Overshoot

(***************************************************************************)
(* _direct_paths: one leg, or legs of one voyage that follow each other.   *)
(* They are to meet in their ports; their times are not compared.          *)
(***************************************************************************)
Stretch(legs, i, j) ==
    {i, j} \cup {m \in DOMAIN legs : /\ SameVoyage(legs, i, m)
                                     /\ Before(legs, i, m) /\ Before(legs, m, j)}

Contiguous(legs, S) ==
    \A i, j \in S : Follows(legs, i, j) => legs[i].to = legs[j].from

DirectPaths(legs, b) ==
    {Path(Stretch(legs, e[1], e[2]), e[1], e[2]) :
        e \in {e \in (DOMAIN legs) \X (DOMAIN legs) :
                 /\ e[1] = e[2] \/ (SameVoyage(legs, e[1], e[2]) /\ Before(legs, e[1], e[2]))
                 /\ legs[e[1]].from = b.origin
                 /\ legs[e[1]].departure >= b.ready
                 /\ legs[e[2]].to = b.destination
                 /\ Contiguous(legs, Stretch(legs, e[1], e[2]))
                 /\ InTime(legs, b, e[2])}}

(***************************************************************************)
(* _find_paths and _transship_paths: at most two hubs, another voyage      *)
(* after each. The first leg that departs after the deadline ends the      *)
(* search of first legs: what stands behind it in the dataset is not       *)
(* looked at.                                                              *)
(***************************************************************************)
FirstLegs(legs, b) ==
    LET From == {i \in DOMAIN legs : /\ legs[i].from = b.origin
                                     /\ legs[i].departure >= b.ready}
    IN  {i \in From : \A j \in From : j <= i => legs[j].departure <= b.deadline}

Connects(legs, b, i, j) ==
    /\ legs[j].from = legs[i].to
    /\ legs[j].departure >= legs[i].arrival
    /\ legs[j].departure - legs[i].arrival <= MaxWait
    /\ InTime(legs, b, j)

Transshipments(legs, b) ==
    {Path({e[1], e[2]}, e[1], e[2]) :
        e \in {e \in FirstLegs(legs, b) \X (DOMAIN legs) :
                 /\ Connects(legs, b, e[1], e[2])
                 /\ ~SameVoyage(legs, e[1], e[2])
                 /\ legs[e[2]].to = b.destination}}
    \cup
    {Path({e[1], e[2], e[3]}, e[1], e[3]) :
        e \in {e \in FirstLegs(legs, b) \X (DOMAIN legs) \X (DOMAIN legs) :
                 /\ Connects(legs, b, e[1], e[2]) /\ Connects(legs, b, e[2], e[3])
                 /\ ~SameVoyage(legs, e[1], e[2]) /\ ~SameVoyage(legs, e[1], e[3])
                 /\ ~SameVoyage(legs, e[2], e[3])
                 /\ legs[e[2]].to # b.destination
                 /\ legs[e[3]].to = b.destination}}

Paths(legs, b) == DirectPaths(legs, b) \cup Transshipments(legs, b)

-----------------------------------------------------------------------------
(***************************************************************************)
(* The validator's rules of severity ERROR, group by group, for what the   *)
(* planner reads. Warnings and remarks block nothing.                      *)
(***************************************************************************)
PortsValid(d) ==
    \A p \in Ports : /\ d.ports[p].storage > 0                    \* P03
                     /\ d.ports[p].safety <= d.ports[p].storage   \* P04
                     /\ d.ports[p].lead >= 0                      \* P06

VesselsValid(d) == \A v \in Vessels : d.vessels[v] > 0            \* V04

\* Fault: a leg may arrive before it departs
LegMayArriveFirst(d, l) ==
    /\ l.from # l.to
    /\ l.teu > 0 => 100 * l.booked_teu <= 95 * l.teu
    /\ l.booked_teu <= d.vessels[l.vessel]

LegValid(d, l) ==
    /\ l.from # l.to                                              \* VY04
    /\ l.departure < l.arrival                                    \* VY05, VY06
    /\ l.teu > 0 => 100 * l.booked_teu <= 95 * l.teu              \* VY07
    /\ l.booked_teu <= d.vessels[l.vessel]                        \* VY08

VoyagesValid(d) ==
    /\ \A i \in DOMAIN d.legs : LegValid(d, d.legs[i])
    /\ \A i, j \in DOMAIN d.legs :
          /\ Follows(d.legs, i, j) => d.legs[i].to = d.legs[j].from             \* VY10
          /\ SameVoyage(d.legs, i, j) => d.legs[i].vessel = d.legs[j].vessel    \* VY11

BookingsValid(d) ==
    \A k \in Bookings : LET b == d.bookings[k]
                        IN  /\ b.origin # b.destination           \* BK03
                            /\ b.quantity > 0                     \* BK04
                            /\ b.ready <= b.cutoff                \* BK06
                            /\ b.cutoff <= b.deadline
                            /\ b.ready >= 1                       \* BK07

InventoryValid(d) == \A p \in Ports, t \in Types : d.stock[p][t] >= 0    \* IN03

NetworkValid(d) ==                                                \* NT03
    \A k \in Bookings : \E i \in DOMAIN d.legs : d.legs[i].from = d.bookings[k].origin

NoErrors(d) ==
    /\ PortsValid(d) /\ VesselsValid(d) /\ VoyagesValid(d)
    /\ BookingsValid(d) /\ InventoryValid(d) /\ NetworkValid(d)
=============================================================================
