---------------------------- MODULE FleetSchedule ----------------------------
(***************************************************************************)
(* The schedule of the test database (scheduling/schedule_planner.py): a   *)
(* rotation of ports is expanded into dated voyages over a horizon         *)
(* (ScheduleGenerator), ships are put on them (VesselAssignmentPlanner)    *)
(* and the legs take the capacity of the ship. Operators only.             *)
(*                                                                         *)
(* Days are counted from BASE_DATE. A voyage is known by its loop and its  *)
(* number in it (VOY_A1 is <<"A", 1>>). TEU and tonnes are set together,   *)
(* from the same ship: only TEU are kept.                                  *)
(***************************************************************************)
EXTENDS Integers, Sequences, FiniteSets

CONSTANTS
    Loops,
    FirstDays,   \* for each loop the departures every horizon has
    Frequency,   \* for each loop the days between the departures after them
    Rotation,    \* for each loop its ports in order
    ArrivalOffset, DepartureOffset,   \* days of a stop after the departure
    LongHorizon, \* a horizon beyond this one gets more departures
    ShipOrder,   \* the ships in the order of their rows
    ShipTeu,     \* for each ship its capacity
    Rules,       \* vessel_assignment_rules: for some voyages the ship
    DefaultShip, DefaultTeu   \* for a database without ships

Ships == {ShipOrder[i] : i \in DOMAIN ShipOrder}
Ports == UNION {{Rotation[l][i] : i \in DOMAIN Rotation[l]} : l \in Loops}
None == "none"

ASSUME ScheduleAssumption ==
    /\ \A l \in Loops : /\ Frequency[l] \in Nat \ {0}
                        /\ FirstDays[l] \in Seq(Int) /\ Len(FirstDays[l]) > 0
                        /\ Len(Rotation[l]) > 0 /\ Len(Rotation[l]) = Len(ArrivalOffset)
                        /\ Len(Rotation[l]) = Len(DepartureOffset)
    /\ ArrivalOffset \in Seq(Int) /\ DepartureOffset \in Seq(Int)
    /\ ShipTeu \in [Ships -> Nat] /\ DefaultTeu \in Nat
    /\ None \notin Ships /\ ShipOrder \in Seq(Ships)
    /\ LongHorizon \in Int

-----------------------------------------------------------------------------
LastFirst(l) == FirstDays[l][Len(FirstDays[l])]

\* the departures of a loop, extrapolated by its frequency past a long horizon
DepartureDays(l, horizon) ==
    FirstDays[l] \o
    IF horizon <= LongHorizon THEN <<>>
    ELSE [k \in 1..((horizon - LastFirst(l)) \div Frequency[l]) |-> LastFirst(l) + k * Frequency[l]]

VoyageNumbers(horizon) ==
    UNION {{<<l, k>> : k \in DOMAIN DepartureDays(l, horizon)} : l \in Loops}

DepartureDay(v, horizon) == DepartureDays(v[1], horizon)[v[2]]

\* Fault: a leg leaves when its ship comes in
LegTimesOnArrival(v, horizon) ==
    [i \in 1..(Len(Rotation[v[1]]) - 1) |->
       [departure |-> DepartureDay(v, horizon) + ArrivalOffset[i],
        arrival   |-> DepartureDay(v, horizon) + ArrivalOffset[i + 1]]]

\* each leg leaves with the call it begins at and arrives with the one it ends at
LegTimes(v, horizon) ==
    [i \in 1..(Len(Rotation[v[1]]) - 1) |->
       [departure |-> DepartureDay(v, horizon) + DepartureOffset[i],
        arrival   |-> DepartureDay(v, horizon) + ArrivalOffset[i + 1]]]

(***************************************************************************)
(* plan_vessel_assignments: the rule for the voyage, or the first ship. A  *)
(* ship the rule names and the database lacks gives its name and the       *)
(* capacity of the first one.                                              *)
(***************************************************************************)
\* a database has all the ships or none
FirstShip == ShipOrder[1]

AssignedShip(v, known) ==
    IF v \in DOMAIN Rules THEN Rules[v]
    ELSE IF known = {} THEN DefaultShip ELSE FirstShip

AssignedTeu(v, known) ==
    LET s == AssignedShip(v, known)
    IN  IF s \in known THEN ShipTeu[s]
        ELSE IF known = {} THEN DefaultTeu ELSE ShipTeu[FirstShip]

Assignment(v, horizon, firm) ==
    IF DepartureDay(v, horizon) <= firm THEN "FIRM" ELSE "PROVISIONAL"

=============================================================================
