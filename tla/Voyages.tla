------------------------------ MODULE Voyages ------------------------------
(***************************************************************************)
(* Vessels under way: progress, storms, breakdowns and repairs, on top of  *)
(* the port calls of module PortCalls. services/simulation/app:            *)
(* models/vessel_model.py, recovery_model.py, failure_model.py,            *)
(* disruption_engine.py and the handlers and advance() of the controller.  *)
(*                                                                         *)
(* The position of a vessel is not an event: advance() moves every vessel  *)
(* at sea by the whole step before the first event of the step is handled. *)
(* A storm slows vessels down and recomputes their ETA; the arrival the    *)
(* world was seeded with stays where it is in the kernel's queue. The end  *)
(* of a storm gives no speed back.                                         *)
(*                                                                         *)
(* A storm that reaches a broken-down vessel divides by its speed of zero: *)
(* the handler raises, and the advance ends where it is, with the storm    *)
(* active and its end never scheduled.                                     *)
(*                                                                         *)
(* Distances are in nautical miles, speeds in knots, ETAs in whole hours,  *)
(* rounded up. Storms are DISRUPTION_ACTIVATED and DISRUPTION_ENDED events *)
(* of type STORM; the ETA events they cascade into have no handler.        *)
(* Strikes are the subject of PortCalls and none is injected here.         *)
(***************************************************************************)
EXTENDS PortCalls

CONSTANTS
    Storms,         \* STORM disruptions an operator may inject
    BaseSpeed,      \* base_speed_knots of each vessel
    Distances,      \* distance_remaining_nm of a vessel at sea at the start
    StormAreas,     \* affected_entity_ids of a storm; {} is everywhere
    StormForces,    \* storm severities, in percent
    StormHours,     \* hours a storm lasts
    Steps,          \* delta_hours of an advance
    FailureGaps,    \* hours to a breakdown, draw_time_to_failure_hours()
    RecoveryHours,  \* VESSEL_RECOVERY_TIME_HOURS
    MaxFailures,    \* bound: breakdowns scheduled in a run
    LastCall        \* bound: the operator injects nothing after this hour

ASSUME VoyageAssumption ==
    /\ BaseSpeed \in [Vessels -> Nat \ {0}]
    /\ Distances \subseteq Nat
    /\ StormAreas \subseteq SUBSET Vessels
    /\ StormForces \subseteq 0..100
    /\ StormHours \subseteq Nat \ {0}
    /\ Steps \subseteq 1..24
    /\ FailureGaps \subseteq Nat \ {0}
    /\ RecoveryHours \in Nat \ {0}

VARIABLES
    speed,      \* VesselState.current_speed_knots
    left,       \* VesselState.distance_remaining_nm
    eta,        \* VesselState.eta and VoyageState.estimated_arrival
    condition,  \* VesselState.condition
    storm,      \* the STORM disruptions: payload and DisruptionState.status
    target,     \* the hour the advance under way, or the last one, goes to
    advancing,  \* an advance is under way: the lock is held
    failures,   \* breakdowns scheduled so far
    cut         \* storms whose activation raised and ended the advance

sailing == <<speed, left, eta, condition, storm, target, advancing, failures, cut>>
voyageVars == <<vars, sailing>>

NoStorm == [status |-> "NONE", vessels |-> {}, severity |-> 0, hours |-> 0]

AtSea == {v \in Vessels : status[v] = "IN_TRANSIT"}

ArrivalOf(v) ==
    CHOOSE e \in agenda : e.kind = "VESSEL_ARRIVED" /\ e.vessel = v

\* The seeded fleet: everything in order, the ETA of a vessel at sea is when its
\* arrival is due. Its distance is seeded by hand and need not agree with it.
VoyageInit ==
    /\ Init
    /\ speed = BaseSpeed
    /\ left \in [Vessels -> Distances \union {0}]
    /\ \A v \in Vessels : (left[v] = 0) <=> (v \notin AtSea)
    /\ eta = [v \in Vessels |-> IF v \in AtSea THEN ArrivalOf(v).time ELSE 0]
    /\ condition = [v \in Vessels |-> "GOOD"]
    /\ storm = [d \in Storms |-> NoStorm]
    /\ target = 0 /\ advancing = FALSE /\ failures = 0 /\ cut = {}

-----------------------------------------------------------------------------
(***************************************************************************)
(* Speed and remaining time                                                *)
(***************************************************************************)

\* Fault: the condition is not looked at.
SailsWhenDamaged(v, force) == (BaseSpeed[v] * (200 - force)) \div 200

\* compute_effective_speed() of a vessel in a storm of this severity: the speed
\* drops by half the severity, at most to one knot. A damaged vessel stands.
EffectiveSpeed(v, force) ==
    LET knots == (BaseSpeed[v] * (200 - force)) \div 200
    IN  IF condition[v] = "DAMAGED" THEN 0 ELSE IF knots < 1 THEN 1 ELSE knots

\* calculate_remaining_travel_time() at a positive speed, in whole hours.
HoursLeft(v, knots) == (left[v] + knots - 1) \div knots

\* Fault: the way made is recounted from the departure at the present speed.
FromTheStart(v, hours) ==
    LET route == CHOOSE d \in Distances : \A x \in Distances : x <= d
        way == speed[v] * (now + hours)
    IN  IF v \notin AtSea THEN left[v] ELSE IF way < route THEN route - way ELSE 0

\* update_vessel_progress() and calculate_position_continuity().
DistanceAfter(v, hours) ==
    CASE v \notin AtSea -> left[v]
      [] v \in AtSea /\ left[v] <= speed[v] * hours -> 0
      [] OTHER -> left[v] - speed[v] * hours

-----------------------------------------------------------------------------
(***************************************************************************)
(* Events                                                                  *)
(***************************************************************************)

\* EVENT_PRIORITY, of the events of this module.
StormPriority ==
    [STORM_ACTIVATED |-> 1, STORM_ENDED |-> 1,
     VESSEL_ARRIVED |-> 2, VESSEL_UNBERTHED |-> 2,
     VESSEL_MECHANICAL_FAILURE |-> 2, VESSEL_RECOVERED |-> 2,
     BERTH_RELEASED |-> 3]

\* e may be the next event the advance under way pops.
Due(e) ==
    /\ advancing
    /\ e.time = now
    /\ \A f \in agenda : f.time = now =>
          StormPriority[e.kind] <= StormPriority[f.kind]

\* arrive_vessel() does not look at the condition or the position: the vessel is
\* there, with nothing left to sail.
Arrive(e) ==
    /\ VesselArrived(e)
    /\ left' = [left EXCEPT ![e.vessel] = 0]
    /\ UNCHANGED <<speed, eta, condition, storm, target, advancing, failures, cut>>

Unberth(e) == VesselUnberthed(e) /\ UNCHANGED sailing

Release(e) == BerthReleased(e) /\ UNCHANGED sailing

\* What handle_weather_change() schedules: nothing, but for events without a
\* handler.
Rescheduled(v, hour) == {}

\* The vessels _cascade_storm() goes through: those it names, or all, at sea.
Hit(d) == {v \in AtSea : storm[d].vessels = {} \/ v \in storm[d].vessels}

\* Fault: only a storm over everything is given an end.
EndOfWideStorm(d) ==
    {[kind |-> "STORM_ENDED", storm |-> d, time |-> now + h] :
        h \in {x \in {storm[d].hours} : storm[d].vessels = {}}}

\* The end on_disruption_activated schedules.
EndOf(d) ==
    {[kind |-> "STORM_ENDED", storm |-> d, time |-> now + storm[d].hours]}

\* handle_weather_change() for some vessels at once.
Reroute(vs, knots) ==
    /\ speed' = [v \in Vessels |-> IF v \in vs THEN knots[v] ELSE speed[v]]
    /\ eta' = [v \in Vessels |->
          IF v \in vs THEN now + HoursLeft(v, knots[v]) ELSE eta[v]]

\* on_disruption_activated, handle_disruption_activated and _cascade_storm.
StormBreaks(e) ==
    LET d == e.storm
        knots == [v \in Hit(d) |-> EffectiveSpeed(v, storm[d].severity)]
    IN  /\ e.kind = "STORM_ACTIVATED"
        /\ \A v \in Hit(d) : knots[v] > 0
        /\ storm' = [storm EXCEPT ![d].status = "ACTIVE"]
        /\ Reroute(Hit(d), knots)
        /\ agenda' = (agenda \ {e})
              \union EndOf(d)
              \union UNION {Rescheduled(v, now + HoursLeft(v, knots[v])) :
                               v \in Hit(d)}
        /\ UNCHANGED <<now, status, occupied, queue, capacity, strike>>
        /\ UNCHANGED <<left, condition, target, advancing, failures, cut>>

\* The same with a standing vessel among those hit: timedelta(hours=inf) raises
\* once the vessels before it are rerouted. The event is popped already, nothing
\* is scheduled and advance() stops at this hour.
StormRaises(e) ==
    LET d == e.storm
        stopped == {v \in Hit(d) : EffectiveSpeed(v, storm[d].severity) = 0}
    IN  /\ e.kind = "STORM_ACTIVATED"
        /\ stopped # {}
        /\ storm' = [storm EXCEPT ![d].status = "ACTIVE"]
        /\ \E before \in SUBSET (Hit(d) \ stopped) :
              Reroute(before,
                      [v \in before |-> EffectiveSpeed(v, storm[d].severity)])
        /\ agenda' = agenda \ {e}
        /\ target' = now
        /\ advancing' = FALSE
        /\ cut' = cut \union {d}
        /\ UNCHANGED <<now, status, occupied, queue, capacity, strike>>
        /\ UNCHANGED <<left, condition, failures>>

\* on_disruption_ended: the storm is over, the vessels stay as slow as it left
\* them.
StormPasses(e) ==
    /\ e.kind = "STORM_ENDED"
    /\ storm' = [storm EXCEPT ![e.storm].status = "ENDED"]
    /\ agenda' = agenda \ {e}
    /\ UNCHANGED <<now, status, occupied, queue, capacity, strike>>
    /\ UNCHANGED <<speed, left, eta, condition, target, advancing, failures, cut>>

Vessel(kind, v, t) == [kind |-> kind, time |-> t, vessel |-> v]

\* Fault: the repair is left to an operator.
NobodyRepairs(v) == {}

\* schedule_vessel_recovery() and the event on_mechanical_failure schedules.
Repair(v) == {Vessel("VESSEL_RECOVERED", v, now + RecoveryHours)}

\* on_mechanical_failure and apply_mechanical_failure.
BreakDown(e) ==
    /\ e.kind = "VESSEL_MECHANICAL_FAILURE"
    /\ condition' = [condition EXCEPT ![e.vessel] = "DAMAGED"]
    /\ speed' = [speed EXCEPT ![e.vessel] = 0]
    /\ agenda' = (agenda \ {e}) \union Repair(e.vessel)
    /\ UNCHANGED <<now, status, occupied, queue, capacity, strike>>
    /\ UNCHANGED <<left, eta, storm, target, advancing, failures, cut>>

\* on_vessel_recovered and execute_vessel_recovery: full speed, whatever storm
\* is on, and from the present position a new ETA if the vessel is at sea.
Recover(e) ==
    LET v == e.vessel
    IN  /\ e.kind = "VESSEL_RECOVERED"
        /\ condition' = [condition EXCEPT ![v] = "GOOD"]
        /\ speed' = [speed EXCEPT ![v] = BaseSpeed[v]]
        /\ eta' = IF v \in AtSea
                  THEN [eta EXCEPT ![v] = now + HoursLeft(v, BaseSpeed[v])]
                  ELSE eta
        /\ agenda' = agenda \ {e}
        /\ UNCHANGED <<now, status, occupied, queue, capacity, strike>>
        /\ UNCHANGED <<left, storm, target, advancing, failures, cut>>

Handle ==
    \E e \in agenda :
        /\ Due(e)
        /\ \/ Arrive(e)
           \/ Unberth(e)
           \/ Release(e)
           \/ StormBreaks(e)
           \/ StormRaises(e)
           \/ StormPasses(e)
           \/ BreakDown(e)
           \/ Recover(e)

-----------------------------------------------------------------------------
(***************************************************************************)
(* The operator                                                            *)
(***************************************************************************)

\* advance(): the positions first, for the whole step.
Advance(hours) ==
    /\ ~advancing
    /\ now < LastCall \/ agenda # {}
    /\ advancing' = TRUE
    /\ target' = now + hours
    /\ left' = [v \in Vessels |-> DistanceAfter(v, hours)]
    /\ UNCHANGED vars
    /\ UNCHANGED <<speed, eta, condition, storm, failures, cut>>

\* The kernel goes from hour to hour, up to the end of the step.
HourPasses ==
    /\ advancing
    /\ now < target
    /\ TimePasses
    /\ UNCHANGED sailing

AdvanceEnds ==
    /\ advancing
    /\ now = target
    /\ \A e \in agenda : e.time > now
    /\ advancing' = FALSE
    /\ UNCHANGED vars
    /\ UNCHANGED <<speed, left, eta, condition, storm, target, failures, cut>>

\* inject_disruption() of a storm over some vessels, or over all at sea.
InjectStorm(d, vessels, severity, hours) ==
    /\ ~advancing /\ now <= LastCall
    /\ storm[d] = NoStorm
    /\ storm' = [storm EXCEPT ![d] =
          [status |-> "SCHEDULED", vessels |-> vessels, severity |-> severity,
           hours |-> hours]]
    /\ agenda' = agenda \union
          {[kind |-> "STORM_ACTIVATED", storm |-> d, time |-> now]}
    /\ UNCHANGED <<now, status, occupied, queue, capacity, strike>>
    /\ UNCHANGED <<speed, left, eta, condition, target, advancing, failures, cut>>

\* schedule_next_vessel_failure() and the event for the hour it draws. The
\* service leaves the call to whoever drives the kernel.
DrawFailure(v, gap) ==
    /\ ~advancing /\ now <= LastCall
    /\ failures < MaxFailures
    /\ failures' = failures + 1
    /\ agenda' = agenda \union {Vessel("VESSEL_MECHANICAL_FAILURE", v, now + gap)}
    /\ UNCHANGED <<now, status, occupied, queue, capacity, strike>>
    /\ UNCHANGED <<speed, left, eta, condition, storm, target, advancing, cut>>

VoyageNext ==
    \/ Handle
    \/ HourPasses
    \/ AdvanceEnds
    \/ \E hours \in Steps : Advance(hours)
    \/ \E d \in Storms, vessels \in StormAreas, severity \in StormForces,
          hours \in StormHours : InjectStorm(d, vessels, severity, hours)
    \/ \E v \in Vessels, gap \in FailureGaps : DrawFailure(v, gap)

\* An advance runs to its end, and whoever drives the simulation goes on as long
\* as anything is scheduled.
VoyageSpec ==
    /\ VoyageInit
    /\ [][VoyageNext]_voyageVars
    /\ WF_voyageVars(Handle \/ HourPasses \/ AdvanceEnds)
    /\ WF_voyageVars(\E hours \in Steps : Advance(hours))

-----------------------------------------------------------------------------
(***************************************************************************)
(* Properties                                                              *)
(***************************************************************************)

\* Vessel, voyage and disruption records keep their shape; no vessel sails below
\* zero or beyond its base speed.
VoyageTypeOK ==
    /\ \A v \in Vessels : speed[v] \in 0..BaseSpeed[v]
    /\ left \in [Vessels -> Nat]
    /\ eta \in [Vessels -> Nat]
    /\ condition \in [Vessels -> {"GOOD", "DAMAGED"}]
    /\ storm \in [Storms -> [status : {"NONE", "SCHEDULED", "ACTIVE", "ENDED"},
                             vessels : SUBSET Vessels,
                             severity : StormForces \union {0},
                             hours : StormHours \union {0}]]
    /\ target \in Nat /\ advancing \in BOOLEAN /\ cut \subseteq Storms
    /\ now <= target

\* A vessel stands exactly while it is damaged, however storms, breakdowns and
\* repairs of earlier breakdowns follow each other.
StandsWhileDamaged ==
    \A v \in Vessels : (speed[v] = 0) <=> (condition[v] = "DAMAGED")

\* "Never restarts voyage from departure port when conditions change": whatever
\* happens to a vessel, the distance before it never grows.
PositionContinuity ==
    [][\A v \in Vessels : left'[v] <= left[v]]_voyageVars

\* A storm in force has its end in the queue, unless a broken-down vessel cut
\* its activation short. Ended storms stay ended.
StormsHaveAnEnd ==
    \A d \in Storms :
        \/ storm[d].status # "ACTIVE"
        \/ d \in cut
        \/ \E e \in agenda : e.kind = "STORM_ENDED" /\ e.storm = d

\* A damaged vessel has its repair in the queue: no aborted advance and no
\* repair of an earlier breakdown takes it away.
RepairsArePending ==
    \A v \in Vessels : condition[v] = "DAMAGED" =>
        \E e \in agenda : e.kind = "VESSEL_RECOVERED" /\ e.vessel = v

\* Speed, condition, storms and their events stay in step through every order
\* of storms, breakdowns, repairs and aborted advances.
VesselsAreSound ==
    VoyageTypeOK /\ StandsWhileDamaged /\ StormsHaveAnEnd /\ RepairsArePending

\* A damaged vessel is repaired in the end, aborted advances or not.
DamageIsRepaired ==
    \A v \in Vessels : condition[v] = "DAMAGED" ~> condition[v] = "GOOD"

\* The port calls of this world: what is scheduled but storms and repairs.
CallAgenda ==
    {e \in agenda :
        e.kind \in {"VESSEL_ARRIVED", "VESSEL_UNBERTHED", "BERTH_RELEASED"}}

Calling == INSTANCE PortCalls WITH agenda <- CallAgenda

\* What the code makes of it, and the specification document forbids (15.4):
\* storms, breakdowns, repairs and aborted advances change nothing at the ports.
\* A vessel calls there as module PortCalls has it, at the hour its voyage began
\* with, whatever its ETA says by then.
PortsAsIfFairWeather == Calling!Spec
=============================================================================
