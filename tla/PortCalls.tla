----------------------------- MODULE PortCalls -----------------------------
(***************************************************************************)
(* Vessels, berths and strikes of a simulated world: the event handlers of *)
(* services/simulation/app/controller/simulation_controller.py with the    *)
(* port, vessel and disruption models they call.                           *)
(*                                                                         *)
(* A voyage brings each vessel to its port once. There it gets a berth or  *)
(* joins the port's queue; when its turnaround is over it leaves and the   *)
(* berth passes to the head of the queue. A port strike, injected by an    *)
(* operator between two advances, shrinks the usable berths for a while.   *)
(*                                                                         *)
(* The kernel runs the handlers one at a time, earliest event first        *)
(* (module SimKernel); events of equal time and priority are left in any   *)
(* order. Time is in hours. The turnaround depends on congestion and load  *)
(* and is any member of a set. Events no handler is registered for         *)
(* (PORT_STRIKE_STARTED, VESSEL_DEPARTED...) change nothing and are left   *)
(* out, and so is port closure, which nothing in the service applies.      *)
(***************************************************************************)
EXTENDS Integers, Sequences, FiniteSets

CONSTANTS
    Ports,
    Vessels,      \* the vessels with a voyage under way at the start
    Strikes,      \* PORT_STRIKE disruptions an operator may inject
    BerthsTotal,  \* berths_total of each port
    SeedHours,    \* hours at which the events seeded with the world are due
    Turnarounds,  \* hours at berth
    Severities,   \* strike severities, in percent
    Durations,    \* hours a strike lasts
    MaxTime       \* bound: the clock of an idle world stops here

ASSUME PortAssumption ==
    /\ BerthsTotal \in [Ports -> Nat \ {0}]
    /\ SeedHours \subseteq Nat
    /\ Turnarounds \subseteq Nat
    /\ Severities \subseteq 0..100
    /\ Durations \subseteq Nat
    /\ MaxTime \in Nat

VARIABLES
    now,        \* kernel time
    agenda,     \* the kernel's scheduled events
    status,     \* VesselState.status
    occupied,   \* PortState.berths_occupied
    queue,      \* PortState.vessel_queue
    capacity,   \* strike_capacity_factor in percent; 100 when no strike is on
    strike      \* the disruptions: their payload and DisruptionState.status

vars == <<now, agenda, status, occupied, queue, capacity, strike>>

VesselEvent == [kind : {"VESSEL_ARRIVED", "VESSEL_UNBERTHED"}, time : Nat,
                port : Ports, vessel : Vessels]
PortEvent == [kind : {"BERTH_RELEASED"}, time : Nat, port : Ports]
StrikeEvent == [kind : {"DISRUPTION_ACTIVATED", "DISRUPTION_ENDED"},
                time : Nat, strike : Strikes]

\* EVENT_PRIORITY: lower runs first among events of the same time.
EventPriority ==
    [DISRUPTION_ACTIVATED |-> 1, DISRUPTION_ENDED |-> 1, VESSEL_ARRIVED |-> 2,
     VESSEL_UNBERTHED |-> 2, BERTH_RELEASED |-> 3]

Unberthing(v, p, t) ==
    [kind |-> "VESSEL_UNBERTHED", time |-> t, port |-> p, vessel |-> v]

-----------------------------------------------------------------------------

\* The world an operator starts from: vessels at sea with an arrival due,
\* vessels at a berth with their unberthing due, and at a port whose berths
\* are all taken a vessel waiting, with a berth release due. Berths are
\* occupied at random elsewhere, but for one at least.
Init ==
    /\ now = 0
    /\ status \in [Vessels -> {"IN_TRANSIT", "IN_PORT", "WAITING_FOR_BERTH"}]
    /\ queue \in [Ports -> {<<>>} \union {<<v>> : v \in Vessels}]
    /\ \A v \in Vessels :
          (status[v] = "WAITING_FOR_BERTH") <=> \E p \in Ports : queue[p] = <<v>>
    /\ \A p, q \in Ports : queue[p] = queue[q] => p = q \/ queue[p] = <<>>
    /\ occupied \in [Ports -> UNION {0..BerthsTotal[p] : p \in Ports}]
    /\ \A p \in Ports : IF queue[p] = <<>> THEN occupied[p] < BerthsTotal[p]
                                           ELSE occupied[p] = BerthsTotal[p]
    /\ \E due \in [Vessels -> SeedHours], dest \in [Vessels -> Ports],
          release \in [Ports -> SeedHours] :
          agenda =
            {[kind |-> "VESSEL_ARRIVED", time |-> due[v], port |-> dest[v],
              vessel |-> v] : v \in {w \in Vessels : status[w] = "IN_TRANSIT"}}
            \union {Unberthing(v, dest[v], due[v]) :
                        v \in {w \in Vessels : status[w] = "IN_PORT"}}
            \union {[kind |-> "BERTH_RELEASED", time |-> release[p], port |-> p] :
                        p \in {q \in Ports : queue[q] # <<>>}}
    /\ capacity = [p \in Ports |-> 100]
    /\ strike = [d \in Strikes |-> [status |-> "NONE", ports |-> {},
                                    severity |-> 0, hours |-> 0]]

\* e may be the next event the kernel pops.
Earliest(e) ==
    /\ e \in agenda
    /\ \A f \in agenda :
          \/ e.time < f.time
          \/ /\ e.time = f.time
             /\ EventPriority[e.kind] <= EventPriority[f.kind]

-----------------------------------------------------------------------------
(***************************************************************************)
(* Berths                                                                  *)
(***************************************************************************)

\* calculate_effective_berths(): the berths a strike leaves usable.
EffectiveBerths(p) == (BerthsTotal[p] * capacity[p]) \div 100

\* Faults: berths counted as if no strike were on; the last one is never used.
AnyBerthFree(p, taken) == taken < BerthsTotal[p]
SpareBerthKept(p, taken) == taken + 1 < EffectiveBerths(p)

\* get_berths_available() > 0, when taken berths are occupied.
BerthFree(p, taken) == taken < EffectiveBerths(p)

\* berths_occupied after one is given back: max(0, occupied - 1).
AfterRelease(p) == IF occupied[p] > 0 THEN occupied[p] - 1 ELSE 0

\* Faults: the last comer is served first; the vessel served stays queued.
NewestFirst(q) == q[Len(q)]
WholeQueue(q) == q

\* The vessel pop(0) takes, and what it leaves.
FirstInLine(q) == Head(q)
RestOfLine(q) == Tail(q)

\* A berth goes to the head of the queue, whose unberthing is scheduled. stati
\* is the status map and taken the occupancy the handler has reached so far.
ServeQueue(p, e, stati, taken) ==
    LET v == FirstInLine(queue[p])
    IN  /\ occupied' = [occupied EXCEPT ![p] = taken + 1]
        /\ queue' = [queue EXCEPT ![p] = RestOfLine(@)]
        /\ status' = [stati EXCEPT ![v] = "IN_PORT"]
        /\ \E hours \in Turnarounds :
              agenda' = (agenda \ {e}) \union {Unberthing(v, p, e.time + hours)}

ServeNobody(p, e, stati, taken) ==
    /\ occupied' = [occupied EXCEPT ![p] = taken]
    /\ status' = stati
    /\ agenda' = agenda \ {e}
    /\ UNCHANGED queue

\* on_vessel_arrived, arrive_vessel and request_berth: the vessel gets a free
\* berth, or joins the queue if it is not in it yet.
VesselArrived(e) ==
    /\ e.kind = "VESSEL_ARRIVED"
    /\ now' = e.time
    /\ \/ /\ BerthFree(e.port, occupied[e.port])
          /\ occupied' = [occupied EXCEPT ![e.port] = @ + 1]
          /\ status' = [status EXCEPT ![e.vessel] = "IN_PORT"]
          /\ \E hours \in Turnarounds :
                agenda' = (agenda \ {e}) \union
                          {Unberthing(e.vessel, e.port, e.time + hours)}
          /\ UNCHANGED queue
       \/ /\ ~BerthFree(e.port, occupied[e.port])
          /\ queue' = IF \E i \in DOMAIN queue[e.port] :
                            queue[e.port][i] = e.vessel
                      THEN queue
                      ELSE [queue EXCEPT ![e.port] = Append(@, e.vessel)]
          /\ status' = [status EXCEPT ![e.vessel] = "WAITING_FOR_BERTH"]
          /\ agenda' = agenda \ {e}
          /\ UNCHANGED occupied
    /\ UNCHANGED <<capacity, strike>>

\* on_vessel_unberth, complete_port_stay and release_berth: the berth is given
\* back and, if one is usable, the head of the queue takes it.
VesselUnberthed(e) ==
    LET p == e.port
        stati == [status EXCEPT ![e.vessel] = "AVAILABLE"]
    IN  /\ e.kind = "VESSEL_UNBERTHED"
        /\ now' = e.time
        /\ IF queue[p] # <<>> /\ BerthFree(p, AfterRelease(p))
           THEN ServeQueue(p, e, stati, AfterRelease(p))
           ELSE ServeNobody(p, e, stati, AfterRelease(p))
        /\ UNCHANGED <<capacity, strike>>

\* on_berth_released, the seeded release of a full port: the head of the queue
\* berths whatever the usable capacity is.
BerthReleased(e) ==
    LET p == e.port
    IN  /\ e.kind = "BERTH_RELEASED"
        /\ now' = e.time
        /\ IF queue[p] # <<>> THEN ServeQueue(p, e, status, AfterRelease(p))
                              ELSE ServeNobody(p, e, status, AfterRelease(p))
        /\ UNCHANGED <<capacity, strike>>

-----------------------------------------------------------------------------
(***************************************************************************)
(* Strikes                                                                 *)
(***************************************************************************)

\* inject_disruption(), between two advances: the activation is scheduled now.
Inject(d, ports, severity, hours) ==
    /\ strike[d].status = "NONE"
    /\ \A e \in agenda : e.time > now \/ e.kind = "DISRUPTION_ACTIVATED"
    /\ strike' = [strike EXCEPT ![d] =
          [status |-> "SCHEDULED", ports |-> ports, severity |-> severity,
           hours |-> hours]]
    /\ agenda' = agenda \union
          {[kind |-> "DISRUPTION_ACTIVATED", time |-> now, strike |-> d]}
    /\ UNCHANGED <<now, status, occupied, queue, capacity>>

\* A strike that names no port is on everywhere.
Targets(d) == IF strike[d].ports = {} THEN Ports ELSE strike[d].ports

\* on_disruption_activated and _cascade_port_strike: at least a tenth of the
\* capacity stays, and the end is scheduled.
StrikeStarts(e) ==
    LET d == e.strike
        left == 100 - strike[d].severity
    IN  /\ e.kind = "DISRUPTION_ACTIVATED"
        /\ now' = e.time
        /\ strike' = [strike EXCEPT ![d].status = "ACTIVE"]
        /\ capacity' = [p \in Ports |->
              IF p \notin Targets(d) THEN capacity[p]
              ELSE IF left < 10 THEN 10 ELSE left]
        /\ agenda' = (agenda \ {e}) \union
              {[kind |-> "DISRUPTION_ENDED", time |-> e.time + strike[d].hours,
                strike |-> d]}
        /\ UNCHANGED <<status, occupied, queue>>

\* Fault: the strike is ended and no port told.
LiftedNowhere(d) == {}

\* The ports an ended strike gives their capacity back.
LiftedAt(d) == strike[d].ports

\* on_disruption_ended and handle_disruption_ended: the ports it names work at
\* full capacity again. Nothing is dequeued.
StrikeEnds(e) ==
    /\ e.kind = "DISRUPTION_ENDED"
    /\ now' = e.time
    /\ strike' = [strike EXCEPT ![e.strike].status = "ENDED"]
    /\ capacity' = [p \in Ports |->
          IF p \in LiftedAt(e.strike) THEN 100 ELSE capacity[p]]
    /\ agenda' = agenda \ {e}
    /\ UNCHANGED <<status, occupied, queue>>

\* An advance that ends before the next event only moves time.
TimePasses ==
    /\ \A e \in agenda : e.time > now
    /\ now' = IF now < MaxTime THEN now + 1 ELSE now
    /\ UNCHANGED <<agenda, status, occupied, queue, capacity, strike>>

HandleEvent ==
    \E e \in agenda :
        /\ Earliest(e)
        /\ \/ VesselArrived(e)
           \/ VesselUnberthed(e)
           \/ BerthReleased(e)
           \/ StrikeStarts(e)
           \/ StrikeEnds(e)

Next ==
    \/ HandleEvent
    \/ \E d \in Strikes, ports \in SUBSET Ports, severity \in Severities,
          hours \in Durations : Inject(d, ports, severity, hours)
    \/ TimePasses

Spec == Init /\ [][Next]_vars

\* Whoever drives the simulation keeps calling advance(), and an advance pops
\* everything due.
FairSpec == Spec /\ WF_vars(HandleEvent)

-----------------------------------------------------------------------------
(***************************************************************************)
(* Properties                                                              *)
(***************************************************************************)

Strike == [status : {"NONE", "SCHEDULED", "ACTIVE", "ENDED"},
           ports : SUBSET Ports, severity : Severities \union {0}, hours : Nat]

\* The state has the shape the world state gives it; counts are not negative.
TypeOK ==
    /\ now \in Nat
    /\ agenda \subseteq VesselEvent \union PortEvent \union StrikeEvent
    /\ status \in [Vessels ->
          {"IN_TRANSIT", "IN_PORT", "WAITING_FOR_BERTH", "AVAILABLE"}]
    /\ occupied \in [Ports -> Nat]
    /\ queue \in [Ports -> Seq(Vessels)]
    /\ capacity \in [Ports -> 0..100]
    /\ strike \in [Strikes -> Strike]

\* The invariant validate_advancement_state() raises on: arrivals, handovers
\* and the unconditional release never take more berths than a port has.
BerthsWithinTotal == \A p \in Ports : occupied[p] <= BerthsTotal[p]

Calls == {e \in agenda : e.kind \in {"VESSEL_ARRIVED", "VESSEL_UNBERTHED"}}

\* Ports a strike has been in force at.
Struck == UNION {Targets(d) :
                    d \in {c \in Strikes : strike[c].status \in {"ACTIVE", "ENDED"}}}

\* The events that give a berth of the port back.
Releases(p) ==
    {e \in agenda : e.kind \in {"VESSEL_UNBERTHED", "BERTH_RELEASED"} /\ e.port = p}

\* Whoever waits at a port no strike has touched has a berth to wait for: one
\* that is given back by an event already scheduled.
WaitersAreNext == \A p \in Ports \ Struck : queue[p] # <<>> => Releases(p) # {}

\* A vessel's status, the port queues and the kernel's agenda tell one story:
\* a vessel at sea has one arrival due, a berthed one an unberthing, a waiting
\* one stands once in one queue and has nothing due, but somebody else's berth
\* to wait for. No vessel is forgotten.
EveryVesselAccounted ==
    /\ WaitersAreNext
    /\ \A e \in Calls :
          status[e.vessel] = IF e.kind = "VESSEL_ARRIVED" THEN "IN_TRANSIT"
                                                          ELSE "IN_PORT"
    /\ \A e, f \in Calls : e.vessel = f.vessel => e = f
    /\ \A p \in Ports : \A i \in DOMAIN queue[p] :
          /\ status[queue[p][i]] = "WAITING_FOR_BERTH"
          /\ \A q \in Ports : \A j \in DOMAIN queue[q] :
                queue[p][i] = queue[q][j] => p = q /\ i = j
    /\ \A v \in Vessels :
          \/ status[v] = "AVAILABLE"
          \/ \E e \in Calls : e.vessel = v
          \/ \E p \in Ports : \E i \in DOMAIN queue[p] : queue[p][i] = v

\* What SimKernel asks of handlers and gives them: they schedule at or after
\* the time of their event, so nothing on the agenda is ever overdue.
AgendaAhead == \A e \in agenda : e.time >= now

\* Time never runs back, whichever event of equal time comes first.
TimeRunsForward == [][now' >= now]_vars

\* While vessels wait at a port no strike has touched, every berth is taken.
NoIdleBerth ==
    \A p \in Ports \ Struck : queue[p] # <<>> => occupied[p] = BerthsTotal[p]

\* A port works below capacity only under a strike in force there, or after
\* one that named no port.
StrikesAreLifted ==
    \A p \in Ports : capacity[p] # 100 =>
        \E d \in Strikes :
            \/ strike[d].status = "ACTIVE" /\ p \in Targets(d)
            \/ strike[d].status = "ENDED" /\ strike[d].ports = {}

\* The stays a step begins.
Berthed == {e \in agenda' \ agenda : e.kind = "VESSEL_UNBERTHED"}

\* An arrival or a handover grants a berth only within the usable capacity,
\* which a strike may have shrunk below what is occupied.
GrantsWithinCapacity ==
    [][\A e \in Berthed :
          \/ occupied'[e.port] <= EffectiveBerths(e.port)
          \/ \E f \in agenda \ agenda' : f.kind = "BERTH_RELEASED"]_vars

\* At a port no strike has touched, no vessel berths ahead of one that waits.
FirstComeFirstServed ==
    [][\A e \in Berthed :
          \/ queue[e.port] = <<>>
          \/ e.vessel = Head(queue[e.port])
          \/ e.port \in Struck]_vars

\* A vessel that waits for a berth gets one, unless a strike intervenes.
WaitingVesselsBerth ==
    \A v \in Vessels : status[v] = "WAITING_FOR_BERTH" ~>
                           status[v] = "IN_PORT" \/ Struck # {}

=============================================================================
