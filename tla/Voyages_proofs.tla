-------------------------- MODULE Voyages_proofs ----------------------------
(***************************************************************************)
(* Proofs about ports and vessels (modules PortCalls and Voyages), for any *)
(* ports, vessels, strikes, storms and times: first the types, the berth   *)
(* counters, the queues and what strikes do to them; then what storms,     *)
(* breakdowns and repairs do to vessels at sea, and that the ports do not  *)
(* see them.                                                               *)
(***************************************************************************)
EXTENDS Voyages, SequenceTheorems, TLAPS

Statuses == {"IN_TRANSIT", "IN_PORT", "WAITING_FOR_BERTH", "AVAILABLE"}
Events == VesselEvent \union PortEvent \union StrikeEvent

-----------------------------------------------------------------------------

\* The empty queue is a queue: a port nobody waits at.
LEMMA NobodyWaits == <<>> \in Seq(Vessels)
BY EmptySeq

\* What an event of each kind carries.
LEMMA EventShapes ==
    ASSUME TypeOK, NEW e \in agenda
    PROVE  /\ e \in Events
           /\ e.time \in Nat
           /\ e.kind \in {"VESSEL_ARRIVED", "VESSEL_UNBERTHED"} =>
                 e.port \in Ports /\ e.vessel \in Vessels
           /\ e.kind = "BERTH_RELEASED" => e.port \in Ports
           /\ e.kind \in {"DISRUPTION_ACTIVATED", "DISRUPTION_ENDED"} =>
                 e.strike \in Strikes
<1>1. e \in Events
  BY DEF TypeOK, Events
<1>2. CASE e \in VesselEvent
  BY <1>1, <1>2 DEF VesselEvent
<1>3. CASE e \in PortEvent
  BY <1>1, <1>3 DEF PortEvent
<1>4. CASE e \in StrikeEvent
  BY <1>1, <1>4 DEF StrikeEvent
<1>5. QED
  BY <1>1, <1>2, <1>3, <1>4 DEF Events

\* An unberthing is an event like any other.
LEMMA UnberthingIsEvent ==
    ASSUME NEW v \in Vessels, NEW p \in Ports, NEW t \in Nat
    PROVE  /\ Unberthing(v, p, t) \in Events
           /\ Unberthing(v, p, t).kind = "VESSEL_UNBERTHED"
           /\ Unberthing(v, p, t).port = p
           /\ Unberthing(v, p, t).vessel = v
BY DEF Unberthing, Events, VesselEvent

\* A strike whose status changes is still a strike.
LEMMA StrikeMoves ==
    ASSUME TypeOK, NEW d \in Strikes,
           NEW s \in {"NONE", "SCHEDULED", "ACTIVE", "ENDED"}
    PROVE  [strike EXCEPT ![d].status = s] \in [Strikes -> Strike]
<1>1. strike \in [Strikes -> Strike]
  BY DEF TypeOK
<1>2. strike[d] \in Strike
  BY <1>1
<1>3. [strike[d] EXCEPT !.status = s] \in Strike
  BY <1>2 DEF Strike
<1>4. [strike EXCEPT ![d].status = s]
        = [strike EXCEPT ![d] = [strike[d] EXCEPT !.status = s]]
  BY <1>1
<1>5. QED
  BY <1>1, <1>3, <1>4

\* A capacity factor never makes more berths usable than there are, and full
\* capacity makes all of them usable.
LEMMA EffectiveWithinTotal ==
    ASSUME TypeOK, NEW p \in Ports
    PROVE  /\ EffectiveBerths(p) \in Int
           /\ EffectiveBerths(p) <= BerthsTotal[p]
           /\ capacity[p] = 100 => EffectiveBerths(p) = BerthsTotal[p]
<1>1. BerthsTotal[p] \in Nat /\ capacity[p] \in 0..100
  BY PortAssumption DEF TypeOK
<1>2. \A n \in Nat, c \in 0..100 : n * c <= n * 100 /\ n * c \in Nat
  OBVIOUS
<1>3. BerthsTotal[p] * capacity[p] <= BerthsTotal[p] * 100
      /\ BerthsTotal[p] * capacity[p] \in Nat
  BY <1>1, <1>2
<1>4. \A x, n \in Nat : x <= n * 100 => x \div 100 \in Int /\ x \div 100 <= n
  OBVIOUS
<1>5. \A n \in Nat : (n * 100) \div 100 = n
  OBVIOUS
<1>6. QED
  BY <1>1, <1>3, <1>4, <1>5 DEF EffectiveBerths

\* Giving a berth back leaves a count below the port's berths.
LEMMA ReleaseMakesRoom ==
    ASSUME TypeOK, BerthsWithinTotal, NEW p \in Ports
    PROVE  /\ AfterRelease(p) \in Nat
           /\ AfterRelease(p) <= occupied[p]
           /\ AfterRelease(p) + 1 <= BerthsTotal[p]
           /\ occupied[p] > 0 => AfterRelease(p) + 1 = occupied[p]
BY PortAssumption DEF TypeOK, BerthsWithinTotal, AfterRelease

\* The vessel at the head of a queue, and the queue it leaves.
LEMMA HeadOfQueue ==
    ASSUME TypeOK, NEW p \in Ports, queue[p] # <<>>
    PROVE  /\ FirstInLine(queue[p]) \in Vessels
           /\ RestOfLine(queue[p]) \in Seq(Vessels)
           /\ Len(queue[p]) \in Nat \ {0}
           /\ FirstInLine(queue[p]) = queue[p][1]
           /\ Len(RestOfLine(queue[p])) = Len(queue[p]) - 1
           /\ \A i \in 1..(Len(queue[p]) - 1) :
                 RestOfLine(queue[p])[i] = queue[p][i + 1]
<1>1. queue[p] \in Seq(Vessels)
  BY DEF TypeOK
<1>2. QED
  BY <1>1, HeadTailProperties DEF FirstInLine, RestOfLine

-----------------------------------------------------------------------------

\* The types survive a handover...
LEMMA ServeQueueTypes ==
    ASSUME TypeOK, NEW e \in agenda, NEW p \in Ports,
           NEW stati \in [Vessels -> Statuses], NEW taken \in Nat,
           queue[p] # <<>>, ServeQueue(p, e, stati, taken)
    PROVE  /\ agenda' \subseteq Events
           /\ status' \in [Vessels -> Statuses]
           /\ occupied' \in [Ports -> Nat]
           /\ queue' \in [Ports -> Seq(Vessels)]
<1>1. /\ FirstInLine(queue[p]) \in Vessels
      /\ RestOfLine(queue[p]) \in Seq(Vessels)
  BY HeadOfQueue
<1>2. agenda' \subseteq Events
  <2>1. PICK hours \in Turnarounds :
           agenda' = (agenda \ {e}) \union
                     {Unberthing(FirstInLine(queue[p]), p, e.time + hours)}
    BY DEF ServeQueue
  <2>2. e.time + hours \in Nat
    BY EventShapes, PortAssumption
  <2>3. QED
    BY <1>1, <2>1, <2>2, UnberthingIsEvent DEF TypeOK, Events
<1>3. status' \in [Vessels -> Statuses]
  BY DEF ServeQueue, Statuses
<1>4. occupied' \in [Ports -> Nat] /\ queue' \in [Ports -> Seq(Vessels)]
  BY <1>1 DEF ServeQueue, TypeOK
<1>5. QED
  BY <1>2, <1>3, <1>4

\* ... and a release nobody waits for.
LEMMA ServeNobodyTypes ==
    ASSUME TypeOK, NEW e \in agenda, NEW p \in Ports,
           NEW stati \in [Vessels -> Statuses], NEW taken \in Nat,
           ServeNobody(p, e, stati, taken)
    PROVE  /\ agenda' \subseteq Events
           /\ status' \in [Vessels -> Statuses]
           /\ occupied' \in [Ports -> Nat]
           /\ queue' \in [Ports -> Seq(Vessels)]
BY DEF ServeNobody, TypeOK, Events

\* The world starts with the shape it keeps.
LEMMA InitTypes == Init => TypeOK
<1> SUFFICES ASSUME Init PROVE TypeOK
  OBVIOUS
<1>1. now \in Nat /\ status \in [Vessels -> Statuses]
      /\ capacity \in [Ports -> 0..100]
  BY DEF Init, Statuses
<1>2. queue \in [Ports -> Seq(Vessels)]
  <2>1. \A v \in Vessels : <<v>> \in Seq(Vessels)
    OBVIOUS
  <2>2. {<<>>} \union {<<v>> : v \in Vessels} \subseteq Seq(Vessels)
    BY <2>1, NobodyWaits
  <2>3. QED
    BY <2>2 DEF Init
<1>3. occupied \in [Ports -> Nat]
  BY PortAssumption DEF Init
<1>4. strike \in [Strikes -> Strike]
  BY DEF Init, Strike
<1>5. agenda \subseteq Events
  <2>1. PICK due \in [Vessels -> SeedHours], dest \in [Vessels -> Ports],
             release \in [Ports -> SeedHours] :
          agenda =
            {[kind |-> "VESSEL_ARRIVED", time |-> due[v], port |-> dest[v],
              vessel |-> v] : v \in {w \in Vessels : status[w] = "IN_TRANSIT"}}
            \union {Unberthing(v, dest[v], due[v]) :
                        v \in {w \in Vessels : status[w] = "IN_PORT"}}
            \union {[kind |-> "BERTH_RELEASED", time |-> release[p], port |-> p] :
                        p \in {q \in Ports : queue[q] # <<>>}}
    BY DEF Init
  <2>2. \A h \in SeedHours : h \in Nat
    BY PortAssumption
  <2>3. \A v \in Vessels : due[v] \in Nat /\ dest[v] \in Ports
    BY <2>2
  <2>4. \A p \in Ports : release[p] \in Nat
    BY <2>2
  <2>5. \A v \in Vessels :
           /\ Unberthing(v, dest[v], due[v]) \in VesselEvent
           /\ [kind |-> "VESSEL_ARRIVED", time |-> due[v], port |-> dest[v],
               vessel |-> v] \in VesselEvent
    BY <2>3 DEF Unberthing, VesselEvent
  <2>6. \A p \in Ports :
           [kind |-> "BERTH_RELEASED", time |-> release[p], port |-> p] \in PortEvent
    BY <2>4 DEF PortEvent
  <2>7. QED
    BY <2>1, <2>5, <2>6 DEF Events
<1>6. QED
  BY <1>1, <1>2, <1>3, <1>4, <1>5 DEF TypeOK, Statuses, Events

\* Every step keeps the types.
LEMMA StepTypes == TypeOK /\ [Next]_vars => TypeOK'
<1> SUFFICES ASSUME TypeOK, [Next]_vars PROVE TypeOK'
  OBVIOUS
<1>0. /\ now \in Nat
      /\ agenda \subseteq Events
      /\ status \in [Vessels -> Statuses]
      /\ occupied \in [Ports -> Nat]
      /\ queue \in [Ports -> Seq(Vessels)]
      /\ capacity \in [Ports -> 0..100]
      /\ strike \in [Strikes -> Strike]
  BY DEF TypeOK, Statuses, Events
<1> DEFINE Berths == /\ agenda' \subseteq Events
                     /\ status' \in [Vessels -> Statuses]
                     /\ occupied' \in [Ports -> Nat]
                     /\ queue' \in [Ports -> Seq(Vessels)]
<1> DEFINE Rest == now' \in Nat /\ capacity' \in [Ports -> 0..100]
                   /\ strike' \in [Strikes -> Strike]
<1>1. ASSUME NEW e \in agenda, VesselArrived(e) PROVE Berths /\ Rest
  <2>1. e.time \in Nat /\ e.port \in Ports /\ e.vessel \in Vessels
    BY <1>1, EventShapes DEF VesselArrived
  <2>2. Rest
    BY <1>0, <1>1, <2>1 DEF VesselArrived
  <2>3. status' \in [Vessels -> Statuses] /\ occupied' \in [Ports -> Nat]
    <3>1. status' \in [Vessels -> Statuses]
      BY <1>0, <1>1 DEF VesselArrived, Statuses
    <3>2. occupied' = occupied \/ occupied' = [occupied EXCEPT ![e.port] = @ + 1]
      BY <1>1 DEF VesselArrived
    <3>3. occupied \in [Ports -> Nat]
      BY <1>0
    <3>4. occupied' \in [Ports -> Nat]
      BY <2>1, <3>2, <3>3
    <3>5. QED
      BY <3>1, <3>4
  <2>4. queue' \in [Ports -> Seq(Vessels)]
    <3>1. Append(queue[e.port], e.vessel) \in Seq(Vessels)
      BY <1>0, <2>1, AppendProperties
    <3>2. QED
      BY <1>0, <1>1, <2>1, <3>1 DEF VesselArrived
  <2>5. agenda' \subseteq Events
    <3>1. \A hours \in Turnarounds :
             Unberthing(e.vessel, e.port, e.time + hours) \in Events
      <4>1. \A hours \in Turnarounds : e.time + hours \in Nat
        BY <2>1, PortAssumption
      <4>2. QED
        BY <2>1, <4>1, UnberthingIsEvent
    <3>2. QED
      BY <1>0, <1>1, <3>1 DEF VesselArrived
  <2>6. QED
    BY <2>2, <2>3, <2>4, <2>5
<1>2. ASSUME NEW e \in agenda, VesselUnberthed(e) PROVE Berths /\ Rest
  <2>1. e.time \in Nat /\ e.port \in Ports /\ e.vessel \in Vessels
    BY <1>2, EventShapes DEF VesselUnberthed
  <2>2. Rest
    BY <1>0, <1>2, <2>1 DEF VesselUnberthed
  <2>3. [status EXCEPT ![e.vessel] = "AVAILABLE"] \in [Vessels -> Statuses]
    BY <1>0 DEF Statuses
  <2>4. AfterRelease(e.port) \in Nat
    BY <1>0, <2>1 DEF AfterRelease
  <2>5. Berths
    BY <1>2, <2>1, <2>3, <2>4, ServeQueueTypes, ServeNobodyTypes
       DEF VesselUnberthed
  <2>6. QED
    BY <2>2, <2>5
<1>3. ASSUME NEW e \in agenda, BerthReleased(e) PROVE Berths /\ Rest
  <2>1. e.time \in Nat /\ e.port \in Ports
    BY <1>3, EventShapes DEF BerthReleased
  <2>2. Rest
    BY <1>0, <1>3, <2>1 DEF BerthReleased
  <2>3. AfterRelease(e.port) \in Nat
    BY <1>0, <2>1 DEF AfterRelease
  <2>4. Berths
    BY <1>0, <1>3, <2>1, <2>3, ServeQueueTypes, ServeNobodyTypes
       DEF BerthReleased
  <2>5. QED
    BY <2>2, <2>4
<1>4. ASSUME NEW e \in agenda, StrikeStarts(e) PROVE Berths /\ Rest
  <2>1. e.time \in Nat /\ e.strike \in Strikes
    BY <1>4, EventShapes DEF StrikeStarts
  <2>2. strike[e.strike] \in Strike
    BY <1>0, <2>1
  <2>3. /\ strike[e.strike].hours \in Nat
        /\ 100 - strike[e.strike].severity \in 0..100
    <3>1. /\ strike[e.strike].hours \in Nat
          /\ strike[e.strike].severity \in Severities \union {0}
      BY <2>2 DEF Strike
    <3>2. Severities \union {0} \subseteq 0..100
      BY PortAssumption
    <3>3. \A n \in 0..100 : 100 - n \in 0..100
      OBVIOUS
    <3>4. QED
      BY <3>1, <3>2, <3>3
  <2>4. capacity' \in [Ports -> 0..100] /\ now' \in Nat
    <3>1. /\ now' = e.time
          /\ capacity' = [p \in Ports |->
                IF p \notin Targets(e.strike) THEN capacity[p]
                ELSE IF 100 - strike[e.strike].severity < 10 THEN 10
                ELSE 100 - strike[e.strike].severity]
      BY <1>4 DEF StrikeStarts
    <3>2. \A p \in Ports : capacity[p] \in 0..100
      BY <1>0
    <3>3. 10 \in 0..100
      OBVIOUS
    <3>4. QED
      BY <2>1, <2>3, <3>1, <3>2, <3>3
  <2>5. strike' \in [Strikes -> Strike]
    BY <1>4, <2>1, StrikeMoves DEF StrikeStarts
  <2>6. [kind |-> "DISRUPTION_ENDED", time |-> e.time + strike[e.strike].hours,
         strike |-> e.strike] \in Events
    BY <2>1, <2>3 DEF Events, StrikeEvent
  <2>7. QED
    BY <1>0, <1>4, <2>4, <2>5, <2>6 DEF StrikeStarts
<1>5. ASSUME NEW e \in agenda, StrikeEnds(e) PROVE Berths /\ Rest
  <2>1. e.time \in Nat /\ e.strike \in Strikes
    BY <1>5, EventShapes DEF StrikeEnds
  <2>2. strike' \in [Strikes -> Strike]
    BY <1>5, <2>1, StrikeMoves DEF StrikeEnds
  <2>3. QED
    BY <1>0, <1>5, <2>1, <2>2 DEF StrikeEnds
<1>6. ASSUME NEW d \in Strikes, NEW ports \in SUBSET Ports,
             NEW severity \in Severities, NEW hours \in Durations,
             Inject(d, ports, severity, hours)
      PROVE  Berths /\ Rest
  <2>1. [kind |-> "DISRUPTION_ACTIVATED", time |-> now, strike |-> d] \in Events
    BY <1>0 DEF Events, StrikeEvent
  <2>2. strike' \in [Strikes -> Strike]
    BY <1>0, <1>6, PortAssumption DEF Inject, Strike
  <2>3. QED
    BY <1>0, <1>6, <2>1, <2>2 DEF Inject
<1>7. ASSUME TimePasses PROVE Berths /\ Rest
  BY <1>0, <1>7 DEF TimePasses
<1>8. ASSUME UNCHANGED vars PROVE Berths /\ Rest
  BY <1>0, <1>8 DEF vars
<1>9. Berths /\ Rest
  BY <1>1, <1>2, <1>3, <1>4, <1>5, <1>6, <1>7, <1>8 DEF Next, HandleEvent
<1>10. QED
  BY <1>9 DEF TypeOK, Statuses, Events

\* The state of ports, vessels and strikes keeps its shape, for any number of
\* them: no handler writes a status, a count or a capacity out of its range.
THEOREM PortCallsTypeCorrect == Spec => []TypeOK
<1>1. QED
  BY InitTypes, StepTypes, PTL DEF Spec

-----------------------------------------------------------------------------

\* Every step keeps the berths within their number.
LEMMA StepBerths ==
    ASSUME TypeOK, BerthsWithinTotal, [Next]_vars
    PROVE  BerthsWithinTotal'
<1> SUFFICES ASSUME NEW p \in Ports
             PROVE  occupied'[p] <= BerthsTotal[p]
  BY DEF BerthsWithinTotal
<1>0. /\ occupied \in [Ports -> Nat]
      /\ occupied[p] <= BerthsTotal[p]
      /\ BerthsTotal[p] \in Nat
  BY PortAssumption DEF TypeOK, BerthsWithinTotal
<1>1. ASSUME NEW e \in agenda, VesselArrived(e)
      PROVE  occupied'[p] <= BerthsTotal[p]
  <2>1. e.port \in Ports
    BY <1>1, EventShapes DEF VesselArrived
  <2>2. CASE BerthFree(e.port, occupied[e.port])
    <3>1. occupied' = [occupied EXCEPT ![e.port] = @ + 1]
      BY <1>1, <2>2 DEF VesselArrived
    <3>2. occupied[e.port] + 1 <= BerthsTotal[e.port]
      BY <1>0, <2>1, <2>2, EffectiveWithinTotal, PortAssumption DEF BerthFree
    <3>3. QED
      BY <1>0, <2>1, <3>1, <3>2
  <2>3. CASE ~BerthFree(e.port, occupied[e.port])
    BY <1>0, <1>1, <2>3 DEF VesselArrived
  <2>4. QED
    BY <2>2, <2>3
<1>2. ASSUME NEW e \in agenda, VesselUnberthed(e) \/ BerthReleased(e)
      PROVE  occupied'[p] <= BerthsTotal[p]
  <2>1. e.port \in Ports
    BY <1>2, EventShapes DEF VesselUnberthed, BerthReleased
  <2>2. \/ occupied' = [occupied EXCEPT ![e.port] = AfterRelease(e.port) + 1]
        \/ occupied' = [occupied EXCEPT ![e.port] = AfterRelease(e.port)]
    BY <1>2 DEF VesselUnberthed, BerthReleased, ServeQueue, ServeNobody
  <2>3. /\ AfterRelease(e.port) \in Nat
        /\ AfterRelease(e.port) + 1 <= BerthsTotal[e.port]
    BY <2>1, ReleaseMakesRoom
  <2>4. QED
    BY <1>0, <2>1, <2>2, <2>3, PortAssumption
<1>3. ASSUME UNCHANGED occupied
      PROVE  occupied'[p] <= BerthsTotal[p]
  BY <1>0, <1>3
<1>4. QED
  BY <1>1, <1>2, <1>3
     DEF Next, HandleEvent, StrikeStarts, StrikeEnds, Inject, TimePasses, vars

\* A world never takes more berths than a port has, whatever arrives, leaves,
\* is handed over or released: validate_advancement_state() never raises on it.
THEOREM BerthsNeverOversubscribed == Spec => []BerthsWithinTotal
<1>1. Init => BerthsWithinTotal
  <2> SUFFICES ASSUME Init, NEW p \in Ports
               PROVE  occupied[p] <= BerthsTotal[p]
    BY DEF BerthsWithinTotal
  <2>1. occupied[p] \in Int /\ BerthsTotal[p] \in Nat
    BY InitTypes, PortAssumption DEF TypeOK
  <2>2. occupied[p] < BerthsTotal[p] \/ occupied[p] = BerthsTotal[p]
    BY DEF Init
  <2>3. QED
    BY <2>1, <2>2
<1>2. QED
  BY <1>1, InitTypes, StepTypes, StepBerths, PTL DEF Spec

-----------------------------------------------------------------------------

\* A port no strike has touched works at full capacity: the strengthening that
\* makes NoIdleBerth inductive.
FullUnlessStruck == \A p \in Ports \ Struck : capacity[p] = 100

\* The ports strikes have touched only grow.
LEMMA StruckGrows ==
    ASSUME TypeOK, [Next]_vars
    PROVE  Struck \subseteq Struck'
<1>0. strike \in [Strikes -> Strike]
  BY DEF TypeOK
<1>1. ASSUME NEW d \in Strikes, strike[d].status \in {"ACTIVE", "ENDED"}
      PROVE  /\ strike'[d].status \in {"ACTIVE", "ENDED"}
             /\ strike'[d].ports = strike[d].ports
  <2>0. strike[d] \in Strike
    BY <1>0
  <2>1. ASSUME NEW e \in agenda, StrikeStarts(e) \/ StrikeEnds(e)
        PROVE  /\ strike'[d].status \in {"ACTIVE", "ENDED"}
               /\ strike'[d].ports = strike[d].ports
    <3>1. \/ strike' = [strike EXCEPT ![e.strike].status = "ACTIVE"]
          \/ strike' = [strike EXCEPT ![e.strike].status = "ENDED"]
      BY <2>1 DEF StrikeStarts, StrikeEnds
    <3>2. \/ strike'[d] = strike[d]
          \/ strike'[d] = [strike[d] EXCEPT !.status = "ACTIVE"]
          \/ strike'[d] = [strike[d] EXCEPT !.status = "ENDED"]
      BY <1>0, <3>1
    <3>3. QED
      BY <1>1, <2>0, <3>2 DEF Strike
  <2>2. ASSUME NEW c \in Strikes, NEW ports \in SUBSET Ports,
               NEW severity \in Severities, NEW hours \in Durations,
               Inject(c, ports, severity, hours)
        PROVE  strike'[d] = strike[d]
    BY <1>0, <1>1, <2>2 DEF Inject
  <2>3. ASSUME UNCHANGED strike PROVE strike'[d] = strike[d]
    BY <2>3
  <2>4. QED
    BY <1>1, <2>1, <2>2, <2>3
       DEF Next, HandleEvent, VesselArrived, VesselUnberthed, BerthReleased,
           TimePasses, vars
<1>2. QED
  BY <1>1 DEF Struck, Targets

\* Every step keeps untouched ports at full capacity.
LEMMA StepFull ==
    ASSUME TypeOK, FullUnlessStruck, [Next]_vars
    PROVE  FullUnlessStruck'
<1> SUFFICES ASSUME NEW p \in Ports, p \notin Struck'
             PROVE  capacity'[p] = 100
  BY DEF FullUnlessStruck
<1>1. p \notin Struck /\ capacity[p] = 100
  BY StruckGrows DEF FullUnlessStruck
<1>2. ASSUME NEW e \in agenda, StrikeStarts(e) PROVE capacity'[p] = 100
  <2>1. e.strike \in Strikes /\ strike[e.strike] \in Strike
    BY <1>2, EventShapes DEF StrikeStarts, TypeOK
  <2>2. strike'[e.strike] = [strike[e.strike] EXCEPT !.status = "ACTIVE"]
    BY <1>2, <2>1 DEF StrikeStarts, TypeOK
  <2>3. strike'[e.strike].status = "ACTIVE"
        /\ strike'[e.strike].ports = strike[e.strike].ports
    BY <2>1, <2>2 DEF Strike
  <2>4. p \notin Targets(e.strike)
    BY <2>1, <2>3 DEF Struck, Targets
  <2>5. QED
    BY <1>1, <1>2, <2>4 DEF StrikeStarts
<1>3. ASSUME NEW e \in agenda, StrikeEnds(e) PROVE capacity'[p] = 100
  BY <1>1, <1>3 DEF StrikeEnds
<1>4. ASSUME UNCHANGED capacity PROVE capacity'[p] = 100
  BY <1>1, <1>4
<1>5. QED
  BY <1>2, <1>3, <1>4
     DEF Next, HandleEvent, VesselArrived, VesselUnberthed, BerthReleased,
         Inject, TimePasses, vars

\* Every step keeps the berths of an untouched port taken while vessels wait.
LEMMA StepNoIdle ==
    ASSUME TypeOK, BerthsWithinTotal, FullUnlessStruck, NoIdleBerth, [Next]_vars
    PROVE  NoIdleBerth'
<1> SUFFICES ASSUME NEW p \in Ports, p \notin Struck', queue'[p] # <<>>
             PROVE  occupied'[p] = BerthsTotal[p]
  BY DEF NoIdleBerth
<1>1. /\ p \notin Struck /\ capacity[p] = 100
      /\ EffectiveBerths(p) = BerthsTotal[p]
      /\ queue[p] # <<>> => occupied[p] = BerthsTotal[p]
  BY StruckGrows, EffectiveWithinTotal DEF FullUnlessStruck, NoIdleBerth
<1>2. /\ occupied \in [Ports -> Nat] /\ occupied[p] <= BerthsTotal[p]
      /\ queue \in [Ports -> Seq(Vessels)] /\ BerthsTotal[p] \in Nat \ {0}
  BY PortAssumption DEF TypeOK, BerthsWithinTotal
<1>3. ASSUME NEW e \in agenda, VesselArrived(e)
      PROVE  occupied'[p] = BerthsTotal[p]
  <2>1. CASE e.port = p /\ BerthFree(p, occupied[p])
    BY <1>1, <1>2, <1>3, <2>1 DEF VesselArrived, BerthFree
  <2>2. CASE e.port = p /\ ~BerthFree(p, occupied[p])
    BY <1>1, <1>2, <1>3, <2>2 DEF VesselArrived, BerthFree
  <2>3. CASE e.port # p
    BY <1>1, <1>2, <1>3, <2>3 DEF VesselArrived
  <2>4. QED
    BY <2>1, <2>2, <2>3
<1>4. ASSUME NEW e \in agenda, VesselUnberthed(e) \/ BerthReleased(e)
      PROVE  occupied'[p] = BerthsTotal[p]
  <2>1. CASE e.port = p /\ queue[p] # <<>>
    <3>1. AfterRelease(p) + 1 = BerthsTotal[p] /\ AfterRelease(p) \in Nat
      BY <1>1, <1>2, <2>1, ReleaseMakesRoom
    <3>2. BerthFree(p, AfterRelease(p))
      BY <1>1, <1>2, <3>1 DEF BerthFree
    <3>3. occupied' = [occupied EXCEPT ![p] = AfterRelease(p) + 1]
      BY <1>4, <2>1, <3>2 DEF VesselUnberthed, BerthReleased, ServeQueue
    <3>4. QED
      BY <1>2, <3>1, <3>3
  <2>2. CASE e.port = p /\ queue[p] = <<>>
    <3>1. UNCHANGED queue
      BY <1>4, <2>2 DEF VesselUnberthed, BerthReleased, ServeNobody
    <3>2. QED
      BY <2>2, <3>1
  <2>3. CASE e.port # p
    <3>1. occupied'[p] = occupied[p] /\ queue'[p] = queue[p]
      BY <1>2, <1>4, <2>3
         DEF VesselUnberthed, BerthReleased, ServeQueue, ServeNobody
    <3>2. QED
      BY <1>1, <3>1
  <2>4. QED
    BY <2>1, <2>2, <2>3
<1>5. ASSUME UNCHANGED <<occupied, queue>>
      PROVE  occupied'[p] = BerthsTotal[p]
  BY <1>1, <1>5
<1>6. QED
  BY <1>3, <1>4, <1>5
     DEF Next, HandleEvent, StrikeStarts, StrikeEnds, Inject, TimePasses, vars

\* The inductive invariant of berths and queues.
BerthInv == TypeOK /\ BerthsWithinTotal /\ FullUnlessStruck /\ NoIdleBerth

\* It holds at the start, of a world where no strike is on.
LEMMA InitBerths == Init => BerthInv
<1> SUFFICES ASSUME Init PROVE BerthInv
  OBVIOUS
<1>1. TypeOK
  BY InitTypes
<1>2. ASSUME NEW p \in Ports
      PROVE  /\ occupied[p] <= BerthsTotal[p]
             /\ queue[p] # <<>> => occupied[p] = BerthsTotal[p]
             /\ capacity[p] = 100
  <2>1. occupied[p] \in Nat /\ BerthsTotal[p] \in Nat
    BY <1>1, PortAssumption DEF TypeOK
  <2>2. IF queue[p] = <<>> THEN occupied[p] < BerthsTotal[p]
                           ELSE occupied[p] = BerthsTotal[p]
    BY DEF Init
  <2>3. QED
    BY <2>1, <2>2 DEF Init
<1>3. QED
  BY <1>1, <1>2 DEF BerthInv, BerthsWithinTotal, FullUnlessStruck, NoIdleBerth

\* It is kept by every step.
LEMMA StepBerthInv == BerthInv /\ [Next]_vars => BerthInv'
BY StepTypes, StepBerths, StepFull, StepNoIdle DEF BerthInv

\* While vessels wait at a port no strike has touched, no berth there is idle:
\* arrivals, departures and releases hand every freed berth to the queue.
THEOREM NoBerthStaysIdle == Spec => []NoIdleBerth
<1>1. BerthInv => NoIdleBerth
  BY DEF BerthInv
<1>2. QED
  BY <1>1, InitBerths, StepBerthInv, PTL DEF Spec

-----------------------------------------------------------------------------

\* What a step that begins a stay does: the event handled, the berth it takes.
LEMMA StayBegins ==
    ASSUME TypeOK, [Next]_vars, NEW f \in Berthed
    PROVE  \E e \in agenda :
              \/ /\ VesselArrived(e)
                 /\ f.port = e.port
                 /\ BerthFree(e.port, occupied[e.port])
                 /\ occupied' = [occupied EXCEPT ![e.port] = @ + 1]
              \/ /\ VesselUnberthed(e) \/ BerthReleased(e)
                 /\ f.port = e.port
                 /\ queue[e.port] # <<>>
                 /\ f.vessel = FirstInLine(queue[e.port])
                 /\ occupied' = [occupied EXCEPT ![e.port] = AfterRelease(e.port) + 1]
                 /\ VesselUnberthed(e) => BerthFree(e.port, AfterRelease(e.port))
                 /\ BerthReleased(e) => e \notin agenda'
<1>0. f \in agenda' /\ f \notin agenda /\ f.kind = "VESSEL_UNBERTHED"
  BY DEF Berthed
<1>1. ASSUME NEW e \in agenda, VesselArrived(e)
      PROVE  /\ f.port = e.port
             /\ BerthFree(e.port, occupied[e.port])
             /\ occupied' = [occupied EXCEPT ![e.port] = @ + 1]
  BY <1>0, <1>1 DEF VesselArrived, Unberthing
<1>2. ASSUME NEW e \in agenda, VesselUnberthed(e) \/ BerthReleased(e)
      PROVE  /\ f.port = e.port
             /\ queue[e.port] # <<>>
             /\ f.vessel = FirstInLine(queue[e.port])
             /\ occupied' = [occupied EXCEPT ![e.port] = AfterRelease(e.port) + 1]
             /\ VesselUnberthed(e) => BerthFree(e.port, AfterRelease(e.port))
             /\ BerthReleased(e) => e \notin agenda'
  <2>1. CASE VesselUnberthed(e)
    BY <1>0, <2>1
       DEF VesselUnberthed, BerthReleased, ServeQueue, ServeNobody, Unberthing
  <2>2. CASE BerthReleased(e)
    BY <1>0, <2>2
       DEF VesselUnberthed, BerthReleased, ServeQueue, ServeNobody, Unberthing
  <2>3. QED
    BY <1>2, <2>1, <2>2
<1>3. ASSUME NEW e \in agenda, StrikeStarts(e) \/ StrikeEnds(e)
      PROVE  FALSE
  BY <1>0, <1>3 DEF StrikeStarts, StrikeEnds
<1>4. ASSUME NEW d \in Strikes, NEW ports \in SUBSET Ports,
             NEW severity \in Severities, NEW hours \in Durations,
             Inject(d, ports, severity, hours)
      PROVE  FALSE
  BY <1>0, <1>4 DEF Inject
<1>5. ASSUME UNCHANGED agenda PROVE FALSE
  BY <1>0, <1>5
<1>6. \E e \in agenda : VesselArrived(e) \/ VesselUnberthed(e) \/ BerthReleased(e)
  BY <1>3, <1>4, <1>5 DEF Next, HandleEvent, TimePasses, vars
<1>7. QED
  BY <1>1, <1>2, <1>6

\* No arrival and no handover berths a vessel beyond the usable capacity, even
\* when a strike has shrunk it below what is occupied; only the seeded release
\* may, as BerthOnlyWithinCapacity shows.
THEOREM GrantsRespectStrikes == Spec => GrantsWithinCapacity
<1>1. TypeOK /\ [Next]_vars =>
         [\A e \in Berthed :
             \/ occupied'[e.port] <= EffectiveBerths(e.port)
             \/ \E f \in agenda \ agenda' : f.kind = "BERTH_RELEASED"]_vars
  <2> SUFFICES ASSUME TypeOK, [Next]_vars, NEW f \in Berthed
               PROVE  \/ occupied'[f.port] <= EffectiveBerths(f.port)
                      \/ \E g \in agenda \ agenda' : g.kind = "BERTH_RELEASED"
    OBVIOUS
  <2>0. occupied \in [Ports -> Nat]
    BY DEF TypeOK
  <2>1. \A p \in Ports : EffectiveBerths(p) \in Int /\ AfterRelease(p) \in Nat
    BY <2>0, EffectiveWithinTotal DEF AfterRelease
  <2>2. PICK e \in agenda :
           \/ /\ VesselArrived(e)
              /\ f.port = e.port
              /\ BerthFree(e.port, occupied[e.port])
              /\ occupied' = [occupied EXCEPT ![e.port] = @ + 1]
           \/ /\ VesselUnberthed(e) \/ BerthReleased(e)
              /\ f.port = e.port
              /\ queue[e.port] # <<>>
              /\ f.vessel = FirstInLine(queue[e.port])
              /\ occupied' = [occupied EXCEPT ![e.port] = AfterRelease(e.port) + 1]
              /\ VesselUnberthed(e) => BerthFree(e.port, AfterRelease(e.port))
              /\ BerthReleased(e) => e \notin agenda'
    BY StayBegins
  <2>3. CASE VesselArrived(e) /\ BerthFree(e.port, occupied[e.port])
             /\ occupied' = [occupied EXCEPT ![e.port] = @ + 1] /\ f.port = e.port
    <3>1. e.port \in Ports
      BY <2>3, EventShapes DEF VesselArrived
    <3>2. QED
      BY <2>0, <2>1, <2>3, <3>1 DEF BerthFree
  <2>4. CASE VesselUnberthed(e) /\ BerthFree(e.port, AfterRelease(e.port))
             /\ occupied' = [occupied EXCEPT ![e.port] = AfterRelease(e.port) + 1]
             /\ f.port = e.port
    <3>1. e.port \in Ports
      BY <2>4, EventShapes DEF VesselUnberthed
    <3>2. QED
      BY <2>0, <2>1, <2>4, <3>1 DEF BerthFree
  <2>5. CASE BerthReleased(e) /\ e \notin agenda'
    BY <2>5 DEF BerthReleased
  <2>6. QED
    BY <2>2, <2>3, <2>4, <2>5
<1>2. QED
  BY <1>1, InitTypes, StepTypes, PTL DEF Spec, GrantsWithinCapacity

\* At a port no strike has touched, berths go to vessels in the order they
\* queued: whoever arrives while others wait finds every berth taken.
THEOREM QueueKeepsItsOrder == Spec => FirstComeFirstServed
<1>1. BerthInv /\ [Next]_vars =>
         [\A e \in Berthed :
             \/ queue[e.port] = <<>>
             \/ e.vessel = Head(queue[e.port])
             \/ e.port \in Struck]_vars
  <2> SUFFICES ASSUME BerthInv, [Next]_vars, NEW f \in Berthed,
                      queue[f.port] # <<>>, f.port \notin Struck
               PROVE  f.vessel = Head(queue[f.port])
    OBVIOUS
  <2>0. TypeOK /\ FullUnlessStruck /\ NoIdleBerth
    BY DEF BerthInv
  <2>1. ASSUME NEW e \in agenda, VesselArrived(e), f.port = e.port,
               BerthFree(e.port, occupied[e.port])
        PROVE  FALSE
    <3>1. e.port \in Ports
      BY <2>0, <2>1, EventShapes DEF VesselArrived
    <3>2. /\ occupied[e.port] = BerthsTotal[e.port]
          /\ EffectiveBerths(e.port) = BerthsTotal[e.port]
      BY <2>0, <2>1, <3>1, EffectiveWithinTotal DEF FullUnlessStruck, NoIdleBerth
    <3>3. QED
      BY <2>1, <3>1, <3>2, PortAssumption DEF BerthFree
  <2>2. QED
    BY <2>0, <2>1, StayBegins DEF FirstInLine
<1>2. QED
  BY <1>1, InitBerths, StepBerthInv, PTL DEF Spec, FirstComeFirstServed

-----------------------------------------------------------------------------

\* Every step accounts for reduced capacity.
LEMMA StepLifted ==
    ASSUME TypeOK, StrikesAreLifted, [Next]_vars
    PROVE  StrikesAreLifted'
<1> DEFINE Explains(d, p) ==
              \/ strike[d].status = "ACTIVE" /\ p \in Targets(d)
              \/ strike[d].status = "ENDED" /\ strike[d].ports = {}
<1> SUFFICES ASSUME NEW p \in Ports, capacity'[p] # 100
             PROVE  \E d \in Strikes : Explains(d, p)'
  BY DEF StrikesAreLifted
<1>0. strike \in [Strikes -> Strike] /\ capacity \in [Ports -> 0..100]
  BY DEF TypeOK
<1>1. ASSUME NEW e \in agenda, StrikeStarts(e)
      PROVE  \E d \in Strikes : Explains(d, p)'
  <2>1. e.strike \in Strikes /\ strike[e.strike] \in Strike
    BY <1>0, <1>1, EventShapes DEF StrikeStarts
  <2>2. /\ strike'[e.strike].status = "ACTIVE"
        /\ strike'[e.strike].ports = strike[e.strike].ports
        /\ \A d \in Strikes \ {e.strike} : strike'[d] = strike[d]
    BY <1>0, <1>1, <2>1 DEF StrikeStarts, Strike
  <2>3. CASE p \in Targets(e.strike)
    BY <2>1, <2>2, <2>3 DEF Targets
  <2>4. CASE p \notin Targets(e.strike)
    <3>1. capacity[p] # 100
      BY <1>1, <2>4 DEF StrikeStarts
    <3>2. PICK d \in Strikes : Explains(d, p)
      BY <3>1 DEF StrikesAreLifted
    <3>3. d # e.strike
      BY <2>4, <3>2 DEF Targets
    <3>4. QED
      BY <2>2, <3>2, <3>3 DEF Targets
  <2>5. QED
    BY <2>3, <2>4
<1>2. ASSUME NEW e \in agenda, StrikeEnds(e)
      PROVE  \E d \in Strikes : Explains(d, p)'
  <2>1. e.strike \in Strikes /\ strike[e.strike] \in Strike
    BY <1>0, <1>2, EventShapes DEF StrikeEnds
  <2>2. /\ strike'[e.strike].status = "ENDED"
        /\ strike'[e.strike].ports = strike[e.strike].ports
        /\ \A d \in Strikes \ {e.strike} : strike'[d] = strike[d]
    BY <1>0, <1>2, <2>1 DEF StrikeEnds, Strike
  <2>3. capacity[p] # 100 /\ p \notin strike[e.strike].ports
    BY <1>2 DEF StrikeEnds, LiftedAt
  <2>4. PICK d \in Strikes : Explains(d, p)
    BY <2>3 DEF StrikesAreLifted
  <2>5. QED
    BY <2>1, <2>2, <2>3, <2>4 DEF Targets
<1>3. ASSUME NEW c \in Strikes, NEW ports \in SUBSET Ports,
             NEW severity \in Severities, NEW hours \in Durations,
             Inject(c, ports, severity, hours)
      PROVE  \E d \in Strikes : Explains(d, p)'
  <2>1. PICK d \in Strikes : Explains(d, p)
    BY <1>3 DEF Inject, StrikesAreLifted
  <2>2. d # c /\ strike'[d] = strike[d]
    BY <1>0, <1>3, <2>1 DEF Inject
  <2>3. QED
    BY <2>1, <2>2 DEF Targets
<1>4. ASSUME UNCHANGED <<capacity, strike>>
      PROVE  \E d \in Strikes : Explains(d, p)'
  BY <1>4 DEF StrikesAreLifted, Targets
<1>5. QED
  BY <1>1, <1>2, <1>3, <1>4
     DEF Next, HandleEvent, VesselArrived, VesselUnberthed, BerthReleased,
         TimePasses, vars

\* However strikes overlap, a port stays below capacity only under one in force
\* there, or for good after one that named no port.
THEOREM StrikesEnd == Spec => []StrikesAreLifted
<1>1. Init => StrikesAreLifted
  BY DEF Init, StrikesAreLifted
<1>2. QED
  BY <1>1, InitTypes, StepTypes, StepLifted, PTL DEF Spec

-----------------------------------------------------------------------------
(***************************************************************************)
(* No vessel is forgotten: EveryVesselAccounted. Four of its parts keep    *)
(* each other and make VesselAccount; that those who wait have a berth     *)
(* coming back rests on the ports' counters.                               *)
(***************************************************************************)

CallsMatchStatus ==
    \A e \in Calls :
        status[e.vessel] = IF e.kind = "VESSEL_ARRIVED" THEN "IN_TRANSIT"
                                                        ELSE "IN_PORT"

OneCallEach == \A e, f \in Calls : e.vessel = f.vessel => e = f

QueuesHoldWaiting ==
    \A p \in Ports : \A i \in DOMAIN queue[p] :
        /\ status[queue[p][i]] = "WAITING_FOR_BERTH"
        /\ \A q \in Ports : \A j \in DOMAIN queue[q] :
              queue[p][i] = queue[q][j] => p = q /\ i = j

NobodyForgotten ==
    \A v \in Vessels :
        \/ status[v] = "AVAILABLE"
        \/ \E e \in Calls : e.vessel = v
        \/ \E p \in Ports : \E i \in DOMAIN queue[p] : queue[p][i] = v

VesselAccount ==
    CallsMatchStatus /\ OneCallEach /\ QueuesHoldWaiting /\ NobodyForgotten

\* The four parts, and that whoever waits is next for a berth, are the invariant.
LEMMA AccountParts ==
    EveryVesselAccounted <=> VesselAccount /\ WaitersAreNext
BY DEF EveryVesselAccounted, VesselAccount, CallsMatchStatus, OneCallEach,
       QueuesHoldWaiting, NobodyForgotten

\* The seeded world forgets nobody.
LEMMA InitAccount == Init => VesselAccount
<1> SUFFICES ASSUME Init PROVE VesselAccount
  OBVIOUS
<1> DEFINE Arrival(v, p, t) == [kind |-> "VESSEL_ARRIVED", time |-> t,
                                port |-> p, vessel |-> v]
           Freeing(p, t) == [kind |-> "BERTH_RELEASED", time |-> t, port |-> p]
<1>1. PICK due \in [Vessels -> SeedHours], dest \in [Vessels -> Ports],
           release \in [Ports -> SeedHours] :
         agenda =
           {Arrival(v, dest[v], due[v]) :
                       v \in {w \in Vessels : status[w] = "IN_TRANSIT"}}
           \union {Unberthing(v, dest[v], due[v]) :
                       v \in {w \in Vessels : status[w] = "IN_PORT"}}
           \union {Freeing(p, release[p]) : p \in {q \in Ports : queue[q] # <<>>}}
  BY DEF Init
<1>2. \A v, p, t : /\ Arrival(v, p, t).kind = "VESSEL_ARRIVED"
                   /\ Arrival(v, p, t).vessel = v
                   /\ Unberthing(v, p, t).kind = "VESSEL_UNBERTHED"
                   /\ Unberthing(v, p, t).vessel = v
                   /\ Freeing(p, t).kind = "BERTH_RELEASED"
  BY DEF Unberthing
<1> HIDE DEF Arrival, Freeing
<1>3. \A e \in Calls : \E v \in Vessels :
         \/ status[v] = "IN_TRANSIT" /\ e = Arrival(v, dest[v], due[v])
         \/ status[v] = "IN_PORT" /\ e = Unberthing(v, dest[v], due[v])
  BY <1>1, <1>2 DEF Calls
<1>4. CallsMatchStatus /\ OneCallEach
  BY <1>2, <1>3 DEF CallsMatchStatus, OneCallEach
<1>5. QueuesHoldWaiting
  <2>1. \A p \in Ports : \A i \in DOMAIN queue[p] :
           /\ i = 1
           /\ \E v \in Vessels : queue[p] = <<v>> /\ status[v] = "WAITING_FOR_BERTH"
    <3> SUFFICES ASSUME NEW p \in Ports, NEW i \in DOMAIN queue[p]
                 PROVE  /\ i = 1
                        /\ \E v \in Vessels : /\ queue[p] = <<v>>
                                              /\ status[v] = "WAITING_FOR_BERTH"
      OBVIOUS
    <3>1. DOMAIN <<>> = {}
      OBVIOUS
    <3>2. queue[p] # <<>>
      BY <3>1
    <3>3. queue[p] \in {<<>>} \union {<<v>> : v \in Vessels}
      BY DEF Init
    <3>4. PICK v \in Vessels : queue[p] = <<v>>
      BY <3>2, <3>3
    <3>5. status[v] = "WAITING_FOR_BERTH"
      BY <3>4 DEF Init
    <3>6. QED
      BY <3>4, <3>5
  <2>2. ASSUME NEW p \in Ports, NEW i \in DOMAIN queue[p],
               NEW q \in Ports, NEW j \in DOMAIN queue[q],
               queue[p][i] = queue[q][j]
        PROVE  p = q /\ i = j
    <3>1. queue[p] = <<queue[p][1]>> /\ queue[q] = <<queue[q][1]>> /\ i = 1 /\ j = 1
      BY <2>1
    <3>2. queue[p] = queue[q] /\ queue[p] # <<>>
      BY <2>2, <3>1
    <3>3. QED
      BY <3>1, <3>2 DEF Init
  <2>3. \A p \in Ports : \A i \in DOMAIN queue[p] :
           status[queue[p][i]] = "WAITING_FOR_BERTH"
    BY <2>1
  <2>4. QED
    BY <2>2, <2>3 DEF QueuesHoldWaiting
<1>6. NobodyForgotten
  <2> SUFFICES ASSUME NEW v \in Vessels
               PROVE  \/ \E e \in Calls : e.vessel = v
                      \/ \E p \in Ports : \E i \in DOMAIN queue[p] : queue[p][i] = v
    BY DEF NobodyForgotten
  <2>1. CASE status[v] = "IN_TRANSIT"
    <3>1. Arrival(v, dest[v], due[v]) \in agenda
      BY <1>1, <2>1
    <3>2. QED
      BY <1>2, <3>1 DEF Calls
  <2>2. CASE status[v] = "IN_PORT"
    <3>1. Unberthing(v, dest[v], due[v]) \in agenda
      BY <1>1, <2>2
    <3>2. QED
      BY <1>2, <3>1 DEF Calls
  <2>3. CASE status[v] = "WAITING_FOR_BERTH"
    <3>1. PICK p \in Ports : queue[p] = <<v>>
      BY <2>3 DEF Init
    <3>2. 1 \in DOMAIN queue[p] /\ queue[p][1] = v
      BY <3>1
    <3>3. QED
      BY <3>2
  <2>4. QED
    BY <2>1, <2>2, <2>3 DEF Init
<1>7. QED
  BY <1>4, <1>5, <1>6 DEF VesselAccount

\* Steps that touch no call, status or queue keep the account.
LEMMA AccountFrame ==
    ASSUME VesselAccount, Calls' = Calls, UNCHANGED <<status, queue>>
    PROVE  VesselAccount'
BY DEF VesselAccount, CallsMatchStatus, OneCallEach, QueuesHoldWaiting,
       NobodyForgotten

\* A handler that hands a berth over keeps it, when the event is the vessel's
\* own unberthing or none of a vessel's.
LEMMA HandoverAccount ==
    ASSUME TypeOK, VesselAccount, NEW e \in agenda,
           NEW p \in Ports, NEW stati \in [Vessels -> Statuses], NEW taken,
           queue[p] # <<>>, ServeQueue(p, e, stati, taken),
           \/ e \notin Calls /\ stati = status
           \/ e \in Calls /\ stati = [status EXCEPT ![e.vessel] = "AVAILABLE"]
    PROVE  VesselAccount'
<1> DEFINE v == FirstInLine(queue[p])
<1>0. CallsMatchStatus /\ OneCallEach /\ QueuesHoldWaiting /\ NobodyForgotten
  BY DEF VesselAccount
<1>1. /\ status \in [Vessels -> Statuses]
      /\ \A q \in Ports : DOMAIN queue[q] = 1..Len(queue[q]) /\ Len(queue[q]) \in Nat
      /\ \A q \in Ports : \A i \in DOMAIN queue[q] : queue[q][i] \in Vessels
      /\ queue \in [Ports -> Seq(Vessels)]
  BY DEF TypeOK, Statuses
<1>2. /\ v \in Vessels /\ v = queue[p][1] /\ 1 \in DOMAIN queue[p]
      /\ status[v] = "WAITING_FOR_BERTH"
  BY <1>0, <1>1, HeadOfQueue DEF QueuesHoldWaiting
<1>3. PICK hours \in Turnarounds :
         agenda' = (agenda \ {e}) \union {Unberthing(v, p, e.time + hours)}
  BY DEF ServeQueue
<1> DEFINE u == Unberthing(v, p, e.time + hours)
<1>4. u.kind = "VESSEL_UNBERTHED" /\ u.vessel = v
  BY DEF Unberthing
<1>5. Calls' = (Calls \ {e}) \union {u}
  BY <1>3, <1>4 DEF Calls
<1> HIDE DEF u
<1>6. /\ queue'[p] = RestOfLine(queue[p])
      /\ \A q \in Ports \ {p} : queue'[q] = queue[q]
      /\ status' = [stati EXCEPT ![v] = "IN_PORT"]
  BY <1>1 DEF ServeQueue
<1>7. /\ DOMAIN queue'[p] = 1..(Len(queue[p]) - 1)
      /\ \A i \in DOMAIN queue'[p] : /\ queue'[p][i] = queue[p][i + 1]
                                     /\ i + 1 \in DOMAIN queue[p]
                                     /\ i \in Nat \ {0}
  <2>1. RestOfLine(queue[p]) \in Seq(Vessels)
        /\ Len(RestOfLine(queue[p])) = Len(queue[p]) - 1
        /\ \A i \in 1..(Len(queue[p]) - 1) :
              RestOfLine(queue[p])[i] = queue[p][i + 1]
    BY HeadOfQueue
  <2>2. DOMAIN queue'[p] = 1..(Len(queue[p]) - 1)
    BY <1>6, <2>1
  <2>3. QED
    BY <1>1, <1>6, <2>1, <2>2
<1>8. \A c \in Calls : c.vessel # v
  BY <1>0, <1>2 DEF CallsMatchStatus
<1>9. \A c \in Calls : c \in agenda /\ c.vessel \in Vessels
  BY EventShapes DEF Calls
<1>10. status'[v] = "IN_PORT"
       /\ \A w \in Vessels \ {v} : status'[w] = stati[w]
  BY <1>1, <1>2, <1>6
<1>11. CallsMatchStatus'
  <2> SUFFICES ASSUME NEW c \in Calls'
               PROVE  status'[c.vessel] = IF c.kind = "VESSEL_ARRIVED"
                                          THEN "IN_TRANSIT" ELSE "IN_PORT"
    BY DEF CallsMatchStatus
  <2>1. CASE c = u
    BY <1>4, <1>10, <2>1
  <2>2. CASE c \in Calls /\ c # e
    <3>1. c.vessel \in Vessels /\ c.vessel # v
      BY <1>8, <1>9, <2>2
    <3>2. stati[c.vessel] = status[c.vessel]
      BY <1>0, <1>1, <1>9, <2>2, <3>1 DEF OneCallEach
    <3>3. QED
      BY <1>0, <1>10, <2>2, <3>1, <3>2 DEF CallsMatchStatus
  <2>3. QED
    BY <1>5, <2>1, <2>2
<1>12. OneCallEach'
  BY <1>0, <1>4, <1>5, <1>8 DEF OneCallEach
<1>13. ASSUME NEW q \in Ports, NEW i \in DOMAIN queue'[q]
       PROVE  \E k \in DOMAIN queue[q] :
                 /\ queue'[q][i] = queue[q][k]
                 /\ k = IF q = p THEN i + 1 ELSE i
                 /\ queue[q][k] # v
  <2>1. CASE q = p
    <3>1. /\ i + 1 \in DOMAIN queue[p] /\ queue'[p][i] = queue[p][i + 1]
          /\ i + 1 # 1
      BY <1>7, <2>1
    <3>2. QED
      BY <1>0, <1>2, <2>1, <3>1 DEF QueuesHoldWaiting
  <2>2. CASE q # p
    BY <1>0, <1>2, <1>6, <2>2 DEF QueuesHoldWaiting
  <2>3. QED
    BY <2>1, <2>2
<1>14. QueuesHoldWaiting'
  <2>1. ASSUME NEW q \in Ports, NEW i \in DOMAIN queue'[q]
        PROVE  status'[queue'[q][i]] = "WAITING_FOR_BERTH"
    <3>1. PICK k \in DOMAIN queue[q] : queue'[q][i] = queue[q][k] /\ queue[q][k] # v
      BY <1>13, <2>1
    <3>2. queue[q][k] \in Vessels /\ status[queue[q][k]] = "WAITING_FOR_BERTH"
      BY <1>0, <1>1 DEF QueuesHoldWaiting
    <3>3. stati[queue[q][k]] = "WAITING_FOR_BERTH"
      BY <1>0, <1>1, <3>2 DEF CallsMatchStatus
    <3>4. QED
      BY <1>10, <3>1, <3>2, <3>3
  <2>2. ASSUME NEW q \in Ports, NEW i \in DOMAIN queue'[q],
               NEW r \in Ports, NEW j \in DOMAIN queue'[r],
               queue'[q][i] = queue'[r][j]
        PROVE  q = r /\ i = j
    <3>1. PICK k \in DOMAIN queue[q] :
             queue'[q][i] = queue[q][k] /\ k = IF q = p THEN i + 1 ELSE i
      BY <1>13
    <3>2. PICK l \in DOMAIN queue[r] :
             queue'[r][j] = queue[r][l] /\ l = IF r = p THEN j + 1 ELSE j
      BY <1>13
    <3>3. q = r /\ k = l
      <4>1. queue[q][k] = queue[r][l]
        BY <2>2, <3>1, <3>2
      <4>2. QED
        BY <1>0, <4>1 DEF QueuesHoldWaiting
    <3>4. QED
      BY <1>7, <3>1, <3>2, <3>3
  <2>3. QED
    BY <2>1, <2>2 DEF QueuesHoldWaiting
<1>15. NobodyForgotten'
  <2> SUFFICES ASSUME NEW w \in Vessels, status'[w] # "AVAILABLE"
               PROVE  \/ \E c \in Calls' : c.vessel = w
                      \/ \E q \in Ports : \E i \in DOMAIN queue'[q] : queue'[q][i] = w
    BY DEF NobodyForgotten
  <2>1. CASE w = v
    BY <1>4, <1>5, <2>1
  <2>2. CASE w # v
    <3>1. stati[w] # "AVAILABLE"
      BY <1>10, <2>2
    <3>2. status[w] # "AVAILABLE" /\ (e \in Calls => e.vessel # w)
      BY <1>1, <1>9, <3>1
    <3>3. CASE \E c \in Calls : c.vessel = w
      BY <1>5, <3>2, <3>3
    <3>4. ASSUME NEW q \in Ports, NEW k \in DOMAIN queue[q], queue[q][k] = w
          PROVE  \E i \in DOMAIN queue'[q] : queue'[q][i] = w
      <4>1. CASE q = p
        <5>1. k # 1 /\ k \in 1..Len(queue[p])
          BY <1>1, <1>2, <2>2, <3>4, <4>1
        <5>2. k - 1 \in 1..(Len(queue[p]) - 1)
          BY <5>1, <1>1
        <5>3. k - 1 \in DOMAIN queue'[p] /\ queue'[p][k - 1] = queue[p][k]
          BY <1>7, <5>1, <5>2
        <5>4. QED
          BY <3>4, <4>1, <5>3
      <4>2. CASE q # p
        BY <1>6, <3>4, <4>2
      <4>3. QED
        BY <4>1, <4>2
    <3>5. QED
      BY <1>0, <3>2, <3>3, <3>4 DEF NobodyForgotten
  <2>3. QED
    BY <2>1, <2>2
<1>16. QED
  BY <1>11, <1>12, <1>14, <1>15 DEF VesselAccount

\* A release nobody waits for keeps it, under the same condition.
LEMMA DepartureAccount ==
    ASSUME TypeOK, VesselAccount, NEW e \in agenda,
           NEW p \in Ports, NEW stati \in [Vessels -> Statuses], NEW taken,
           ServeNobody(p, e, stati, taken),
           \/ e \notin Calls /\ stati = status
           \/ e \in Calls /\ stati = [status EXCEPT ![e.vessel] = "AVAILABLE"]
    PROVE  VesselAccount'
<1>0. CallsMatchStatus /\ OneCallEach /\ QueuesHoldWaiting /\ NobodyForgotten
  BY DEF VesselAccount
<1>1. /\ status \in [Vessels -> Statuses]
      /\ \A q \in Ports : \A i \in DOMAIN queue[q] : queue[q][i] \in Vessels
  BY DEF TypeOK, Statuses
<1>2. \A c \in Calls : c \in agenda /\ c.vessel \in Vessels
  BY EventShapes DEF Calls
<1>3. Calls' = Calls \ {e} /\ status' = stati /\ queue' = queue
  BY DEF ServeNobody, Calls
<1>4. CallsMatchStatus' /\ OneCallEach'
  BY <1>0, <1>1, <1>2, <1>3 DEF CallsMatchStatus, OneCallEach
<1>5. QueuesHoldWaiting'
  <2>1. ASSUME NEW q \in Ports, NEW i \in DOMAIN queue[q]
        PROVE  stati[queue[q][i]] = "WAITING_FOR_BERTH"
    BY <1>0, <1>1, <2>1 DEF CallsMatchStatus, QueuesHoldWaiting
  <2>2. QED
    BY <1>0, <1>3, <2>1 DEF QueuesHoldWaiting
<1>6. NobodyForgotten'
  BY <1>0, <1>1, <1>2, <1>3 DEF NobodyForgotten
<1>7. QED
  BY <1>4, <1>5, <1>6 DEF VesselAccount

\* An arrival keeps it: the vessel gets a call of its own, or a place in line.
LEMMA ArrivalAccount ==
    ASSUME TypeOK, VesselAccount, NEW e \in agenda, VesselArrived(e)
    PROVE  VesselAccount'
<1> DEFINE v == e.vessel
           p == e.port
<1>0. CallsMatchStatus /\ OneCallEach /\ QueuesHoldWaiting /\ NobodyForgotten
  BY DEF VesselAccount
<1>1. /\ status \in [Vessels -> Statuses]
      /\ \A q \in Ports : DOMAIN queue[q] = 1..Len(queue[q]) /\ Len(queue[q]) \in Nat
      /\ \A q \in Ports : \A i \in DOMAIN queue[q] : queue[q][i] \in Vessels
      /\ queue \in [Ports -> Seq(Vessels)]
  BY DEF TypeOK, Statuses
<1>2. /\ e \in Calls /\ p \in Ports /\ v \in Vessels /\ e.kind = "VESSEL_ARRIVED"
      /\ \A c \in Calls : c \in agenda /\ c.vessel \in Vessels
  BY EventShapes DEF Calls, VesselArrived
<1>3. status[v] = "IN_TRANSIT"
  BY <1>0, <1>2 DEF CallsMatchStatus
<1>4. \A c \in Calls \ {e} : c.vessel # v
  BY <1>0, <1>2 DEF OneCallEach
<1>5. \A q \in Ports : \A i \in DOMAIN queue[q] : queue[q][i] # v
  BY <1>0, <1>3 DEF QueuesHoldWaiting
<1>6. CASE BerthFree(p, occupied[p])
  <2>1. PICK hours \in Turnarounds :
           agenda' = (agenda \ {e}) \union {Unberthing(v, p, e.time + hours)}
    BY <1>6 DEF VesselArrived
  <2> DEFINE u == Unberthing(v, p, e.time + hours)
  <2>2. u.kind = "VESSEL_UNBERTHED" /\ u.vessel = v
    BY DEF Unberthing
  <2>3. Calls' = (Calls \ {e}) \union {u}
    BY <2>1, <2>2 DEF Calls
  <2> HIDE DEF u
  <2>4. queue' = queue /\ status' = [status EXCEPT ![v] = "IN_PORT"]
    BY <1>6 DEF VesselArrived
  <2>5. CallsMatchStatus'
    BY <1>0, <1>1, <1>2, <1>4, <2>2, <2>3, <2>4 DEF CallsMatchStatus
  <2>6. OneCallEach'
    BY <1>0, <1>4, <2>2, <2>3 DEF OneCallEach
  <2>7. QueuesHoldWaiting'
    <3>1. \A q \in Ports : \A i \in DOMAIN queue[q] :
             status'[queue[q][i]] = "WAITING_FOR_BERTH"
      BY <1>0, <1>1, <1>5, <2>4 DEF QueuesHoldWaiting
    <3>2. QED
      BY <1>0, <2>4, <3>1 DEF QueuesHoldWaiting
  <2>8. NobodyForgotten'
    BY <1>0, <1>1, <1>2, <2>2, <2>3, <2>4 DEF NobodyForgotten
  <2>9. QED
    BY <2>5, <2>6, <2>7, <2>8 DEF VesselAccount
<1>7. CASE ~BerthFree(p, occupied[p])
  <2>1. /\ queue' = [queue EXCEPT ![p] = Append(queue[p], v)]
        /\ status' = [status EXCEPT ![v] = "WAITING_FOR_BERTH"]
        /\ Calls' = Calls \ {e}
    BY <1>2, <1>5, <1>7 DEF VesselArrived, Calls
  <2>2. /\ \A q \in Ports \ {p} : queue'[q] = queue[q]
        /\ DOMAIN queue'[p] = 1..(Len(queue[p]) + 1)
        /\ queue'[p][Len(queue[p]) + 1] = v
        /\ \A i \in 1..Len(queue[p]) : queue'[p][i] = queue[p][i]
    <3>1. queue'[p] = Append(queue[p], v)
          /\ \A q \in Ports \ {p} : queue'[q] = queue[q]
      BY <1>1, <1>2, <2>1
    <3>2. queue[p] \in Seq(Vessels)
      BY <1>1, <1>2
    <3>3. QED
      BY <1>2, <3>1, <3>2, AppendProperties
  <2>3. CallsMatchStatus' /\ OneCallEach'
    BY <1>0, <1>1, <1>2, <1>4, <2>1 DEF CallsMatchStatus, OneCallEach
  <2>4. ASSUME NEW q \in Ports, NEW i \in DOMAIN queue'[q]
        PROVE  \/ i \in DOMAIN queue[q] /\ queue'[q][i] = queue[q][i]
               \/ q = p /\ i = Len(queue[p]) + 1 /\ queue'[q][i] = v
    <3>1. CASE q = p
      <4>1. i \in 1..(Len(queue[p]) + 1) /\ Len(queue[p]) \in Nat
        BY <1>1, <1>2, <2>2, <2>4, <3>1
      <4>2. i \in 1..Len(queue[p]) \/ i = Len(queue[p]) + 1
        BY <4>1
      <4>3. QED
        BY <1>1, <1>2, <2>2, <3>1, <4>2
    <3>2. CASE q # p
      BY <2>2, <3>2
    <3>3. QED
      BY <3>1, <3>2
  <2>5. QueuesHoldWaiting'
    <3>1. ASSUME NEW q \in Ports, NEW i \in DOMAIN queue'[q]
          PROVE  status'[queue'[q][i]] = "WAITING_FOR_BERTH"
      BY <1>0, <1>1, <1>2, <2>1, <2>4 DEF QueuesHoldWaiting
    <3>2. ASSUME NEW q \in Ports, NEW i \in DOMAIN queue'[q],
                 NEW r \in Ports, NEW j \in DOMAIN queue'[r],
                 queue'[q][i] = queue'[r][j]
          PROVE  q = r /\ i = j
      <4>1. CASE queue'[q][i] = v
        <5>1. queue'[r][j] = v
          BY <3>2, <4>1
        <5>2. q = p /\ i = Len(queue[p]) + 1
          BY <1>5, <2>4, <4>1
        <5>3. r = p /\ j = Len(queue[p]) + 1
          BY <1>5, <2>4, <5>1
        <5>4. QED
          BY <5>2, <5>3
      <4>2. CASE queue'[q][i] # v
        <5>1. /\ i \in DOMAIN queue[q] /\ j \in DOMAIN queue[r]
              /\ queue[q][i] = queue[r][j]
          BY <2>4, <3>2, <4>2
        <5>2. QED
          BY <1>0, <5>1 DEF QueuesHoldWaiting
      <4>3. QED
        BY <4>1, <4>2
    <3>3. QED
      BY <3>1, <3>2 DEF QueuesHoldWaiting
  <2>6. NobodyForgotten'
    <3> SUFFICES ASSUME NEW w \in Vessels, status'[w] # "AVAILABLE"
                 PROVE  \/ \E c \in Calls' : c.vessel = w
                        \/ \E q \in Ports : \E i \in DOMAIN queue'[q] :
                              queue'[q][i] = w
      BY DEF NobodyForgotten
    <3>1. CASE w = v
      <4>1. Len(queue[p]) + 1 \in DOMAIN queue'[p]
        BY <1>1, <1>2, <2>2
      <4>2. QED
        BY <1>2, <2>2, <3>1, <4>1
    <3>2. CASE w # v
      <4>1. status[w] # "AVAILABLE"
        BY <1>1, <2>1, <3>2
      <4>2. CASE \E c \in Calls : c.vessel = w
        BY <2>1, <3>2, <4>2
      <4>3. ASSUME NEW q \in Ports, NEW i \in DOMAIN queue[q], queue[q][i] = w
            PROVE  i \in DOMAIN queue'[q] /\ queue'[q][i] = w
        <5>1. CASE q = p
          <6>1. i \in 1..Len(queue[p]) /\ Len(queue[p]) \in Nat
            BY <1>1, <1>2, <4>3, <5>1
          <6>2. i \in 1..(Len(queue[p]) + 1)
            BY <6>1
          <6>3. QED
            BY <2>2, <4>3, <5>1, <6>1, <6>2
        <5>2. CASE q # p
          BY <2>2, <4>3, <5>2
        <5>3. QED
          BY <5>1, <5>2
      <4>4. QED
        BY <1>0, <4>1, <4>2, <4>3 DEF NobodyForgotten
    <3>3. QED
      BY <3>1, <3>2
  <2>7. QED
    BY <2>3, <2>5, <2>6 DEF VesselAccount
<1>8. QED
  BY <1>6, <1>7

\* Every step keeps the account.
LEMMA StepAccount ==
    ASSUME TypeOK, VesselAccount, [Next]_vars
    PROVE  VesselAccount'
<1>0. status \in [Vessels -> Statuses]
  BY DEF TypeOK, Statuses
<1>1. ASSUME NEW e \in agenda, VesselUnberthed(e) PROVE VesselAccount'
  <2>1. e \in Calls /\ e.port \in Ports
    BY <1>1, EventShapes DEF VesselUnberthed, Calls
  <2>2. [status EXCEPT ![e.vessel] = "AVAILABLE"] \in [Vessels -> Statuses]
    BY <1>0 DEF Statuses
  <2>3. QED
    BY <1>1, <2>1, <2>2, HandoverAccount, DepartureAccount DEF VesselUnberthed
<1>2. ASSUME NEW e \in agenda, BerthReleased(e) PROVE VesselAccount'
  <2>1. e \notin Calls /\ e.port \in Ports
    BY <1>2, EventShapes DEF BerthReleased, Calls
  <2>2. QED
    BY <1>0, <1>2, <2>1, HandoverAccount, DepartureAccount DEF BerthReleased
<1>3. ASSUME NEW e \in agenda, StrikeStarts(e) \/ StrikeEnds(e)
      PROVE  VesselAccount'
  <2>1. Calls' = Calls
    BY <1>3 DEF StrikeStarts, StrikeEnds, Calls
  <2>2. QED
    BY <1>3, <2>1, AccountFrame DEF StrikeStarts, StrikeEnds
<1>4. ASSUME NEW d \in Strikes, NEW ports \in SUBSET Ports,
             NEW severity \in Severities, NEW hours \in Durations,
             Inject(d, ports, severity, hours)
      PROVE  VesselAccount'
  <2>1. Calls' = Calls
    BY <1>4 DEF Inject, Calls
  <2>2. QED
    BY <1>4, <2>1, AccountFrame DEF Inject
<1>5. ASSUME UNCHANGED <<agenda, status, queue>> PROVE VesselAccount'
  BY <1>5, AccountFrame DEF Calls
<1>6. QED
  BY <1>1, <1>2, <1>3, <1>4, <1>5, ArrivalAccount
     DEF Next, HandleEvent, TimePasses, vars

\* A full port has the event that gives a berth back on the agenda: what makes
\* WaitersAreNext follow from the counters. It holds through strikes too.
FullPortsRelease ==
    \A p \in Ports : occupied[p] = BerthsTotal[p] => Releases(p) # {}

\* A port that is seeded full has its release seeded too.
LEMMA InitReleases == Init => FullPortsRelease
<1> SUFFICES ASSUME Init, NEW p \in Ports, occupied[p] = BerthsTotal[p]
             PROVE  Releases(p) # {}
  BY DEF FullPortsRelease
<1> DEFINE Freeing(q, t) == [kind |-> "BERTH_RELEASED", time |-> t, port |-> q]
<1>1. \E release \in [Ports -> SeedHours] :
         \A q \in Ports : queue[q] # <<>> => Freeing(q, release[q]) \in agenda
  <2>1. PICK due \in [Vessels -> SeedHours], dest \in [Vessels -> Ports],
             release \in [Ports -> SeedHours] :
           agenda =
             {[kind |-> "VESSEL_ARRIVED", time |-> due[v], port |-> dest[v],
               vessel |-> v] : v \in {w \in Vessels : status[w] = "IN_TRANSIT"}}
             \union {Unberthing(v, dest[v], due[v]) :
                         v \in {w \in Vessels : status[w] = "IN_PORT"}}
             \union {Freeing(q, release[q]) :
                         q \in {r \in Ports : queue[r] # <<>>}}
    BY DEF Init
  <2> HIDE DEF Freeing
  <2>2. \A q \in Ports : queue[q] # <<>> => Freeing(q, release[q]) \in agenda
    BY <2>1
  <2>3. QED
    BY <2>2
<1>2. queue[p] # <<>>
  <2>1. occupied[p] \in Nat
    BY InitTypes DEF TypeOK
  <2>2. queue[p] = <<>> => occupied[p] < BerthsTotal[p]
    BY DEF Init
  <2>3. QED
    BY <2>1, <2>2
<1>3. \A t : Freeing(p, t).kind = "BERTH_RELEASED" /\ Freeing(p, t).port = p
  OBVIOUS
<1> HIDE DEF Freeing
<1>4. QED
  BY <1>1, <1>2, <1>3 DEF Releases

\* An event that goes takes no release from another port, nor one of a kind
\* that gives no berth back.
LEMMA ReleasesStay ==
    ASSUME NEW p \in Ports, NEW e \in agenda, agenda \ {e} \subseteq agenda',
           \/ e.kind \notin {"VESSEL_UNBERTHED", "BERTH_RELEASED"}
           \/ e.port # p
    PROVE  Releases(p) \subseteq Releases(p)'
BY DEF Releases

\* A stay that begins will end: its unberthing gives the berth back.
LEMMA StayEnds ==
    ASSUME NEW p \in Ports, NEW v, NEW t, Unberthing(v, p, t) \in agenda'
    PROVE  Releases(p)' # {}
<1>1. Unberthing(v, p, t).kind = "VESSEL_UNBERTHED" /\ Unberthing(v, p, t).port = p
  BY DEF Unberthing
<1>2. QED
  BY <1>1 DEF Releases

\* Every step keeps a release scheduled at every full port: who takes the last
\* berth schedules one, who gives a berth back leaves a free one or hands it on.
LEMMA StepReleases ==
    ASSUME TypeOK, BerthsWithinTotal, FullPortsRelease, [Next]_vars
    PROVE  FullPortsRelease'
<1> SUFFICES ASSUME NEW p \in Ports, occupied'[p] = BerthsTotal[p]
             PROVE  Releases(p)' # {}
  BY DEF FullPortsRelease
<1>0. /\ occupied \in [Ports -> Nat]
      /\ BerthsTotal[p] \in Nat \ {0}
      /\ occupied[p] = BerthsTotal[p] => Releases(p) # {}
  BY PortAssumption DEF TypeOK, FullPortsRelease
<1>1. ASSUME NEW e \in agenda, VesselArrived(e)
      PROVE  Releases(p)' # {}
  <2>0. e.kind = "VESSEL_ARRIVED" /\ e.port \in Ports
    BY <1>1, EventShapes DEF VesselArrived
  <2>1. CASE e.port = p /\ BerthFree(p, occupied[p])
    <3>1. PICK hours \in Turnarounds :
             Unberthing(e.vessel, p, e.time + hours) \in agenda'
      BY <1>1, <2>1 DEF VesselArrived
    <3>2. QED
      BY <3>1, StayEnds
  <2>2. CASE ~(e.port = p /\ BerthFree(p, occupied[p]))
    <3>1. occupied'[p] = occupied[p] /\ agenda \ {e} \subseteq agenda'
      BY <1>0, <1>1, <2>0, <2>2 DEF VesselArrived
    <3>2. QED
      BY <1>0, <2>0, <3>1, ReleasesStay
  <2>3. QED
    BY <2>1, <2>2
<1>2. ASSUME NEW e \in agenda, VesselUnberthed(e) \/ BerthReleased(e)
      PROVE  Releases(p)' # {}
  <2>0. e.port \in Ports
    BY <1>2, EventShapes DEF VesselUnberthed, BerthReleased
  <2>1. \/ \E stati : ServeQueue(e.port, e, stati, AfterRelease(e.port))
        \/ \E stati : ServeNobody(e.port, e, stati, AfterRelease(e.port))
    BY <1>2 DEF VesselUnberthed, BerthReleased
  <2>2. CASE e.port # p
    <3>1. occupied'[p] = occupied[p] /\ agenda \ {e} \subseteq agenda'
      BY <1>0, <2>1, <2>2 DEF ServeQueue, ServeNobody
    <3>2. QED
      BY <1>0, <2>2, <3>1, ReleasesStay
  <2>3. ASSUME e.port = p, NEW stati, ServeQueue(p, e, stati, AfterRelease(p))
        PROVE  Releases(p)' # {}
    <3>1. PICK hours \in Turnarounds :
             Unberthing(FirstInLine(queue[p]), p, e.time + hours) \in agenda'
      BY <2>3 DEF ServeQueue
    <3>2. QED
      BY <3>1, StayEnds
  <2>4. ASSUME e.port = p, NEW stati, ServeNobody(p, e, stati, AfterRelease(p))
        PROVE  FALSE
    <3>1. occupied'[p] = AfterRelease(p)
      BY <1>0, <2>4 DEF ServeNobody
    <3>2. AfterRelease(p) \in Nat /\ AfterRelease(p) + 1 <= BerthsTotal[p]
      BY ReleaseMakesRoom
    <3>3. QED
      BY <1>0, <3>1, <3>2
  <2>5. QED
    BY <2>1, <2>2, <2>3, <2>4
<1>3. ASSUME NEW e \in agenda, StrikeStarts(e) \/ StrikeEnds(e)
      PROVE  Releases(p)' # {}
  <2>1. /\ e.kind \notin {"VESSEL_UNBERTHED", "BERTH_RELEASED"}
        /\ agenda \ {e} \subseteq agenda'
        /\ occupied' = occupied
    BY <1>3 DEF StrikeStarts, StrikeEnds
  <2>2. QED
    BY <1>0, <2>1, ReleasesStay
<1>4. ASSUME occupied' = occupied, agenda \subseteq agenda'
      PROVE  Releases(p)' # {}
  BY <1>0, <1>4 DEF Releases
<1>5. QED
  BY <1>1, <1>2, <1>3, <1>4 DEF Next, HandleEvent, Inject, TimePasses, vars

\* Where vessels wait and no strike has been, every berth is taken, and the
\* agenda gives one of them back.
LEMMA FullMeansNext ==
    ASSUME NoIdleBerth, FullPortsRelease
    PROVE  WaitersAreNext
BY DEF NoIdleBerth, FullPortsRelease, WaitersAreNext

\* No vessel is lost or doubled: status, queues and scheduled events agree, so
\* that every vessel at sea, at berth or waiting has exactly one thing due or
\* one place in one line, and the head of a line has a berth that will be freed.
THEOREM NoVesselIsLost == Spec => []EveryVesselAccounted
<1> DEFINE Accounts == BerthInv /\ FullPortsRelease /\ VesselAccount
<1>1. Init => Accounts
  BY InitBerths, InitReleases, InitAccount
<1>2. Accounts /\ [Next]_vars => Accounts'
  BY StepBerthInv, StepReleases, StepAccount DEF BerthInv
<1>3. Accounts => EveryVesselAccounted
  BY FullMeansNext, AccountParts DEF BerthInv
<1> HIDE DEF Accounts
<1>4. QED
  BY <1>1, <1>2, <1>3, PTL DEF Spec

-----------------------------------------------------------------------------
(***************************************************************************)
(* What module SimKernel asks of the handlers it calls                     *)
(***************************************************************************)

\* Times of events and the clock are numbers, so that they can be compared.
LEMMA TimesAreNumbers ==
    ASSUME TypeOK
    PROVE  now \in Nat /\ \A e \in agenda : e.time \in Nat
BY EventShapes DEF TypeOK

\* A seeded world has nothing overdue.
LEMMA InitAhead == Init => AgendaAhead
<1> SUFFICES ASSUME Init PROVE AgendaAhead
  OBVIOUS
<1>1. now = 0
  BY DEF Init
<1>2. \A e \in agenda : e.time \in Nat
  BY InitTypes, TimesAreNumbers
<1>3. QED
  BY <1>1, <1>2 DEF AgendaAhead

\* A call at a port takes its event off the agenda and puts at most an
\* unberthing on it.
LEMMA CallSchedules ==
    ASSUME NEW e \in agenda,
           VesselArrived(e) \/ VesselUnberthed(e) \/ BerthReleased(e)
    PROVE  \/ agenda' = agenda \ {e}
           \/ \E v, p, hours : /\ hours \in Turnarounds
                               /\ agenda' = (agenda \ {e})
                                     \union {Unberthing(v, p, e.time + hours)}
<1>1. CASE VesselArrived(e)
  BY <1>1 DEF VesselArrived
<1>2. CASE VesselUnberthed(e)
  BY <1>2 DEF VesselUnberthed, ServeQueue, ServeNobody
<1>3. CASE BerthReleased(e)
  BY <1>3 DEF BerthReleased, ServeQueue, ServeNobody
<1>4. QED
  BY <1>1, <1>2, <1>3

\* A handler runs at the time of its event and schedules only from there on.
LEMMA HandlersLookAhead ==
    ASSUME TypeOK, NEW e \in agenda,
           \/ VesselArrived(e) \/ VesselUnberthed(e) \/ BerthReleased(e)
           \/ StrikeStarts(e) \/ StrikeEnds(e)
    PROVE  /\ now' = e.time
           /\ \A f \in agenda' : f \in agenda \/ f.time >= e.time
<1>0. e.time \in Nat
  BY EventShapes
<1>1. now' = e.time
  BY DEF VesselArrived, VesselUnberthed, BerthReleased, StrikeStarts, StrikeEnds
<1>2. \A v, p, hours : hours \in Turnarounds =>
         Unberthing(v, p, e.time + hours).time >= e.time
  <2>1. \A hours \in Turnarounds : e.time + hours >= e.time
    BY <1>0, PortAssumption
  <2>2. QED
    BY <2>1 DEF Unberthing
<1>3. CASE VesselArrived(e) \/ VesselUnberthed(e) \/ BerthReleased(e)
  BY <1>1, <1>2, <1>3, CallSchedules
<1>4. CASE StrikeStarts(e)
  <2>1. e.strike \in Strikes
    BY <1>4, EventShapes DEF StrikeStarts
  <2>2. strike[e.strike].hours \in Nat
    BY <2>1 DEF TypeOK, Strike
  <2>3. e.time + strike[e.strike].hours >= e.time
    BY <1>0, <2>2
  <2>4. QED
    BY <1>1, <1>4, <2>3 DEF StrikeStarts
<1>5. CASE StrikeEnds(e)
  BY <1>1, <1>5 DEF StrikeEnds
<1>6. QED
  BY <1>3, <1>4, <1>5

\* The event handled is as early as any, so what was scheduled stays ahead of
\* the clock it is set to.
LEMMA StepAhead ==
    ASSUME TypeOK, AgendaAhead, [Next]_vars
    PROVE  AgendaAhead' /\ now' >= now
<1>0. now \in Nat /\ \A f \in agenda : f.time \in Nat /\ f.time >= now
  BY TimesAreNumbers DEF AgendaAhead
<1>1. ASSUME NEW e \in agenda, Earliest(e),
             \/ VesselArrived(e) \/ VesselUnberthed(e) \/ BerthReleased(e)
             \/ StrikeStarts(e) \/ StrikeEnds(e)
      PROVE  AgendaAhead' /\ now' >= now
  <2>1. /\ now' = e.time
        /\ \A f \in agenda' : f \in agenda \/ f.time >= e.time
    BY <1>1, HandlersLookAhead
  <2>2. \A f \in agenda : f.time >= e.time
    BY <1>0, <1>1 DEF Earliest
  <2>3. QED
    BY <1>0, <2>1, <2>2 DEF AgendaAhead
<1>2. ASSUME NEW d \in Strikes, NEW ports \in SUBSET Ports,
             NEW severity \in Severities, NEW hours \in Durations,
             Inject(d, ports, severity, hours)
      PROVE  AgendaAhead' /\ now' >= now
  <2>1. now' = now /\ \A f \in agenda' : f \in agenda \/ f.time = now
    BY <1>2 DEF Inject
  <2>2. QED
    BY <1>0, <2>1 DEF AgendaAhead
<1>3. ASSUME TimePasses PROVE AgendaAhead' /\ now' >= now
  <2>1. \A f \in agenda : f.time >= now + 1
    BY <1>0, <1>3 DEF TimePasses
  <2>2. agenda' = agenda /\ now' \in {now, now + 1}
    BY <1>3 DEF TimePasses
  <2>3. QED
    BY <1>0, <2>1, <2>2 DEF AgendaAhead
<1>4. ASSUME UNCHANGED vars PROVE AgendaAhead' /\ now' >= now
  BY <1>0, <1>4 DEF AgendaAhead, vars
<1>5. QED
  BY <1>1, <1>2, <1>3, <1>4 DEF Next, HandleEvent

\* Whatever the handlers schedule, nothing on the agenda is ever overdue: the
\* condition module SimKernel puts on the handlers it calls.
THEOREM HandlersScheduleAhead == Spec => []AgendaAhead
<1>1. QED
  BY InitTypes, StepTypes, InitAhead, StepAhead, PTL DEF Spec

\* Neither a handler, nor an operator's injection, nor an idle advance sets the
\* clock of a world back.
THEOREM WorldTimeRunsForward == Spec => TimeRunsForward
<1>1. ASSUME TypeOK, AgendaAhead, [Next]_vars PROVE [now' >= now]_vars
  BY <1>1, StepAhead
<1>2. QED
  BY <1>1, InitTypes, StepTypes, InitAhead, StepAhead, PTL
     DEF Spec, TimeRunsForward

-----------------------------------------------------------------------------
(***************************************************************************)
(* Vessels under way (module Voyages)                                      *)
(***************************************************************************)

CallKinds == {"VESSEL_ARRIVED", "VESSEL_UNBERTHED", "BERTH_RELEASED"}
StormKinds == {"STORM_ACTIVATED", "STORM_ENDED"}
RepairKinds == {"VESSEL_MECHANICAL_FAILURE", "VESSEL_RECOVERED"}

StormRecord ==
    [status : {"NONE", "SCHEDULED", "ACTIVE", "ENDED"}, vessels : SUBSET Vessels,
     severity : StormForces \union {0}, hours : StormHours \union {0}]

\* Nothing on the agenda is overdue, and its events name what there is.
VoyageAgenda ==
    /\ now \in Nat
    /\ \A e \in agenda :
          /\ e.kind \in CallKinds \union StormKinds \union RepairKinds
          /\ e.time \in Nat /\ e.time >= now
          /\ e.kind \in StormKinds => e.storm \in Storms
          /\ e.kind \in RepairKinds => e.vessel \in Vessels

\* The inductive invariant.
VoyageInv ==
    /\ VoyageAgenda
    /\ speed \in [Vessels -> Nat]
    /\ VoyageTypeOK /\ StandsWhileDamaged /\ StormsHaveAnEnd

\* Sailing brings a vessel nearer, never beyond its port.
LEMMA SailingNearer ==
    ASSUME NEW a \in Nat, NEW b \in Nat, NEW h \in Nat
    PROVE  b * h \in Nat /\ (a > b * h => a - b * h \in Nat /\ a - b * h <= a)
OBVIOUS

\* A storm leaves a vessel between nothing and the whole of its speed.
LEMMA StormSpeed ==
    ASSUME NEW b \in Nat, NEW f \in 0..100
    PROVE  (b * (200 - f)) \div 200 \in 0..b
<1>1. b * (200 - f) \in Nat /\ b * (200 - f) <= b * 200
  <2>1. b * f \in Nat
    OBVIOUS
  <2>2. b * (200 - f) = b * 200 - b * f
    OBVIOUS
  <2>3. 200 - f \in Nat
    OBVIOUS
  <2>4. b * (200 - f) \in Nat
    BY <2>3
  <2>5. QED
    BY <2>1, <2>2, <2>4
<1>2. QED
  BY <1>1

\* The hours left, rounded up, are a number.
LEMMA HoursAreNat ==
    ASSUME NEW a \in Nat, NEW k \in Nat, k > 0
    PROVE  (a + k - 1) \div k \in Nat
OBVIOUS

\* A call at a port takes its event off the agenda and puts at most
\* unberthings on it, none in the past.
LEMMA CallsAgenda ==
    ASSUME VoyageAgenda, NEW e \in agenda, Due(e),
           VesselArrived(e) \/ VesselUnberthed(e) \/ BerthReleased(e)
    PROVE  /\ e.kind \in CallKinds /\ now' = now
           /\ \A f \in agenda' :
                 \/ f \in agenda \ {e}
                 \/ f.kind = "VESSEL_UNBERTHED" /\ f.time \in Nat /\ f.time >= now
           /\ agenda \ {e} \subseteq agenda'
<1>1. now' = e.time /\ e.time = now /\ now \in Nat
  BY DEF VesselArrived, VesselUnberthed, BerthReleased, Due, VoyageAgenda
<1>2. e.kind \in CallKinds
  BY DEF VesselArrived, VesselUnberthed, BerthReleased, CallKinds
<1>3. \/ agenda' = agenda \ {e}
      \/ \E v, p, hours : /\ hours \in Turnarounds
                          /\ agenda' = (agenda \ {e})
                                \union {Unberthing(v, p, e.time + hours)}
  BY CallSchedules
<1>4. ASSUME NEW v, NEW p, NEW hours \in Turnarounds
      PROVE  /\ Unberthing(v, p, e.time + hours).kind = "VESSEL_UNBERTHED"
             /\ Unberthing(v, p, e.time + hours).time \in Nat
             /\ Unberthing(v, p, e.time + hours).time >= now
  <2>1. e.time + hours \in Nat /\ e.time + hours >= now
    BY <1>1, PortAssumption
  <2>2. QED
    BY <2>1 DEF Unberthing
<1>5. QED
  BY <1>1, <1>2, <1>3, <1>4

\* The agenda stays sound when events leave it and sound ones come.
LEMMA VoyageAgendaKept ==
    ASSUME VoyageAgenda, now' = now,
           \A e \in agenda' \ agenda :
              /\ e.kind \in CallKinds \union StormKinds \union RepairKinds
              /\ e.time \in Nat /\ e.time >= now
              /\ e.kind \in StormKinds => e.storm \in Storms
              /\ e.kind \in RepairKinds => e.vessel \in Vessels
    PROVE  VoyageAgenda'
BY DEF VoyageAgenda

\* A storm in force keeps its end while no end of a storm is handled.
LEMMA StormEndsKept ==
    ASSUME StormsHaveAnEnd, storm' = storm, cut' = cut,
           \A e \in agenda \ agenda' : e.kind # "STORM_ENDED"
    PROVE  StormsHaveAnEnd'
BY DEF StormsHaveAnEnd

\* Calls at ports, and steps that only move time or the frame of an advance.
LEMMA CallsKeepInv ==
    ASSUME VoyageInv, NEW e \in agenda, Due(e),
           Arrive(e) \/ Unberth(e) \/ Release(e)
    PROVE  VoyageInv'
<1>1. VesselArrived(e) \/ VesselUnberthed(e) \/ BerthReleased(e)
  BY DEF Arrive, Unberth, Release
<1>2. VoyageAgenda /\ VoyageTypeOK /\ StandsWhileDamaged /\ StormsHaveAnEnd
      /\ speed \in [Vessels -> Nat]
  BY DEF VoyageInv
<1>3. /\ e.kind \in CallKinds /\ now' = now
      /\ \A f \in agenda' :
            \/ f \in agenda \ {e}
            \/ f.kind = "VESSEL_UNBERTHED" /\ f.time \in Nat /\ f.time >= now
      /\ agenda \ {e} \subseteq agenda'
  BY <1>1, <1>2, CallsAgenda
<1>4. /\ UNCHANGED <<speed, eta, condition, storm, target, advancing, failures, cut>>
      /\ left' = left \/ left' = [left EXCEPT ![e.vessel] = 0]
  BY DEF Arrive, Unberth, Release, sailing
<1>5. VoyageAgenda'
  BY <1>2, <1>3 DEF VoyageAgenda, CallKinds, StormKinds, RepairKinds
<1>6. left' \in [Vessels -> Nat]
  BY <1>2, <1>4 DEF VoyageTypeOK
<1>7. VoyageTypeOK'
  <2>1. advancing' \in BOOLEAN
    BY <1>2, <1>4, Zenon DEF VoyageTypeOK
  <2>2. QED
    BY <2>1, <1>2, <1>3, <1>4, <1>6 DEF VoyageTypeOK
<1>8. StandsWhileDamaged'
  BY <1>2, <1>4 DEF StandsWhileDamaged
<1>9. StormsHaveAnEnd'
  BY <1>2, <1>3, <1>4, StormEndsKept DEF CallKinds
<1>10. QED
  BY <1>2, <1>4, <1>5, <1>7, <1>8, <1>9 DEF VoyageInv

\* compute_effective_speed(): a vessel in order keeps a knot at least and never
\* gains; only a damaged one stands.
LEMMA EffectiveSpeedBounds ==
    ASSUME NEW v \in Vessels, NEW f \in 0..100
    PROVE  /\ EffectiveSpeed(v, f) \in 0..BaseSpeed[v]
           /\ EffectiveSpeed(v, f) = 0 <=> condition[v] = "DAMAGED"
<1>1. BaseSpeed[v] \in Nat \ {0}
  BY VoyageAssumption
<1>2. (BaseSpeed[v] * (200 - f)) \div 200 \in 0..BaseSpeed[v]
  BY <1>1, StormSpeed
<1>3. QED
  BY <1>1, <1>2 DEF EffectiveSpeed

\* handle_weather_change() of vessels in order.
LEMMA ReroutedVessels ==
    ASSUME VoyageInv, NEW vs \in SUBSET Vessels, NEW knots, Reroute(vs, knots),
           UNCHANGED condition,
           \A v \in vs : /\ knots[v] \in 1..BaseSpeed[v]
                         /\ condition[v] # "DAMAGED"
    PROVE  /\ speed' \in [Vessels -> Nat]
           /\ \A v \in Vessels : speed'[v] \in 0..BaseSpeed[v]
           /\ eta' \in [Vessels -> Nat]
           /\ StandsWhileDamaged'
<1>1. /\ speed \in [Vessels -> Nat] /\ left \in [Vessels -> Nat]
      /\ eta \in [Vessels -> Nat] /\ now \in Nat
      /\ \A v \in Vessels : speed[v] \in 0..BaseSpeed[v]
      /\ StandsWhileDamaged
  BY DEF VoyageInv, VoyageTypeOK, VoyageAgenda
<1>2. \A v \in vs : knots[v] \in Nat /\ knots[v] > 0 /\ knots[v] \in 0..BaseSpeed[v]
  BY VoyageAssumption
<1>3. \A v \in vs : now + HoursLeft(v, knots[v]) \in Nat
  <2> SUFFICES ASSUME NEW v \in vs
               PROVE  now + HoursLeft(v, knots[v]) \in Nat
    OBVIOUS
  <2>1. (left[v] + knots[v] - 1) \div knots[v] \in Nat
    BY <1>1, <1>2, HoursAreNat
  <2>2. QED
    BY <1>1, <2>1 DEF HoursLeft
<1>4. /\ speed' = [v \in Vessels |-> IF v \in vs THEN knots[v] ELSE speed[v]]
      /\ eta' = [v \in Vessels |->
             IF v \in vs THEN now + HoursLeft(v, knots[v]) ELSE eta[v]]
  BY DEF Reroute
<1>5. speed' \in [Vessels -> Nat] /\ eta' \in [Vessels -> Nat]
  BY <1>1, <1>2, <1>3, <1>4
<1>6. \A v \in Vessels : speed'[v] \in 0..BaseSpeed[v]
  BY <1>1, <1>2, <1>4
<1>7. StandsWhileDamaged'
  BY <1>1, <1>2, <1>4 DEF StandsWhileDamaged
<1>8. QED
  BY <1>5, <1>6, <1>7

\* What a storm that is scheduled, in force or over looks like.
LEMMA StormMoves ==
    ASSUME VoyageInv, NEW d \in Storms,
           NEW s \in {"NONE", "SCHEDULED", "ACTIVE", "ENDED"},
           storm' = [storm EXCEPT ![d].status = s]
    PROVE  /\ storm' \in [Storms -> StormRecord]
           /\ storm'[d].status = s
           /\ \A c \in Storms \ {d} : storm'[c] = storm[c]
<1>1. storm \in [Storms -> StormRecord]
  BY DEF VoyageInv, VoyageTypeOK, StormRecord
<1>2. storm[d] \in StormRecord
  BY <1>1
<1>3. /\ [storm[d] EXCEPT !.status = s] \in StormRecord
      /\ [storm[d] EXCEPT !.status = s].status = s
  BY <1>2 DEF StormRecord
<1>4. storm' = [storm EXCEPT ![d] = [storm[d] EXCEPT !.status = s]]
  BY <1>1
<1>5. QED
  BY <1>1, <1>3, <1>4

\* The force and the length of a storm are those it was injected with.
LEMMA StormFigures ==
    ASSUME VoyageTypeOK, NEW d \in Storms
    PROVE  /\ storm[d].severity \in 0..100 /\ storm[d].hours \in Nat
           /\ storm \in [Storms -> StormRecord]
<1>1. storm \in [Storms -> StormRecord]
  BY DEF VoyageTypeOK, StormRecord
<1>2. storm[d] \in StormRecord
  BY <1>1
<1>3. /\ storm[d].severity \in StormForces \union {0}
      /\ storm[d].hours \in StormHours \union {0}
  BY <1>2 DEF StormRecord
<1>4. \A x \in StormForces \union {0} : x \in 0..100
  BY VoyageAssumption
<1>5. \A x \in StormHours \union {0} : x \in Nat
  BY VoyageAssumption
<1>6. storm[d].severity \in 0..100 /\ storm[d].hours \in Nat
  BY <1>3, <1>4, <1>5, Zenon
<1>7. QED
  BY <1>1, <1>6

\* The types after a step of storm d that leaves the positions alone.
LEMMA StormTypes ==
    ASSUME VoyageTypeOK, UNCHANGED <<now, left, condition>>,
           \A v \in Vessels : speed'[v] \in 0..BaseSpeed[v],
           eta' \in [Vessels -> Nat], storm' \in [Storms -> StormRecord],
           target' \in Nat, now <= target',
           advancing' \in BOOLEAN, cut' \subseteq Storms
    PROVE  VoyageTypeOK'
BY DEF VoyageTypeOK, StormRecord

\* A storm breaks: its end is on the agenda.
LEMMA StormBreaksKeepsInv ==
    ASSUME VoyageInv, NEW e \in agenda, Due(e), StormBreaks(e)
    PROVE  VoyageInv'
<1> DEFINE d == e.storm
           knots == [v \in Hit(d) |-> EffectiveSpeed(v, storm[d].severity)]
           end == [kind |-> "STORM_ENDED", storm |-> d, time |-> now + storm[d].hours]
<1>1. VoyageAgenda /\ VoyageTypeOK /\ StormsHaveAnEnd
  BY DEF VoyageInv
<1>2. /\ e.kind = "STORM_ACTIVATED" /\ \A v \in Hit(d) : knots[v] > 0
      /\ storm' = [storm EXCEPT ![d].status = "ACTIVE"]
      /\ Reroute(Hit(d), knots)
      /\ agenda' = (agenda \ {e}) \union {end}
      /\ now' = now
      /\ UNCHANGED <<left, condition, target, advancing, failures, cut>>
  BY Zenon DEF StormBreaks, EndOf, Rescheduled
<1>3. d \in Storms /\ now \in Nat
  BY <1>1, <1>2 DEF VoyageAgenda, StormKinds
<1>4. /\ storm[d].severity \in 0..100 /\ storm[d].hours \in Nat
      /\ storm \in [Storms -> StormRecord]
  BY <1>1, <1>3, StormFigures
<1>5. Hit(d) \in SUBSET Vessels
  BY DEF Hit, AtSea
<1>6. \A v \in Hit(d) : knots[v] \in 1..BaseSpeed[v] /\ condition[v] # "DAMAGED"
  <2> SUFFICES ASSUME NEW v \in Hit(d)
               PROVE  knots[v] \in 1..BaseSpeed[v] /\ condition[v] # "DAMAGED"
    OBVIOUS
  <2>1. knots[v] = EffectiveSpeed(v, storm[d].severity) /\ knots[v] > 0
    BY <1>2
  <2>2. v \in Vessels /\ BaseSpeed[v] \in Nat
    BY <1>5, VoyageAssumption
  <2> HIDE DEF knots, d
  <2>3. /\ EffectiveSpeed(v, storm[d].severity) \in 0..BaseSpeed[v]
        /\ EffectiveSpeed(v, storm[d].severity) = 0 <=> condition[v] = "DAMAGED"
    BY <1>4, <2>2, EffectiveSpeedBounds
  <2>4. QED
    BY <2>1, <2>2, <2>3
<1> HIDE DEF knots
<1>7. /\ speed' \in [Vessels -> Nat]
      /\ \A v \in Vessels : speed'[v] \in 0..BaseSpeed[v]
      /\ eta' \in [Vessels -> Nat]
      /\ StandsWhileDamaged'
  BY <1>2, <1>5, <1>6, ReroutedVessels
<1>8. /\ end.kind = "STORM_ENDED" /\ end.storm = d /\ end.time \in Nat /\ end.time >= now
  BY <1>3, <1>4
<1>9. /\ storm' \in [Storms -> StormRecord]
      /\ \A c \in Storms \ {d} : storm'[c] = storm[c]
  BY <1>2, <1>3, StormMoves
<1> HIDE DEF d, end
<1>10. VoyageAgenda'
  <2>1. "STORM_ENDED" \in StormKinds /\ "STORM_ENDED" \notin RepairKinds
    BY DEF StormKinds, RepairKinds
  <2>2. \A f \in agenda' \ agenda : f \in {end}
    BY <1>2
  <2>3. \A f \in {end} :
            /\ f.kind \in CallKinds \union StormKinds \union RepairKinds
            /\ f.time \in Nat /\ f.time >= now
            /\ f.kind \in StormKinds => f.storm \in Storms
            /\ f.kind \in RepairKinds => f.vessel \in Vessels
    BY <1>3, <1>8, <2>1
  <2>4. QED
    BY <1>1, <1>2, <2>2, <2>3, VoyageAgendaKept
<1>11. VoyageTypeOK'
  <2>1. advancing' \in BOOLEAN
    BY <1>1, <1>2, Zenon DEF VoyageTypeOK
  <2>2. target' \in Nat /\ now <= target' /\ cut' \subseteq Storms
    BY <1>1, <1>2 DEF VoyageTypeOK
  <2>3. QED
    BY <2>1, <2>2, <1>1, <1>2, <1>7, <1>9, StormTypes
<1>12. StormsHaveAnEnd'
  <2> SUFFICES ASSUME NEW c \in Storms, storm'[c].status = "ACTIVE", c \notin cut'
               PROVE  \E f \in agenda' : f.kind = "STORM_ENDED" /\ f.storm = c
    BY DEF StormsHaveAnEnd
  <2>1. CASE c = d
    BY <2>1, <1>2, <1>8
  <2>2. CASE c # d
    <3>1. PICK f \in agenda : f.kind = "STORM_ENDED" /\ f.storm = c
      BY <2>2, <1>1, <1>2, <1>9 DEF StormsHaveAnEnd
    <3>2. f # e
      BY <3>1, <1>2
    <3>3. QED
      BY <3>1, <3>2, <1>2
  <2>3. QED
    BY <2>1, <2>2
<1>13. QED
  BY <1>7, <1>10, <1>11, <1>12 DEF VoyageInv

\* A storm reaches a standing vessel: the advance stops, and the storm is one of
\* those cut short.
LEMMA StormRaisesKeepsInv ==
    ASSUME VoyageInv, NEW e \in agenda, Due(e), StormRaises(e)
    PROVE  VoyageInv'
<1> DEFINE d == e.storm
           stopped == {v \in Hit(d) : EffectiveSpeed(v, storm[d].severity) = 0}
<1>1. VoyageAgenda /\ VoyageTypeOK /\ StormsHaveAnEnd
  BY DEF VoyageInv
<1>2. /\ e.kind = "STORM_ACTIVATED"
      /\ storm' = [storm EXCEPT ![d].status = "ACTIVE"]
      /\ \E before \in SUBSET (Hit(d) \ stopped) :
            Reroute(before, [v \in before |-> EffectiveSpeed(v, storm[d].severity)])
      /\ agenda' = agenda \ {e}
      /\ now' = now /\ target' = now /\ advancing' = FALSE
      /\ cut' = cut \union {d}
      /\ UNCHANGED <<left, condition, failures>>
  BY DEF StormRaises
<1>3. d \in Storms /\ now \in Nat
  BY <1>1, <1>2 DEF VoyageAgenda, StormKinds
<1>4. storm[d].severity \in 0..100 /\ storm \in [Storms -> StormRecord]
  BY <1>1, <1>3, StormFigures
<1>5. PICK before \in SUBSET (Hit(d) \ stopped) :
          Reroute(before, [v \in before |-> EffectiveSpeed(v, storm[d].severity)])
  BY <1>2
<1> DEFINE knots == [v \in before |-> EffectiveSpeed(v, storm[d].severity)]
<1>6. before \in SUBSET Vessels /\ Reroute(before, knots)
  BY <1>5 DEF Hit, AtSea
<1>7. \A v \in before : knots[v] \in 1..BaseSpeed[v] /\ condition[v] # "DAMAGED"
  <2> SUFFICES ASSUME NEW v \in before
               PROVE  knots[v] \in 1..BaseSpeed[v] /\ condition[v] # "DAMAGED"
    OBVIOUS
  <2>1. /\ knots[v] = EffectiveSpeed(v, storm[d].severity)
        /\ EffectiveSpeed(v, storm[d].severity) # 0
    BY <1>5
  <2>2. v \in Vessels /\ BaseSpeed[v] \in Nat
    BY <1>6, VoyageAssumption
  <2> HIDE DEF knots, d, stopped
  <2>3. /\ EffectiveSpeed(v, storm[d].severity) \in 0..BaseSpeed[v]
        /\ EffectiveSpeed(v, storm[d].severity) = 0 <=> condition[v] = "DAMAGED"
    BY <1>4, <2>2, EffectiveSpeedBounds
  <2>4. QED
    BY <2>1, <2>2, <2>3
<1> HIDE DEF knots, stopped
<1>8. /\ speed' \in [Vessels -> Nat]
      /\ \A v \in Vessels : speed'[v] \in 0..BaseSpeed[v]
      /\ eta' \in [Vessels -> Nat]
      /\ StandsWhileDamaged'
  BY <1>2, <1>6, <1>7, ReroutedVessels
<1>9. /\ storm' \in [Storms -> StormRecord]
      /\ \A c \in Storms \ {d} : storm'[c] = storm[c]
  BY <1>2, <1>3, StormMoves
<1> HIDE DEF d
<1>10. VoyageAgenda'
  BY <1>1, <1>2 DEF VoyageAgenda
<1>11. VoyageTypeOK'
  <2>1. advancing' \in BOOLEAN
    BY <1>2, Zenon
  <2>2. target' \in Nat /\ now <= target' /\ cut' \subseteq Storms
    BY <1>1, <1>2, <1>3 DEF VoyageTypeOK
  <2>3. QED
    BY <2>1, <2>2, <1>1, <1>2, <1>8, <1>9, StormTypes
<1>12. StormsHaveAnEnd'
  <2> SUFFICES ASSUME NEW c \in Storms, storm'[c].status = "ACTIVE", c \notin cut'
               PROVE  \E f \in agenda' : f.kind = "STORM_ENDED" /\ f.storm = c
    BY DEF StormsHaveAnEnd
  <2>1. c # d /\ c \notin cut
    BY <1>2
  <2>2. PICK f \in agenda : f.kind = "STORM_ENDED" /\ f.storm = c
    BY <2>1, <1>1, <1>9 DEF StormsHaveAnEnd
  <2>3. f # e
    BY <2>2, <1>2
  <2>4. QED
    BY <2>2, <2>3, <1>2
<1>13. QED
  BY <1>8, <1>10, <1>11, <1>12 DEF VoyageInv

\* A storm passes: no other storm loses its end.
LEMMA StormPassesKeepsInv ==
    ASSUME VoyageInv, NEW e \in agenda, Due(e), StormPasses(e)
    PROVE  VoyageInv'
<1> DEFINE d == e.storm
<1>1. /\ VoyageAgenda /\ VoyageTypeOK /\ StandsWhileDamaged /\ StormsHaveAnEnd
      /\ speed \in [Vessels -> Nat]
  BY DEF VoyageInv
<1>2. /\ e.kind = "STORM_ENDED" /\ agenda' = agenda \ {e}
      /\ storm' = [storm EXCEPT ![d].status = "ENDED"]
      /\ now' = now
      /\ UNCHANGED <<speed, left, eta, condition, target, advancing, failures, cut>>
  BY DEF StormPasses
<1>3. d \in Storms
  BY <1>1, <1>2 DEF VoyageAgenda, StormKinds
<1>4. /\ storm' \in [Storms -> StormRecord] /\ storm'[d].status = "ENDED"
      /\ \A c \in Storms \ {d} : storm'[c] = storm[c]
  BY <1>2, <1>3, StormMoves
<1> HIDE DEF d
<1>5. VoyageAgenda'
  BY <1>1, <1>2 DEF VoyageAgenda
<1>6. VoyageTypeOK'
  <2>1. advancing' \in BOOLEAN
    BY <1>1, <1>2, Zenon DEF VoyageTypeOK
  <2>2. /\ target' \in Nat /\ now <= target' /\ cut' \subseteq Storms
        /\ eta' \in [Vessels -> Nat] /\ \A v \in Vessels : speed'[v] \in 0..BaseSpeed[v]
    BY <1>1, <1>2 DEF VoyageTypeOK
  <2>3. QED
    BY <2>1, <2>2, <1>1, <1>2, <1>4, StormTypes
<1>7. StandsWhileDamaged'
  BY <1>1, <1>2 DEF StandsWhileDamaged
<1>8. StormsHaveAnEnd'
  <2> SUFFICES ASSUME NEW c \in Storms, storm'[c].status = "ACTIVE", c \notin cut'
               PROVE  \E f \in agenda' : f.kind = "STORM_ENDED" /\ f.storm = c
    BY DEF StormsHaveAnEnd
  <2>1. c # d /\ e.storm = d
    BY <1>4 DEF d
  <2>2. PICK f \in agenda : f.kind = "STORM_ENDED" /\ f.storm = c
    BY <2>1, <1>1, <1>2, <1>4 DEF StormsHaveAnEnd
  <2>3. QED
    BY <2>1, <2>2, <1>2
<1>9. QED
  BY <1>1, <1>2, <1>5, <1>6, <1>7, <1>8 DEF VoyageInv

\* The events of breakdowns and repairs, and those an operator injects, keep
\* the agenda sound.
LEMMA RepairEvents ==
    ASSUME VoyageAgenda, NEW v \in Vessels, NEW k \in RepairKinds, NEW t \in Nat,
           t >= now
    PROVE  \A e \in {Vessel(k, v, t)} :
              /\ e.kind \in CallKinds \union StormKinds \union RepairKinds
              /\ e.time \in Nat /\ e.time >= now
              /\ e.kind \in StormKinds => e.storm \in Storms
              /\ e.kind \in RepairKinds => e.vessel \in Vessels
<1>1. k \notin StormKinds
  BY DEF StormKinds, RepairKinds
<1>2. QED
  BY <1>1 DEF Vessel

\* A vessel breaks down: it stands, damaged.
LEMMA BreakDownKeepsInv ==
    ASSUME VoyageInv, NEW e \in agenda, Due(e), BreakDown(e)
    PROVE  VoyageInv'
<1>1. /\ VoyageAgenda /\ VoyageTypeOK /\ StandsWhileDamaged /\ StormsHaveAnEnd
      /\ speed \in [Vessels -> Nat]
  BY DEF VoyageInv
<1>2. /\ e.kind = "VESSEL_MECHANICAL_FAILURE"
      /\ condition' = [condition EXCEPT ![e.vessel] = "DAMAGED"]
      /\ speed' = [speed EXCEPT ![e.vessel] = 0]
      /\ agenda' = (agenda \ {e}) \union
            {Vessel("VESSEL_RECOVERED", e.vessel, now + RecoveryHours)}
      /\ now' = now
      /\ UNCHANGED <<left, eta, storm, target, advancing, failures, cut>>
  BY DEF BreakDown, Repair
<1>3. e.vessel \in Vessels /\ now + RecoveryHours \in Nat /\ now + RecoveryHours >= now
  BY <1>1, <1>2, VoyageAssumption DEF VoyageAgenda, RepairKinds
<1>4. VoyageAgenda'
  <2>1. "VESSEL_RECOVERED" \in RepairKinds
    BY DEF RepairKinds
  <2>2. \A f \in agenda' \ agenda :
            f \in {Vessel("VESSEL_RECOVERED", e.vessel, now + RecoveryHours)}
    BY <1>2
  <2>3. QED
    BY <1>1, <1>2, <1>3, <2>1, <2>2, RepairEvents, VoyageAgendaKept
<1>5. VoyageTypeOK'
  <2>1. advancing' \in BOOLEAN
    BY <1>1, <1>2, Zenon DEF VoyageTypeOK
  <2>2. \A v \in Vessels : speed'[v] \in 0..BaseSpeed[v]
    <3>1. \A v \in Vessels : speed[v] \in 0..BaseSpeed[v] /\ BaseSpeed[v] \in Nat
      BY <1>1, VoyageAssumption DEF VoyageTypeOK
    <3>2. QED
      BY <1>1, <1>2, <3>1
  <2>3. condition' \in [Vessels -> {"GOOD", "DAMAGED"}]
    BY <1>1, <1>2 DEF VoyageTypeOK
  <2>4. QED
    BY <2>1, <2>2, <2>3, <1>1, <1>2 DEF VoyageTypeOK
<1>6. StandsWhileDamaged'
  BY <1>1, <1>2 DEF StandsWhileDamaged, VoyageTypeOK
<1>7. StormsHaveAnEnd'
  <2>1. \A f \in agenda \ agenda' : f.kind # "STORM_ENDED"
    BY <1>2
  <2>2. QED
    BY <2>1, <1>1, <1>2, StormEndsKept
<1>8. QED
  BY <1>1, <1>2, <1>4, <1>5, <1>6, <1>7 DEF VoyageInv

\* A vessel is repaired: it sails again, at its base speed.
LEMMA RecoverKeepsInv ==
    ASSUME VoyageInv, NEW e \in agenda, Due(e), Recover(e)
    PROVE  VoyageInv'
<1> DEFINE v == e.vessel
<1>1. /\ VoyageAgenda /\ VoyageTypeOK /\ StandsWhileDamaged /\ StormsHaveAnEnd
      /\ speed \in [Vessels -> Nat]
  BY DEF VoyageInv
<1>2. /\ e.kind = "VESSEL_RECOVERED"
      /\ condition' = [condition EXCEPT ![v] = "GOOD"]
      /\ speed' = [speed EXCEPT ![v] = BaseSpeed[v]]
      /\ \/ eta' = [eta EXCEPT ![v] = now + HoursLeft(v, BaseSpeed[v])]
         \/ eta' = eta
      /\ agenda' = agenda \ {e}
      /\ now' = now
      /\ UNCHANGED <<left, storm, target, advancing, failures, cut>>
  BY DEF Recover
<1>3. v \in Vessels /\ now \in Nat /\ BaseSpeed[v] \in Nat \ {0} /\ left[v] \in Nat
  BY <1>1, <1>2, VoyageAssumption DEF VoyageAgenda, RepairKinds, VoyageTypeOK
<1> HIDE DEF v
<1>4. now + HoursLeft(v, BaseSpeed[v]) \in Nat
  <2>1. (left[v] + BaseSpeed[v] - 1) \div BaseSpeed[v] \in Nat
    BY <1>3, HoursAreNat
  <2>2. QED
    BY <1>3, <2>1 DEF HoursLeft
<1>5. VoyageAgenda'
  BY <1>1, <1>2 DEF VoyageAgenda
<1>6. VoyageTypeOK'
  <2>1. advancing' \in BOOLEAN
    BY <1>1, <1>2, Zenon DEF VoyageTypeOK
  <2>2. \A w \in Vessels : speed'[w] \in 0..BaseSpeed[w]
    BY <1>1, <1>2, <1>3 DEF VoyageTypeOK
  <2>3. /\ condition' \in [Vessels -> {"GOOD", "DAMAGED"}]
        /\ eta' \in [Vessels -> Nat]
    <3>1. /\ condition \in [Vessels -> {"GOOD", "DAMAGED"}]
          /\ eta \in [Vessels -> Nat]
      BY <1>1 DEF VoyageTypeOK
    <3>2. condition' \in [Vessels -> {"GOOD", "DAMAGED"}]
      BY <1>2, <3>1
    <3>3. eta' \in [Vessels -> Nat]
      BY <1>2, <1>4, <3>1
    <3>4. QED
      BY <3>2, <3>3
  <2>4. /\ left' \in [Vessels -> Nat] /\ target' \in Nat
        /\ storm' = storm /\ cut' \subseteq Storms /\ now' <= target'
    BY <1>1, <1>2 DEF VoyageTypeOK
  <2>5. storm' \in [Storms -> StormRecord]
    BY <1>1, <2>4 DEF VoyageTypeOK, StormRecord
  <2>6. QED
    BY <2>1, <2>2, <2>3, <2>4, <2>5, Zenon DEF VoyageTypeOK, StormRecord
<1>7. StandsWhileDamaged'
  BY <1>1, <1>2, <1>3 DEF StandsWhileDamaged, VoyageTypeOK
<1>8. StormsHaveAnEnd'
  <2>1. \A f \in agenda \ agenda' : f.kind # "STORM_ENDED"
    BY <1>2
  <2>2. QED
    BY <2>1, <1>1, <1>2, StormEndsKept
<1>9. speed' \in [Vessels -> Nat]
  BY <1>1, <1>2, <1>3
<1>10. QED
  BY <1>5, <1>6, <1>7, <1>8, <1>9 DEF VoyageInv

\* update_vessel_progress(): a vessel gets no further from its port.
LEMMA ProgressNearer ==
    ASSUME VoyageInv, NEW v \in Vessels, NEW hours \in Nat
    PROVE  DistanceAfter(v, hours) \in Nat /\ DistanceAfter(v, hours) <= left[v]
<1>1. left[v] \in Nat /\ speed[v] \in Nat
  BY DEF VoyageInv, VoyageTypeOK
<1>2. CASE v \notin AtSea
  BY <1>1, <1>2 DEF DistanceAfter
<1>3. CASE v \in AtSea
  <2>1. /\ speed[v] * hours \in Nat
        /\ left[v] > speed[v] * hours =>
              left[v] - speed[v] * hours \in Nat /\ left[v] - speed[v] * hours <= left[v]
    BY <1>1, SailingNearer
  <2>2. CASE left[v] <= speed[v] * hours
    BY <1>1, <1>3, <2>2 DEF DistanceAfter
  <2>3. CASE ~(left[v] <= speed[v] * hours)
    <3>1. DistanceAfter(v, hours) = left[v] - speed[v] * hours
      BY <1>3, <2>3 DEF DistanceAfter
    <3>2. left[v] > speed[v] * hours
      BY <1>1, <2>1, <2>3
    <3>3. QED
      BY <3>1, <3>2, <2>1
  <2>4. QED
    BY <2>2, <2>3
<1>4. QED
  BY <1>2, <1>3

\* advance() moves the vessels and opens the step.
LEMMA AdvanceKeepsInv ==
    ASSUME VoyageInv, NEW hours \in Steps, Advance(hours)
    PROVE  VoyageInv'
<1>1. /\ VoyageAgenda /\ VoyageTypeOK /\ StandsWhileDamaged /\ StormsHaveAnEnd
      /\ speed \in [Vessels -> Nat] /\ now \in Nat /\ hours \in Nat
  BY VoyageAssumption DEF VoyageInv, VoyageAgenda
<1>2. /\ advancing' = TRUE /\ target' = now + hours
      /\ left' = [v \in Vessels |-> DistanceAfter(v, hours)]
      /\ now' = now /\ agenda' = agenda
      /\ UNCHANGED <<speed, eta, condition, storm, failures, cut>>
  BY DEF Advance, vars
<1>3. left' \in [Vessels -> Nat]
  BY <1>1, <1>2, ProgressNearer
<1>4. VoyageTypeOK'
  <2>1. advancing' \in BOOLEAN
    BY <1>2, Zenon
  <2>2. target' \in Nat /\ now' <= target'
    BY <1>1, <1>2
  <2>3. QED
    BY <2>1, <2>2, <1>1, <1>2, <1>3 DEF VoyageTypeOK
<1>5. VoyageAgenda' /\ StandsWhileDamaged' /\ StormsHaveAnEnd'
  BY <1>1, <1>2 DEF VoyageAgenda, StandsWhileDamaged, StormsHaveAnEnd
<1>6. QED
  BY <1>1, <1>2, <1>4, <1>5 DEF VoyageInv

\* Time runs to the end of the step at most, and over no event.
LEMMA HourPassesKeepsInv ==
    ASSUME VoyageInv, HourPasses
    PROVE  VoyageInv'
<1>1. /\ VoyageAgenda /\ VoyageTypeOK /\ StandsWhileDamaged /\ StormsHaveAnEnd
      /\ speed \in [Vessels -> Nat] /\ now \in Nat /\ target \in Nat
  BY DEF VoyageInv, VoyageAgenda, VoyageTypeOK
<1>2. /\ now < target /\ agenda' = agenda
      /\ now' = now + 1 \/ now' = now
      /\ \A e \in agenda : e.time > now
      /\ UNCHANGED <<speed, left, eta, condition, storm, target, advancing, failures, cut>>
  BY DEF HourPasses, TimePasses, sailing
<1>3. VoyageTypeOK'
  <2>1. advancing' \in BOOLEAN
    BY <1>1, <1>2, Zenon DEF VoyageTypeOK
  <2>2. now' <= target'
    BY <1>1, <1>2
  <2>3. QED
    BY <2>1, <2>2, <1>1, <1>2 DEF VoyageTypeOK
<1>4. VoyageAgenda'
  BY <1>1, <1>2 DEF VoyageAgenda
<1>5. StandsWhileDamaged' /\ StormsHaveAnEnd'
  BY <1>1, <1>2 DEF StandsWhileDamaged, StormsHaveAnEnd
<1>6. QED
  BY <1>1, <1>2, <1>3, <1>4, <1>5 DEF VoyageInv

\* The end of a step, and steps that leave the world alone.
LEMMA FrameKeepsInv ==
    ASSUME VoyageInv, advancing' \in BOOLEAN, now' = now, agenda' = agenda,
           UNCHANGED <<speed, left, eta, condition, storm, target, cut>>
    PROVE  VoyageInv'
<1>1. /\ VoyageAgenda /\ VoyageTypeOK /\ StandsWhileDamaged /\ StormsHaveAnEnd
      /\ speed \in [Vessels -> Nat]
  BY DEF VoyageInv
<1>2. VoyageTypeOK'
  BY <1>1 DEF VoyageTypeOK
<1>3. VoyageAgenda' /\ StandsWhileDamaged' /\ StormsHaveAnEnd'
  BY <1>1 DEF VoyageAgenda, StandsWhileDamaged, StormsHaveAnEnd
<1>4. QED
  BY <1>1, <1>2, <1>3 DEF VoyageInv

\* inject_disruption() of a storm.
LEMMA InjectStormKeepsInv ==
    ASSUME VoyageInv, NEW d \in Storms, NEW vessels \in StormAreas,
           NEW severity \in StormForces, NEW hours \in StormHours,
           InjectStorm(d, vessels, severity, hours)
    PROVE  VoyageInv'
<1> DEFINE event == [kind |-> "STORM_ACTIVATED", storm |-> d, time |-> now]
           record == [status |-> "SCHEDULED", vessels |-> vessels,
                      severity |-> severity, hours |-> hours]
<1>1. /\ VoyageAgenda /\ VoyageTypeOK /\ StandsWhileDamaged /\ StormsHaveAnEnd
      /\ speed \in [Vessels -> Nat] /\ now \in Nat
  BY DEF VoyageInv, VoyageAgenda
<1>2. /\ storm' = [storm EXCEPT ![d] = record]
      /\ agenda' = agenda \union {event}
      /\ now' = now
      /\ UNCHANGED <<speed, left, eta, condition, target, advancing, failures, cut>>
  BY DEF InjectStorm
<1>3. record \in StormRecord /\ record.status = "SCHEDULED"
  BY VoyageAssumption DEF StormRecord
<1>4. /\ storm' \in [Storms -> StormRecord] /\ storm'[d].status = "SCHEDULED"
      /\ \A c \in Storms \ {d} : storm'[c] = storm[c]
  <2>1. storm \in [Storms -> StormRecord]
    BY <1>1 DEF VoyageTypeOK, StormRecord
  <2> HIDE DEF record
  <2>2. QED
    BY <2>1, <1>2, <1>3
<1>5. VoyageAgenda'
  <2>1. \A f \in {event} :
            /\ f.kind \in CallKinds \union StormKinds \union RepairKinds
            /\ f.time \in Nat /\ f.time >= now
            /\ f.kind \in StormKinds => f.storm \in Storms
            /\ f.kind \in RepairKinds => f.vessel \in Vessels
    <3>1. "STORM_ACTIVATED" \in StormKinds /\ "STORM_ACTIVATED" \notin RepairKinds
      BY DEF StormKinds, RepairKinds
    <3>2. QED
      BY <3>1, <1>1
  <2> HIDE DEF event
  <2>2. \A f \in agenda' \ agenda : f \in {event}
    BY <1>2
  <2>3. QED
    BY <2>1, <2>2, <1>1, <1>2, VoyageAgendaKept
<1> HIDE DEF event, record
<1>6. VoyageTypeOK'
  <2>1. advancing' \in BOOLEAN
    BY <1>1, <1>2, Zenon DEF VoyageTypeOK
  <2>2. /\ target' \in Nat /\ now <= target' /\ cut' \subseteq Storms
        /\ eta' \in [Vessels -> Nat] /\ \A v \in Vessels : speed'[v] \in 0..BaseSpeed[v]
    BY <1>1, <1>2 DEF VoyageTypeOK
  <2>3. QED
    BY <2>1, <2>2, <1>1, <1>2, <1>4, StormTypes
<1>7. StandsWhileDamaged'
  BY <1>1, <1>2 DEF StandsWhileDamaged
<1>8. StormsHaveAnEnd'
  <2> SUFFICES ASSUME NEW c \in Storms, storm'[c].status = "ACTIVE", c \notin cut'
               PROVE  \E f \in agenda' : f.kind = "STORM_ENDED" /\ f.storm = c
    BY DEF StormsHaveAnEnd
  <2>1. c # d
    BY <1>4
  <2>2. QED
    BY <2>1, <1>1, <1>2, <1>4 DEF StormsHaveAnEnd
<1>9. QED
  BY <1>1, <1>2, <1>5, <1>6, <1>7, <1>8 DEF VoyageInv

\* schedule_next_vessel_failure().
LEMMA DrawFailureKeepsInv ==
    ASSUME VoyageInv, NEW v \in Vessels, NEW gap \in FailureGaps, DrawFailure(v, gap)
    PROVE  VoyageInv'
<1>1. /\ VoyageAgenda /\ VoyageTypeOK /\ StandsWhileDamaged /\ StormsHaveAnEnd
      /\ speed \in [Vessels -> Nat] /\ now \in Nat
  BY DEF VoyageInv, VoyageAgenda
<1>2. /\ agenda' = agenda \union {Vessel("VESSEL_MECHANICAL_FAILURE", v, now + gap)}
      /\ now' = now
      /\ UNCHANGED <<speed, left, eta, condition, storm, target, advancing, cut>>
  BY DEF DrawFailure
<1>3. now + gap \in Nat /\ now + gap >= now
  BY <1>1, VoyageAssumption
<1>4. VoyageAgenda'
  <2>1. "VESSEL_MECHANICAL_FAILURE" \in RepairKinds
    BY DEF RepairKinds
  <2>2. \A f \in agenda' \ agenda :
            f \in {Vessel("VESSEL_MECHANICAL_FAILURE", v, now + gap)}
    BY <1>2
  <2>3. QED
    BY <1>1, <1>2, <1>3, <2>1, <2>2, RepairEvents, VoyageAgendaKept
<1>5. VoyageTypeOK'
  <2>1. advancing' \in BOOLEAN
    BY <1>1, <1>2, Zenon DEF VoyageTypeOK
  <2>2. QED
    BY <2>1, <1>1, <1>2 DEF VoyageTypeOK
<1>6. StandsWhileDamaged' /\ StormsHaveAnEnd'
  BY <1>1, <1>2 DEF StandsWhileDamaged, StormsHaveAnEnd
<1>7. QED
  BY <1>1, <1>2, <1>4, <1>5, <1>6 DEF VoyageInv

\* The seeded world: every vessel in order, at full speed, nothing overdue.
LEMMA VoyageInitially == VoyageInit => VoyageInv
<1> SUFFICES ASSUME VoyageInit PROVE VoyageInv
  OBVIOUS
<1> DEFINE fresh == [v \in Vessels |-> IF v \in AtSea THEN ArrivalOf(v).time ELSE 0]
<1>1. /\ Init /\ speed = BaseSpeed /\ left \in [Vessels -> Distances \union {0}]
      /\ eta = fresh /\ condition = [v \in Vessels |-> "GOOD"]
      /\ storm = [d \in Storms |-> NoStorm]
      /\ target = 0 /\ advancing = FALSE /\ cut = {}
  BY Zenon DEF VoyageInit
<1> HIDE DEF fresh
<1>2. PICK due \in [Vessels -> SeedHours], dest \in [Vessels -> Ports],
           release \in [Ports -> SeedHours] :
          agenda =
            {[kind |-> "VESSEL_ARRIVED", time |-> due[v], port |-> dest[v],
              vessel |-> v] : v \in {w \in Vessels : status[w] = "IN_TRANSIT"}}
            \union {Unberthing(v, dest[v], due[v]) :
                        v \in {w \in Vessels : status[w] = "IN_PORT"}}
            \union {[kind |-> "BERTH_RELEASED", time |-> release[p], port |-> p] :
                        p \in {q \in Ports : queue[q] # <<>>}}
  BY <1>1 DEF Init
<1>3. now = 0 /\ \A x \in SeedHours : x \in Nat /\ x >= 0
  BY <1>1, PortAssumption DEF Init
<1>4. \A e \in agenda : e.kind \in CallKinds /\ e.time \in SeedHours
  BY <1>2 DEF CallKinds, Unberthing
<1>5. VoyageAgenda
  BY <1>3, <1>4 DEF VoyageAgenda, CallKinds, StormKinds, RepairKinds
<1>6. eta \in [Vessels -> Nat]
  <2>1. \A v \in AtSea : ArrivalOf(v).time \in Nat
    <3> SUFFICES ASSUME NEW v \in Vessels, status[v] = "IN_TRANSIT"
                 PROVE  ArrivalOf(v).time \in Nat
      BY DEF AtSea
    <3>1. \E e \in agenda : e.kind = "VESSEL_ARRIVED" /\ e.vessel = v
      <4> DEFINE call == [kind |-> "VESSEL_ARRIVED", time |-> due[v],
                          port |-> dest[v], vessel |-> v]
      <4>1. call \in agenda
        BY <1>2
      <4>2. QED
        BY <4>1
    <3>2. ArrivalOf(v) \in agenda
      BY <3>1 DEF ArrivalOf
    <3>3. QED
      BY <3>2, <1>3, <1>4
  <2>2. QED
    BY <2>1, <1>1 DEF fresh
<1>7. /\ speed \in [Vessels -> Nat]
      /\ \A v \in Vessels : speed[v] \in 0..BaseSpeed[v] /\ speed[v] # 0
  BY <1>1, VoyageAssumption
<1>8. VoyageTypeOK
  <2>1. advancing \in BOOLEAN
    BY <1>1
  <2>2. left \in [Vessels -> Nat] /\ condition \in [Vessels -> {"GOOD", "DAMAGED"}]
    <3>1. \A x \in Distances \union {0} : x \in Nat
      BY VoyageAssumption
    <3>2. QED
      BY <3>1, <1>1
  <2>3. storm \in [Storms -> StormRecord]
    BY <1>1 DEF NoStorm, StormRecord
  <2>4. QED
    BY <2>1, <2>2, <2>3, <1>1, <1>3, <1>6, <1>7 DEF VoyageTypeOK, StormRecord
<1>9. StandsWhileDamaged
  BY <1>1, <1>7 DEF StandsWhileDamaged
<1>10. StormsHaveAnEnd
  BY <1>1 DEF StormsHaveAnEnd, NoStorm
<1>11. QED
  BY <1>5, <1>7, <1>8, <1>9, <1>10 DEF VoyageInv

LEMMA VoyageInductive ==
    ASSUME VoyageInv, [VoyageNext]_voyageVars PROVE VoyageInv'
<1>1. ASSUME NEW e \in agenda, Due(e),
             \/ Arrive(e) \/ Unberth(e) \/ Release(e) \/ StormBreaks(e)
             \/ StormRaises(e) \/ StormPasses(e) \/ BreakDown(e) \/ Recover(e)
      PROVE  VoyageInv'
  BY <1>1, CallsKeepInv, StormBreaksKeepsInv, StormRaisesKeepsInv,
     StormPassesKeepsInv, BreakDownKeepsInv, RecoverKeepsInv
<1>2. CASE HourPasses
  BY <1>2, HourPassesKeepsInv
<1>3. CASE AdvanceEnds
  <2>1. advancing' \in BOOLEAN
    BY <1>3, Zenon DEF AdvanceEnds
  <2>2. QED
    BY <1>3, <2>1, FrameKeepsInv DEF AdvanceEnds, vars
<1>4. ASSUME NEW hours \in Steps, Advance(hours) PROVE VoyageInv'
  BY <1>4, AdvanceKeepsInv
<1>5. ASSUME NEW d \in Storms, NEW vessels \in StormAreas,
             NEW severity \in StormForces, NEW hours \in StormHours,
             InjectStorm(d, vessels, severity, hours)
      PROVE  VoyageInv'
  BY <1>5, InjectStormKeepsInv
<1>6. ASSUME NEW v \in Vessels, NEW gap \in FailureGaps, DrawFailure(v, gap)
      PROVE  VoyageInv'
  BY <1>6, DrawFailureKeepsInv
<1>7. CASE UNCHANGED voyageVars
  <2>1. advancing' \in BOOLEAN
    BY <1>7, Zenon DEF voyageVars, sailing, VoyageInv, VoyageTypeOK
  <2>2. QED
    BY <1>7, <2>1, FrameKeepsInv DEF voyageVars, vars, sailing
<1>8. QED
  BY <1>1, <1>2, <1>3, <1>4, <1>5, <1>6, <1>7, Zenon DEF VoyageNext, Handle

LEMMA VoyageInvariant == VoyageSpec => []VoyageInv
<1>1. QED
  BY VoyageInitially, VoyageInductive, PTL DEF VoyageSpec

\* What is not a breakdown or a repair leaves the conditions of vessels and the
\* repairs on the agenda alone.
LEMMA RepairsKept ==
    ASSUME RepairsArePending, condition' = condition,
           \A f \in agenda : f.kind = "VESSEL_RECOVERED" => f \in agenda'
    PROVE  RepairsArePending'
BY DEF RepairsArePending

\* Every step keeps a repair scheduled for every damaged vessel: a breakdown
\* schedules its own, and a repair leaves those of the other vessels.
LEMMA StepRepairs ==
    ASSUME VoyageInv, RepairsArePending, [VoyageNext]_voyageVars
    PROVE  RepairsArePending'
<1>0. condition \in [Vessels -> {"GOOD", "DAMAGED"}]
  BY DEF VoyageInv, VoyageTypeOK
<1>1. ASSUME NEW e \in agenda, Arrive(e) \/ Unberth(e) \/ Release(e)
      PROVE  RepairsArePending'
  <2>1. /\ e.kind # "VESSEL_RECOVERED"
        /\ condition' = condition
        /\ agenda \ {e} \subseteq agenda'
    BY <1>1 DEF Arrive, Unberth, Release, sailing, VesselArrived,
                VesselUnberthed, BerthReleased, ServeQueue, ServeNobody
  <2>2. QED
    BY <2>1, RepairsKept
<1>2. ASSUME NEW e \in agenda, StormBreaks(e) \/ StormRaises(e) \/ StormPasses(e)
      PROVE  RepairsArePending'
  <2>1. /\ e.kind # "VESSEL_RECOVERED"
        /\ condition' = condition
        /\ agenda \ {e} \subseteq agenda'
    BY <1>2 DEF StormBreaks, StormRaises, StormPasses
  <2>2. QED
    BY <2>1, RepairsKept
<1>3. ASSUME NEW e \in agenda, BreakDown(e) PROVE RepairsArePending'
  <2>1. /\ e.kind # "VESSEL_RECOVERED"
        /\ condition' = [condition EXCEPT ![e.vessel] = "DAMAGED"]
        /\ agenda \ {e} \subseteq agenda'
        /\ Vessel("VESSEL_RECOVERED", e.vessel, now + RecoveryHours) \in agenda'
    BY <1>3 DEF BreakDown, Repair
  <2> SUFFICES ASSUME NEW v \in Vessels, condition'[v] = "DAMAGED"
               PROVE  \E f \in agenda' : f.kind = "VESSEL_RECOVERED" /\ f.vessel = v
    BY DEF RepairsArePending
  <2>2. CASE v = e.vessel
    BY <2>1, <2>2 DEF Vessel
  <2>3. CASE v # e.vessel
    <3>1. condition[v] = "DAMAGED"
      BY <1>0, <2>1, <2>3
    <3>2. PICK f \in agenda : f.kind = "VESSEL_RECOVERED" /\ f.vessel = v
      BY <3>1 DEF RepairsArePending
    <3>3. QED
      BY <2>1, <3>2
  <2>4. QED
    BY <2>2, <2>3
<1>4. ASSUME NEW e \in agenda, Recover(e) PROVE RepairsArePending'
  <2>1. /\ condition' = [condition EXCEPT ![e.vessel] = "GOOD"]
        /\ agenda' = agenda \ {e}
    BY <1>4 DEF Recover
  <2> SUFFICES ASSUME NEW v \in Vessels, condition'[v] = "DAMAGED"
               PROVE  \E f \in agenda' : f.kind = "VESSEL_RECOVERED" /\ f.vessel = v
    BY DEF RepairsArePending
  <2>2. v # e.vessel /\ condition[v] = "DAMAGED"
    BY <1>0, <2>1
  <2>3. PICK f \in agenda : f.kind = "VESSEL_RECOVERED" /\ f.vessel = v
    BY <2>2 DEF RepairsArePending
  <2>4. QED
    BY <2>1, <2>2, <2>3
<1>5. ASSUME condition' = condition, agenda \subseteq agenda'
      PROVE  RepairsArePending'
  BY <1>5, RepairsKept
<1>6. ASSUME NEW hours \in Steps, Advance(hours) PROVE RepairsArePending'
  BY <1>5, <1>6 DEF Advance, vars
<1>7. CASE HourPasses
  BY <1>5, <1>7 DEF HourPasses, TimePasses, sailing
<1>8. CASE AdvanceEnds
  BY <1>5, <1>8 DEF AdvanceEnds, vars
<1>9. ASSUME NEW d \in Storms, NEW vessels \in StormAreas,
             NEW severity \in StormForces, NEW hours \in StormHours,
             InjectStorm(d, vessels, severity, hours)
      PROVE  RepairsArePending'
  BY <1>5, <1>9 DEF InjectStorm
<1>10. ASSUME NEW v \in Vessels, NEW gap \in FailureGaps, DrawFailure(v, gap)
       PROVE  RepairsArePending'
  BY <1>5, <1>10 DEF DrawFailure
<1>11. CASE UNCHANGED voyageVars
  BY <1>5, <1>11 DEF voyageVars, vars, sailing
<1>12. QED
  BY <1>1, <1>2, <1>3, <1>4, <1>6, <1>7, <1>8, <1>9, <1>10, <1>11, Zenon
     DEF VoyageNext, Handle

\* The seeded fleet has nothing to repair.
LEMMA NothingToRepair == VoyageInit => RepairsArePending
BY DEF VoyageInit, RepairsArePending

\* Speed, condition, storms and their events stay in step, whatever order
\* storms, breakdowns, repairs and aborted advances come in: a storm in force
\* has its end on the agenda and a damaged vessel its repair.
THEOREM VesselsStaySound == VoyageSpec => []VesselsAreSound
<1>1. VoyageInv /\ RepairsArePending => VesselsAreSound
  BY DEF VoyageInv, VesselsAreSound
<1>2. QED
  BY <1>1, VoyageInvariant, NothingToRepair, StepRepairs, PTL DEF VoyageSpec

\* No change of conditions restarts a voyage: the distance before a vessel
\* never grows.
THEOREM VoyagesNeverRestart == VoyageSpec => PositionContinuity
<1> DEFINE Nearer == \A v \in Vessels : left'[v] <= left[v]
<1>1. VoyageInv /\ [VoyageNext]_voyageVars => [Nearer]_voyageVars
  <2> SUFFICES ASSUME VoyageInv, VoyageNext, NEW v \in Vessels
               PROVE  left'[v] <= left[v]
    OBVIOUS
  <2>1. left \in [Vessels -> Nat] /\ left[v] \in Nat
    BY DEF VoyageInv, VoyageTypeOK
  <2>2. CASE left' = left
    BY <2>1, <2>2
  <2>3. ASSUME NEW e, Arrive(e) PROVE left'[v] <= left[v]
    <3>1. left' = [left EXCEPT ![e.vessel] = 0]
      BY <2>3 DEF Arrive
    <3>2. QED
      BY <2>1, <3>1
  <2>4. ASSUME NEW hours \in Steps, Advance(hours) PROVE left'[v] <= left[v]
    <3>1. hours \in Nat /\ left' = [w \in Vessels |-> DistanceAfter(w, hours)]
      BY <2>4, VoyageAssumption DEF Advance
    <3>2. QED
      BY <3>1, ProgressNearer
  <2>5. \/ left' = left
        \/ \E e : Arrive(e)
        \/ \E hours \in Steps : Advance(hours)
    BY DEF VoyageNext, Handle, Unberth, Release, StormBreaks, StormRaises,
           StormPasses, BreakDown, Recover, HourPasses, AdvanceEnds, InjectStorm,
           DrawFailure, sailing
  <2>6. QED
    BY <2>2, <2>3, <2>4, <2>5
<1>2. QED
  BY <1>1, VoyageInvariant, PTL DEF VoyageSpec, PositionContinuity

\* Storms, breakdowns and repairs come before nothing at a port: among calls,
\* the order of a world with storms is the order of one without.
LEMMA SamePriority ==
    \A k \in CallKinds : StormPriority[k] = EventPriority[k]
BY DEF CallKinds, StormPriority, EventPriority

LEMMA DueIsEarliest ==
    ASSUME VoyageAgenda, NEW e \in agenda, Due(e), e.kind \in CallKinds
    PROVE  e \in CallAgenda /\ Calling!Earliest(e)
<1>1. e \in CallAgenda
  BY DEF CallAgenda, CallKinds
<1>2. ASSUME NEW f \in CallAgenda
      PROVE  \/ e.time < f.time
             \/ e.time = f.time /\ EventPriority[e.kind] <= EventPriority[f.kind]
  <2>1. f \in agenda /\ f.kind \in CallKinds
    BY DEF CallAgenda, CallKinds
  <2>2. e.time = now /\ f.time >= now /\ now \in Nat /\ f.time \in Nat
    BY <2>1 DEF Due, VoyageAgenda
  <2>3. f.time = now => StormPriority[e.kind] <= StormPriority[f.kind]
    BY <2>1 DEF Due
  <2>4. QED
    BY <2>1, <2>2, <2>3, SamePriority
<1>3. QED
  BY <1>1, <1>2 DEF Calling!Earliest, Calling!EventPriority, EventPriority

\* What a call does to the agenda it does to the calls on it.
LEMMA CallsOnAgenda ==
    ASSUME NEW e \in agenda,
           VesselArrived(e) \/ VesselUnberthed(e) \/ BerthReleased(e)
    PROVE  /\ agenda' = agenda \ {e} => CallAgenda' = CallAgenda \ {e}
           /\ \A v, p, t :
                 agenda' = (agenda \ {e}) \union {Unberthing(v, p, t)} =>
                 CallAgenda' = (CallAgenda \ {e}) \union {Calling!Unberthing(v, p, t)}
<1>1. ASSUME agenda' = agenda \ {e} PROVE CallAgenda' = CallAgenda \ {e}
  BY <1>1 DEF CallAgenda
<1>2. ASSUME NEW v, NEW p, NEW t,
             agenda' = (agenda \ {e}) \union {Unberthing(v, p, t)}
      PROVE  CallAgenda' = (CallAgenda \ {e}) \union {Calling!Unberthing(v, p, t)}
  <2>1. Unberthing(v, p, t) = Calling!Unberthing(v, p, t)
        /\ Unberthing(v, p, t).kind = "VESSEL_UNBERTHED"
    BY DEF Unberthing, Calling!Unberthing
  <2> DEFINE stay == Unberthing(v, p, t)
  <2>2. agenda' = (agenda \ {e}) \union {stay} /\ stay.kind = "VESSEL_UNBERTHED"
    BY <1>2, <2>1
  <2> HIDE DEF stay
  <2>3. CallAgenda' = (CallAgenda \ {e}) \union {stay}
    BY <2>2 DEF CallAgenda
  <2>4. QED
    BY <2>1, <2>3 DEF stay
<1>3. QED
  BY <1>1, <1>2

\* Every call is the call of module PortCalls.
LEMMA ArrivalRefines ==
    ASSUME NEW e \in agenda, VesselArrived(e) PROVE Calling!VesselArrived(e)
BY CallsOnAgenda, SMTT(30)
   DEF VesselArrived, Calling!VesselArrived, BerthFree, Calling!BerthFree,
       EffectiveBerths, Calling!EffectiveBerths

LEMMA ReleaseRefines ==
    ASSUME NEW e \in agenda, VesselUnberthed(e) \/ BerthReleased(e)
    PROVE  \/ VesselUnberthed(e) /\ Calling!VesselUnberthed(e)
           \/ BerthReleased(e) /\ Calling!BerthReleased(e)
<1>1. ASSUME NEW p, NEW stati, NEW taken, ServeQueue(p, e, stati, taken)
      PROVE  Calling!ServeQueue(p, e, stati, taken)
  BY <1>1, CallsOnAgenda, SMTT(30)
     DEF ServeQueue, Calling!ServeQueue, FirstInLine, Calling!FirstInLine,
         RestOfLine, Calling!RestOfLine
<1>2. ASSUME NEW p, NEW stati, NEW taken, ServeNobody(p, e, stati, taken)
      PROVE  Calling!ServeNobody(p, e, stati, taken)
  BY <1>2, CallsOnAgenda DEF ServeNobody, Calling!ServeNobody
<1>3. CASE VesselUnberthed(e)
  BY <1>1, <1>2, <1>3
     DEF VesselUnberthed, Calling!VesselUnberthed, BerthFree, Calling!BerthFree,
         EffectiveBerths, Calling!EffectiveBerths, AfterRelease, Calling!AfterRelease
<1>4. CASE BerthReleased(e)
  BY <1>1, <1>2, <1>4
     DEF BerthReleased, Calling!BerthReleased, AfterRelease, Calling!AfterRelease
<1>5. QED
  BY <1>3, <1>4

\* The seeded world is one of module PortCalls.
LEMMA SeededCalls == VoyageInit => Calling!Init
<1> SUFFICES ASSUME Init PROVE Calling!Init
  BY DEF VoyageInit
<1>1. \A e \in agenda : e.kind \in CallKinds
  BY DEF Init, CallKinds, Unberthing
<1>2. CallAgenda = agenda
  BY <1>1 DEF CallAgenda, CallKinds
<1>3. QED
  BY <1>2 DEF Init, Calling!Init, Unberthing, Calling!Unberthing

\* Whatever else happens, the ports do not see it.
LEMMA CallsUnseen ==
    ASSUME UNCHANGED <<now, status, occupied, queue, capacity, strike>>,
           \A e \in agenda' \ agenda : e.kind \notin CallKinds,
           \A e \in agenda \ agenda' : e.kind \notin CallKinds
    PROVE  UNCHANGED Calling!vars
<1>1. CallAgenda' = CallAgenda
  BY DEF CallAgenda, CallKinds
<1>2. QED
  BY <1>1 DEF Calling!vars

\* Storms, breakdowns, repairs and aborted advances change nothing at the ports:
\* every vessel calls at the hour its voyage began with. That is what the code
\* does, not what the specification document asks for (15.4); it carries over
\* what is proved of the ports.
THEOREM FairWeatherAtPorts == VoyageSpec => PortsAsIfFairWeather
<1>1. ASSUME VoyageInv, [VoyageNext]_voyageVars
      PROVE  [Calling!Next]_(Calling!vars)
  <2>1. VoyageAgenda
    BY <1>1 DEF VoyageInv
  <2>2. ASSUME NEW e \in agenda, Due(e), Arrive(e) \/ Unberth(e) \/ Release(e)
        PROVE  Calling!HandleEvent
    <3>1. VesselArrived(e) \/ VesselUnberthed(e) \/ BerthReleased(e)
      BY <2>2 DEF Arrive, Unberth, Release
    <3>2. e.kind \in CallKinds
      BY <3>1 DEF VesselArrived, VesselUnberthed, BerthReleased, CallKinds
    <3>3. e \in CallAgenda /\ Calling!Earliest(e)
      BY <2>1, <2>2, <3>2, DueIsEarliest
    <3>4. \/ Calling!VesselArrived(e) \/ Calling!VesselUnberthed(e)
          \/ Calling!BerthReleased(e)
      BY <3>1, ArrivalRefines, ReleaseRefines
    <3>5. QED
      BY <3>3, <3>4 DEF Calling!HandleEvent
  <2>3. ASSUME NEW e \in agenda,
               \/ StormBreaks(e) \/ StormRaises(e) \/ StormPasses(e)
               \/ BreakDown(e) \/ Recover(e)
        PROVE  UNCHANGED Calling!vars
    <3>1. /\ UNCHANGED <<now, status, occupied, queue, capacity, strike>>
          /\ e.kind \notin CallKinds
          /\ \A f \in agenda \ agenda' : f = e
      BY <2>3 DEF StormBreaks, StormRaises, StormPasses, BreakDown, Recover, CallKinds
    <3>2. \A f \in agenda' \ agenda : f.kind \in {"STORM_ENDED", "VESSEL_RECOVERED"}
      BY <2>3 DEF StormBreaks, StormRaises, StormPasses, BreakDown, Recover,
                  EndOf, Rescheduled, Repair, Vessel
    <3>3. QED
      BY <3>1, <3>2, CallsUnseen DEF CallKinds
  <2>4. CASE HourPasses
    BY <2>4 DEF HourPasses, TimePasses, Calling!Next, Calling!TimePasses, CallAgenda
  <2>5. ASSUME \/ AdvanceEnds
               \/ \E hours \in Steps : Advance(hours)
               \/ UNCHANGED voyageVars
        PROVE  UNCHANGED Calling!vars
    BY <2>5, CallsUnseen DEF AdvanceEnds, Advance, voyageVars, vars
  <2>6. ASSUME NEW d, NEW vessels, NEW severity, NEW hours,
               InjectStorm(d, vessels, severity, hours)
        PROVE  UNCHANGED Calling!vars
    BY <2>6, CallsUnseen DEF InjectStorm, CallKinds
  <2>7. ASSUME NEW v, NEW gap, DrawFailure(v, gap) PROVE UNCHANGED Calling!vars
    BY <2>7, CallsUnseen DEF DrawFailure, Vessel, CallKinds
  <2>8. CASE Handle
    BY <2>2, <2>3, <2>8 DEF Handle, Calling!Next
  <2>9. QED
    BY <1>1, <2>4, <2>5, <2>6, <2>7, <2>8, Zenon DEF VoyageNext
<1>2. QED
  BY <1>1, SeededCalls, VoyageInvariant, PTL
     DEF VoyageSpec, PortsAsIfFairWeather, Calling!Spec
=============================================================================
