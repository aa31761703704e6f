------------------------- MODULE DailyEngine_proofs -------------------------
(***************************************************************************)
(* What holds of the daily engine for any dataset and any plan: the status a*)
(* booking has been brought to day by day is the one its decision has for the*)
(* day, no box is lost on the way, the stock of every port is the one the plan*)
(* was made for, and the snapshot tells what the step has made.            *)
(***************************************************************************)
EXTENDS DailyEngine, Sums

\* The status the decision of a booking has for today
StatusToday(k) ==
    IF day >= Arrival(k) THEN "DELIVERED"
    ELSE IF day >= Departure(k) THEN "IN_TRANSIT"
    ELSE IF day >= Booked(k).ready THEN "CONFIRMED"
    ELSE "REQUESTED"

Early == {"REQUESTED", "CONFIRMED"}

StatusInv ==
    /\ data \in Datasets
    /\ day \in Days
    /\ \A k \in Bookings : path[k] # None => path[k] \in Network(data)[k]
    /\ status \in [Bookings -> Statuses]
    /\ delivered \in [Bookings -> Days \cup {None}]
    /\ NoErrors(data) =>
          \A k \in Bookings :
             /\ path[k] # None => status[k] = StatusToday(k)
             /\ path[k] = None => status[k] \in Early
             /\ delivered[k] # None <=> status[k] = "DELIVERED"

-----------------------------------------------------------------------------
LEMMA DatasetFields ==
    ASSUME NEW d \in Datasets
    PROVE  /\ d.legs \in Seq(Leg)
           /\ \A i \in DOMAIN d.legs : /\ d.legs[i].departure \in Int
                                       /\ d.legs[i].arrival \in Int
           /\ \A k \in Bookings : d.bookings[k].ready \in Int
<1>1. d.legs \in Seq(Leg) /\ d.bookings \in [Bookings -> Booking]
  BY EngineAssumption DEF Dataset
<1>2. \A i \in DOMAIN d.legs : d.legs[i] \in Leg
  BY <1>1
<1> QED  BY <1>1, <1>2 DEF Leg, Booking

(***************************************************************************)
(* A path of valid data takes time, and does not start before the cargo is *)
(* ready: a direct one because its legs are in order of departure, one     *)
(* with transshipments because each leg waits for the one before.          *)
(***************************************************************************)
LEMMA PathTakesTime ==
    ASSUME NEW d \in Datasets, NoErrors(d), NEW k \in Bookings, NEW p \in Network(d)[k]
    PROVE  /\ p.first \in DOMAIN d.legs /\ p.last \in DOMAIN d.legs
           /\ d.bookings[k].ready >= 1
           /\ d.bookings[k].ready <= d.legs[p.first].departure
           /\ d.legs[p.first].departure < d.legs[p.last].arrival
<1> DEFINE L == d.legs
           b == d.bookings[k]
<1>1. /\ \A i \in DOMAIN L : L[i].departure \in Int /\ L[i].arrival \in Int
      /\ b.ready \in Int
  BY DatasetFields
<1>2. \A i \in DOMAIN L : L[i].departure < L[i].arrival
  BY DEF NoErrors, VoyagesValid, LegValid
<1>3. b.ready >= 1
  BY DEF NoErrors, BookingsValid
<1>4. p \in DirectPaths(L, b) \/ p \in Transshipments(L, b)
  BY DEF Network, Paths
<1>5. CASE p \in DirectPaths(L, b)
  <2>1. PICK i, j \in DOMAIN L : /\ p = Path(Stretch(L, i, j), i, j)
                                 /\ i = j \/ Before(L, i, j)
                                 /\ L[i].departure >= b.ready
    BY <1>5 DEF DirectPaths
  <2>2. p.first = i /\ p.last = j
    BY <2>1 DEF Path
  <2>3. L[i].departure <= L[j].departure
    BY <1>1, <2>1 DEF Before
  <2> QED  BY <1>1, <1>2, <1>3, <2>1, <2>2, <2>3
<1>6. CASE p \in Transshipments(L, b)
  <2>1. FirstLegs(L, b) \subseteq {i \in DOMAIN L : L[i].departure >= b.ready}
    BY DEF FirstLegs
  <2>2. CASE \E i \in FirstLegs(L, b), j \in DOMAIN L :
                p = Path({i, j}, i, j) /\ Connects(L, b, i, j)
    <3>1. PICK i \in FirstLegs(L, b), j \in DOMAIN L :
             p = Path({i, j}, i, j) /\ Connects(L, b, i, j)
      BY <2>2
    <3>2. p.first = i /\ p.last = j /\ L[j].departure >= L[i].arrival
      BY <3>1 DEF Path, Connects
    <3> QED  BY <1>1, <1>2, <1>3, <2>1, <3>1, <3>2
  <2>3. CASE \E i \in FirstLegs(L, b), j, m \in DOMAIN L :
                p = Path({i, j, m}, i, m) /\ Connects(L, b, i, j) /\ Connects(L, b, j, m)
    <3>1. PICK i \in FirstLegs(L, b), j \in DOMAIN L, m \in DOMAIN L :
             p = Path({i, j, m}, i, m) /\ Connects(L, b, i, j) /\ Connects(L, b, j, m)
      BY <2>3
    <3>2. /\ p.first = i /\ p.last = m
          /\ L[j].departure >= L[i].arrival /\ L[m].departure >= L[j].arrival
      BY <3>1 DEF Path, Connects
    <3> QED  BY <1>1, <1>2, <1>3, <2>1, <3>1, <3>2
  <2> QED  BY <1>6, <2>2, <2>3 DEF Transshipments
<1> QED  BY <1>4, <1>5, <1>6

-----------------------------------------------------------------------------
LEMMA PlanHasTheNetwork ==
    ASSUME NEW d \in Datasets, NEW pl \in Plans(d, MaxEmpties), NEW k \in Bookings
    PROVE  PathsOf(pl, k) = Network(d)[k]
<1>1. CASE pl = Nothing(Network(d), DOMAIN d.legs)
  BY <1>1 DEF Nothing, PathsOf
<1>2. CASE pl # Nothing(Network(d), DOMAIN d.legs)
  <2>1. pl.booked[k] \in Allocations(d.bookings[k].quantity, Network(d)[k])
    BY <1>2 DEF Plans
  <2> QED  BY <2>1 DEF Allocations, PathsOf
<1> QED  BY <1>1, <1>2

LEMMA InitStatus == Init => StatusInv
<1> SUFFICES ASSUME Init PROVE StatusInv
  OBVIOUS
<1>1. data \in Datasets /\ plan \in Plans(data, MaxEmpties) /\ day = 0
  BY DEF Init
<1>2. \A k \in Bookings : path[k] # None => path[k] \in Network(data)[k]
  <2> SUFFICES ASSUME NEW k \in Bookings, path[k] # None PROVE path[k] \in Network(data)[k]
    OBVIOUS
  <2>1. path[k] \in FirstUsed(data, plan, k)
    BY DEF Init
  <2>2. path[k] \in Used(plan, k)
    BY <2>1 DEF FirstUsed
  <2> QED  BY <1>1, <2>2, PlanHasTheNetwork DEF Used
<1>3. day \in Days
  BY <1>1, HorizonAssumption DEF Days
<1>4. /\ status = [k \in Bookings |-> "REQUESTED"]
      /\ delivered = [k \in Bookings |-> None]
  BY DEF Init
<1>5. ASSUME NoErrors(data), NEW k \in Bookings, path[k] # None
      PROVE  StatusToday(k) = "REQUESTED"
  <2>1. /\ Departure(k) \in Int /\ Arrival(k) \in Int
        /\ Booked(k).ready \in Int /\ Booked(k).ready >= 1
        /\ Booked(k).ready <= Departure(k) /\ Departure(k) < Arrival(k)
    BY <1>1, <1>2, <1>5, PathTakesTime, DatasetFields DEF Departure, Arrival, Booked
  <2> QED  BY <1>1, <2>1 DEF StatusToday
<1> QED  BY <1>1, <1>2, <1>3, <1>4, <1>5 DEF StatusInv, Statuses, Early

-----------------------------------------------------------------------------
(***************************************************************************)
(* A day brings every booking to the status of the new day.                *)
(***************************************************************************)
LEMMA StepStatus == StatusInv /\ Step => StatusInv'
<1> SUFFICES ASSUME StatusInv, Step PROVE StatusInv'
  OBVIOUS
<1>1. /\ data' = data /\ path' = path
      /\ day' = day + 1 /\ day \in Int /\ day >= 0 /\ day' \in Days
  BY HorizonAssumption DEF StatusInv, Step, fixed, Days
<1>2. /\ status' = [k \in Bookings |-> StatusAfter(k, day')]
      /\ delivered' = [k \in Bookings |-> IF Lands(k, day') THEN day' ELSE delivered[k]]
  BY DEF Step
<1>3. status' \in [Bookings -> Statuses]
  BY <1>2 DEF StatusInv, StatusAfter, Statuses
<1>4. delivered' \in [Bookings -> Days \cup {None}]
  BY <1>1, <1>2 DEF StatusInv
<1>5. ASSUME NoErrors(data), NEW k \in Bookings
      PROVE  /\ path[k] # None => status'[k] = StatusToday(k)'
             /\ path[k] = None => status'[k] \in Early
             /\ delivered'[k] # None <=> status'[k] = "DELIVERED"
  <2>1. status'[k] = StatusAfter(k, day') /\ status[k] \in Statuses
    BY <1>2 DEF StatusInv
  <2>2. delivered'[k] = IF Lands(k, day') THEN day' ELSE delivered[k]
    BY <1>2
  <2>3. delivered[k] # None <=> status[k] = "DELIVERED"
    BY <1>5 DEF StatusInv
  <2>4. day' # None
    BY <1>1, EngineAssumption
  <2>5. CASE path[k] = None
    <3>1. ~Lands(k, day') /\ ~Sails(k, day') /\ status[k] \in Early
      BY <1>5, <2>5 DEF Lands, Sails, StatusInv
    <3> QED  BY <2>1, <2>2, <2>3, <2>5, <3>1 DEF StatusAfter, Early
  <2>6. CASE path[k] # None
    <3>1. path[k] \in Network(data)[k] /\ data \in Datasets
      BY <2>6 DEF StatusInv
    <3>2. /\ Departure(k) \in Int /\ Arrival(k) \in Int
          /\ Booked(k).ready \in Int /\ Booked(k).ready >= 1
          /\ Booked(k).ready <= Departure(k) /\ Departure(k) < Arrival(k)
      BY <1>5, <3>1, PathTakesTime, DatasetFields DEF Departure, Arrival, Booked
    <3>3. /\ Lands(k, day') <=> Arrival(k) = day'
          /\ Sails(k, day') <=> Departure(k) = day'
      BY <2>6 DEF Lands, Sails
    <3>4. /\ Departure(k)' = Departure(k) /\ Arrival(k)' = Arrival(k)
          /\ Booked(k)' = Booked(k)
      BY <1>1 DEF Departure, Arrival, Booked
    <3>5. status[k] = StatusToday(k)
      BY <1>5, <2>6 DEF StatusInv
    <3>6. status'[k] = StatusToday(k)'
      BY <1>1, <2>1, <3>2, <3>3, <3>4, <3>5 DEF StatusToday, StatusAfter
    <3>7. delivered'[k] # None <=> status'[k] = "DELIVERED"
      BY <1>1, <2>2, <2>3, <2>4, <3>2, <3>3, <3>4, <3>5, <3>6 DEF StatusToday
    <3> QED  BY <2>6, <3>6, <3>7
  <2> QED  BY <2>5, <2>6
<1>6. StatusInv'
  BY <1>1, <1>3, <1>4, <1>5 DEF StatusInv
<1> QED  BY <1>6

LEMMA StutterStatus == StatusInv /\ UNCHANGED vars => StatusInv'
BY DEF StatusInv, vars, StatusToday, Departure, Arrival, Booked

LEMMA StatusInvariant == Spec => []StatusInv
<1>1. StatusInv /\ [Next]_vars => StatusInv'
  BY StepStatus, StutterStatus DEF Next
<1> QED  BY InitStatus, <1>1, PTL DEF Spec

-----------------------------------------------------------------------------
(***************************************************************************)
(* Directive and status of a booking agree on every day.                   *)
(***************************************************************************)
LEMMA StatusGivesDirective == StatusInv => DirectiveMatchesStatus
<1> SUFFICES ASSUME StatusInv, NoErrors(data), NEW k \in Bookings, path[k] # None
             PROVE  /\ status[k] = "DELIVERED" <=> Directive(k) = "DELIVERED"
                    /\ status[k] = "IN_TRANSIT" =>
                          \/ Directive(k) \in {"LOAD_VESSEL_TODAY", "IN_TRANSIT"}
                          \/ Directive(k) = "DISPATCH_NOW" /\ Departure(k) = day
                    /\ status[k] = "REQUESTED" => Directive(k) = "UPCOMING"
                    /\ status[k] = "CONFIRMED" =>
                          Directive(k) \in {"DISPATCH_NOW", "UPCOMING"} /\ Departure(k) # day
                    /\ delivered[k] # None <=> status[k] = "DELIVERED"
  BY DEF DirectiveMatchesStatus
<1>1. path[k] \in Network(data)[k] /\ data \in Datasets /\ day \in Int
  BY DEF StatusInv, Days
<1>2. /\ Departure(k) \in Int /\ Arrival(k) \in Int
      /\ Booked(k).ready \in Int /\ Booked(k).ready >= 1
      /\ Booked(k).ready <= Departure(k) /\ Departure(k) < Arrival(k)
  BY <1>1, PathTakesTime, DatasetFields DEF Departure, Arrival, Booked
<1>3. status[k] = StatusToday(k) /\ (delivered[k] # None <=> status[k] = "DELIVERED")
  BY DEF StatusInv
<1> QED  BY <1>1, <1>2, <1>3 DEF StatusToday, Directive

\* What an operator is told of a booking and its status agree on every day of
\* every run over data the validator passes.
THEOREM DirectivesAgree == Spec => []DirectiveMatchesStatus
BY StatusInvariant, StatusGivesDirective, PTL

-----------------------------------------------------------------------------
LEMMA StepForward ==
    StatusInv /\ [Next]_vars /\ NoErrors(data)
       => \A k \in Bookings : Rank[status[k]] <= Rank[status'[k]]
<1> SUFFICES ASSUME StatusInv, [Next]_vars, NoErrors(data), NEW k \in Bookings
             PROVE  Rank[status[k]] <= Rank[status'[k]]
  OBVIOUS
<1>1. /\ Rank["REQUESTED"] = 1 /\ Rank["CONFIRMED"] = 2
      /\ Rank["IN_TRANSIT"] = 3 /\ Rank["DELIVERED"] = 4
  BY DEF Rank
<1>2. status[k] \in Statuses
  BY DEF StatusInv
<1>3. CASE UNCHANGED vars
  <2>1. status'[k] = status[k]
    BY <1>3 DEF vars
  <2> QED  BY <1>1, <1>2, <2>1 DEF Statuses
<1>4. CASE Step
  <2>1. status'[k] = StatusAfter(k, day')
    BY <1>4 DEF Step, StatusInv
  <2>2. CASE path[k] = None
    <3>1. status'[k] = status[k] \/ (status[k] = "REQUESTED" /\ status'[k] = "CONFIRMED")
      BY <2>1, <2>2 DEF StatusAfter, Lands, Sails
    <3> QED  BY <1>1, <1>2, <3>1 DEF Statuses
  <2>3. CASE path[k] # None
    <3>1. StatusInv' /\ data' = data /\ path' = path /\ day' = day + 1 /\ day \in Int
      BY <1>4, StepStatus DEF Step, fixed, StatusInv, Days
    <3>2. /\ status[k] = StatusToday(k) /\ status'[k] = StatusToday(k)'
      BY <2>3, <3>1 DEF StatusInv
    <3>3. /\ Departure(k)' = Departure(k) /\ Arrival(k)' = Arrival(k)
          /\ Booked(k)' = Booked(k)
      BY <3>1 DEF Departure, Arrival, Booked
    <3>4. /\ Departure(k) \in Int /\ Arrival(k) \in Int /\ Booked(k).ready \in Int
          /\ Booked(k).ready <= Departure(k) /\ Departure(k) < Arrival(k)
      <4>1. path[k] \in Network(data)[k] /\ data \in Datasets
        BY <2>3 DEF StatusInv
      <4> QED  BY <4>1, PathTakesTime, DatasetFields DEF Departure, Arrival, Booked
    <3> QED  BY <1>1, <3>1, <3>2, <3>3, <3>4 DEF StatusToday
  <2> QED  BY <2>2, <2>3
<1> QED  BY <1>3, <1>4 DEF Next

\* No booking ever goes back to a status it has left, over data the validator
\* passes.
THEOREM StatusForward == Spec => StatusMovesForward
<1>1. StatusInv /\ [Next]_vars
        => [NoErrors(data) => \A k \in Bookings : Rank[status[k]] <= Rank[status'[k]]]_vars
  BY StepForward
<1> QED  BY StatusInvariant, <1>1, PTL DEF Spec, StatusMovesForward

-----------------------------------------------------------------------------
(***************************************************************************)
(* The safety half of RunCompletes: no arrival is missed on the way, so    *)
(* that all that is left at the horizon is that the run gets there.        *)
(***************************************************************************)
LandedOnTime ==
    NoErrors(data) => \A k \in Bookings :
       path[k] # None /\ delivered[k] # None => delivered[k] = Arrival(k)

LEMMA InitOnTime == Init => LandedOnTime
BY DEF Init, LandedOnTime

\* The day of delivery is written on the day of arrival, and on no other.
LEMMA StepOnTime == LandedOnTime /\ [Next]_vars => LandedOnTime'
<1> SUFFICES ASSUME LandedOnTime, [Next]_vars, NoErrors(data)', NEW k \in Bookings,
                    path'[k] # None, delivered'[k] # None
             PROVE  delivered'[k] = Arrival(k)'
  BY DEF LandedOnTime
<1>1. data' = data /\ path' = path
  BY DEF Next, Step, fixed, vars
<1>2. Arrival(k)' = Arrival(k) /\ (Lands(k, day')  => Arrival(k) = day')
  BY <1>1 DEF Arrival, Lands
<1>3. delivered[k] # None => delivered[k] = Arrival(k)
  BY <1>1 DEF LandedOnTime
<1>4. CASE Step
  <2>1. delivered'[k] = IF Lands(k, day') THEN day' ELSE delivered[k]
    BY <1>4 DEF Step
  <2> QED  BY <1>2, <1>3, <2>1
<1>5. CASE UNCHANGED vars
  BY <1>2, <1>3, <1>5 DEF vars
<1> QED  BY <1>4, <1>5 DEF Next

\* A booking whose path has it arrive by today is DELIVERED, with that day as
\* its day of delivery, on every day of every run over data the validator passes.
THEOREM DeliveriesAreOnTime == Spec => []DueIsDelivered
<1>1. StatusInv /\ LandedOnTime => DueIsDelivered
  <2> SUFFICES ASSUME StatusInv, LandedOnTime, NoErrors(data), NEW k \in Bookings,
                      path[k] # None, Arrival(k) <= day
               PROVE  status[k] = "DELIVERED" /\ delivered[k] = Arrival(k)
    BY DEF DueIsDelivered
  <2>1. day >= Arrival(k)
    <3>1. path[k] \in Network(data)[k] /\ data \in Datasets /\ day \in Int
      BY DEF StatusInv, Days
    <3>2. Arrival(k) \in Int
      BY <3>1, PathTakesTime, DatasetFields DEF Arrival
    <3> QED  BY <3>1, <3>2
  <2>2. status[k] = "DELIVERED" /\ delivered[k] # None
    BY <2>1 DEF StatusInv, StatusToday
  <2> QED  BY <2>2 DEF LandedOnTime
<1> QED  BY StatusInvariant, InitOnTime, StepOnTime, <1>1, PTL DEF Spec

-----------------------------------------------------------------------------
(***************************************************************************)
(* Plans and datasets are made of finitely many numbers.                   *)
(***************************************************************************)
LEMMA LegsOf ==
    ASSUME NEW d \in Datasets
    PROVE  /\ IsFiniteSet(DOMAIN d.legs)
           /\ \A i \in DOMAIN d.legs : /\ d.legs[i].from \in Ports /\ d.legs[i].to \in Ports
                                       /\ d.legs[i].vessel \in Vessels
                                       /\ d.legs[i].departure \in Int
                                       /\ d.legs[i].arrival \in Int
                                       /\ d.legs[i].teu \in Int
                                       /\ d.legs[i].booked_teu \in Int
           /\ \A k \in Bookings : /\ d.bookings[k].origin \in Ports
                                  /\ d.bookings[k].destination \in Ports
                                  /\ d.bookings[k].type \in Types
                                  /\ d.bookings[k].quantity \in Int
           /\ \A p \in Ports : d.ports[p].lead \in Int
           /\ d.stock \in [Ports -> [Types -> Int]]
<1>1. d \in Dataset
  BY EngineAssumption
<1>2. /\ d.legs \in Seq(Leg) /\ d.bookings \in [Bookings -> Booking]
      /\ d.ports \in [Ports -> Port] /\ d.stock \in [Ports -> [Types -> Int]]
  BY <1>1 DEF Dataset
<1>3. Len(d.legs) \in Nat /\ DOMAIN d.legs = 1..Len(d.legs)
  BY <1>2
<1>4. IsFiniteSet(DOMAIN d.legs)
  <2>1. IsFiniteSet(1..Len(d.legs))
    BY <1>3, FS_Interval
  <2> QED  BY <1>3, <2>1
<1>5. \A i \in DOMAIN d.legs : d.legs[i] \in Leg
  BY <1>2
<1> QED  BY <1>2, <1>4, <1>5 DEF Leg, Booking, Port

LEMMA PlanShape ==
    ASSUME NEW d \in Datasets, NEW pl \in Plans(d, MaxEmpties)
    PROVE  /\ \A k \in Bookings : \A p \in PathsOf(pl, k) :
                 /\ pl.booked[k][p].own \in Nat /\ pl.booked[k][p].lease \in Nat
                 /\ Units(pl.booked[k][p]) \in Nat
                 /\ pl.booked[k][p].own + pl.booked[k][p].lease = Units(pl.booked[k][p])
           /\ pl.empties \in [DOMAIN d.legs -> [Types -> Nat]]
           /\ pl.solved => Feasible(d, pl)
<1>0. \A n : \A i \in 0..n : i \in Nat
  OBVIOUS
<1>1. CASE pl = Nothing(Network(d), DOMAIN d.legs)
  <2>1. \A k \in Bookings : \A p \in PathsOf(pl, k) :
           pl.booked[k][p].own = 0 /\ pl.booked[k][p].lease = 0
    BY <1>1 DEF Nothing, PathsOf
  <2>2. pl.empties \in [DOMAIN d.legs -> [Types -> Nat]] /\ pl.solved = FALSE
    BY <1>1 DEF Nothing
  <2> QED  BY <2>1, <2>2 DEF Units
<1>2. CASE pl # Nothing(Network(d), DOMAIN d.legs)
  <2>1. \A k \in Bookings :
           pl.booked[k] \in Allocations(d.bookings[k].quantity, Network(d)[k])
    BY <1>2 DEF Plans
  <2>2. /\ pl.empties \in [DOMAIN d.legs -> [Types -> 0..MaxEmpties]]
        /\ Feasible(d, pl)
    BY <1>2 DEF Plans
  <2>3. \A k \in Bookings : \A p \in PathsOf(pl, k) :
           pl.booked[k][p].own \in Nat /\ pl.booked[k][p].lease \in Nat
    BY <2>1, <1>0 DEF Allocations, PathsOf
  <2>4. pl.empties \in [DOMAIN d.legs -> [Types -> Nat]]
    BY <2>2, <1>0
  <2> QED  BY <2>2, <2>3, <2>4 DEF Units
<1> QED  BY <1>1, <1>2

-----------------------------------------------------------------------------
(***************************************************************************)
(* What the run keeps of its boxes: an entry of the devanning queue is of  *)
(* a booking that has landed, so that no two days queue the same.          *)
(***************************************************************************)
BoxesInv ==
    /\ StatusInv
    /\ plan \in Plans(data, MaxEmpties)
    /\ path \in [Bookings -> UNION {FirstUsed(data, plan, k) : k \in Bookings}]
    /\ \A k \in Bookings : path[k] \in FirstUsed(data, plan, k)
    /\ stock \in [Ports -> [Types -> Int]]
    /\ IsFiniteSet(devanning)
    /\ \A e \in devanning : /\ e.booking \in Bookings /\ e.port \in Ports /\ e.type \in Types
                            /\ e.day \in Int /\ e.quantity \in Nat
                            /\ path[e.booking] # None /\ Arrival(e.booking) <= day

LEMMA DecisionsOfPlan ==
    ASSUME BoxesInv, NEW k \in Bookings
    PROVE  /\ path[k] # None =>
                 /\ path[k] \in PathsOf(plan, k) /\ path[k] \in Used(plan, k)
                 /\ Owned(k) \in Nat /\ plan.booked[k][path[k]].lease \in Nat
           /\ path[k] = None => Used(plan, k) = {}
<1>1. /\ path[k] \in FirstUsed(data, plan, k)
      /\ data \in Datasets /\ plan \in Plans(data, MaxEmpties)
  BY DEF BoxesInv, StatusInv
<1>2. None \notin Used(plan, k)
  BY <1>1, PlanHasTheNetwork, EngineAssumption DEF Used
<1>3. CASE Used(plan, k) = {}
  BY <1>1, <1>3 DEF FirstUsed
<1>4. CASE Used(plan, k) # {}
  <2>1. path[k] \in Used(plan, k)
    BY <1>1, <1>4 DEF FirstUsed
  <2> QED  BY <1>1, <1>2, <2>1, PlanShape DEF Used, Owned
<1> QED  BY <1>3, <1>4

\* Where a path starts and ends
LEMMA EndsOfPath ==
    ASSUME NEW d \in Datasets, NEW k \in Bookings, NEW p \in Network(d)[k]
    PROVE  /\ p.first \in DOMAIN d.legs /\ p.last \in DOMAIN d.legs
           /\ p.legs \subseteq DOMAIN d.legs
           /\ p = Path(p.legs, p.first, p.last)
<1> DEFINE L == d.legs
           b == d.bookings[k]
<1>1. p \in DirectPaths(L, b) \/ p \in Transshipments(L, b)
  BY DEF Network, Paths
<1>2. CASE p \in DirectPaths(L, b)
  <2>1. PICK i, j \in DOMAIN L : p = Path(Stretch(L, i, j), i, j)
    BY <1>2 DEF DirectPaths
  <2>2. Stretch(L, i, j) \subseteq DOMAIN L
    BY DEF Stretch
  <2> QED  BY <2>1, <2>2 DEF Path
<1>3. CASE p \in Transshipments(L, b)
  <2>0. FirstLegs(L, b) \subseteq DOMAIN L
    BY DEF FirstLegs
  <2>1. \/ \E i \in FirstLegs(L, b), j \in DOMAIN L : p = Path({i, j}, i, j)
        \/ \E i \in FirstLegs(L, b), j \in DOMAIN L, m \in DOMAIN L : p = Path({i, j, m}, i, m)
    BY <1>3 DEF Transshipments
  <2> QED  BY <2>0, <2>1 DEF Path
<1> QED  BY <1>1, <1>2, <1>3

\* A booking with a decision: where and when it goes.
LEMMA VoyageOfBooking ==
    ASSUME BoxesInv, NEW k \in Bookings
    PROVE  /\ Booked(k).origin \in Ports /\ Booked(k).destination \in Ports
           /\ Booked(k).type \in Types /\ Booked(k).quantity \in Int
           /\ path[k] # None => /\ Departure(k) \in Int /\ Arrival(k) \in Int
                                /\ path[k].first \in DOMAIN data.legs
                                /\ path[k].last \in DOMAIN data.legs
                                /\ path[k].legs \subseteq DOMAIN data.legs
           /\ path[k] # None /\ NoErrors(data) => Departure(k) < Arrival(k)
<1>1. data \in Datasets /\ (path[k] # None => path[k] \in Network(data)[k])
  BY DEF BoxesInv, StatusInv
<1>2. path[k] # None => /\ path[k].first \in DOMAIN data.legs
                        /\ path[k].last \in DOMAIN data.legs
                        /\ path[k].legs \subseteq DOMAIN data.legs
  BY <1>1, EndsOfPath
<1>3. path[k] # None /\ NoErrors(data) => Departure(k) < Arrival(k)
  BY <1>1, PathTakesTime DEF Departure, Arrival
<1> QED  BY <1>1, <1>2, <1>3, LegsOf DEF Booked, Departure, Arrival

-----------------------------------------------------------------------------
(***************************************************************************)
(* What a day moves at one port, as sums of one function over sets         *)
(***************************************************************************)
EmptiesOf(t) == [i \in DOMAIN data.legs |-> plan.empties[i][t]]
OwnedOf == [k \in Bookings |-> Owned(k)]

DepartingFrom(p, n) ==
    {i \in DOMAIN data.legs : data.legs[i].from = p /\ data.legs[i].departure = n}
ArrivingAt(p, n) ==
    {i \in DOMAIN data.legs : data.legs[i].to = p /\ data.legs[i].arrival = n}
SailingFrom(p, t, n) ==
    {k \in Bookings : Sails(k, n) /\ Booked(k).origin = p /\ Booked(k).type = t}
DevannedAt(p, t, n) == {e \in devanning : e.port = p /\ e.type = t /\ e.day = n}

QuantityIn(Q) == [e \in Q |-> e.quantity]

LEMMA FlowsAreSums ==
    ASSUME BoxesInv, NEW p, NEW t \in Types, NEW n
    PROVE  /\ EmptiesOut(p, t, n) = SumFunctionOnSet(EmptiesOf(t), DepartingFrom(p, n))
           /\ EmptiesOut(p, t, n) \in Int
           /\ EmptiesIn(p, t, n) = SumFunctionOnSet(EmptiesOf(t), ArrivingAt(p, n))
           /\ EmptiesIn(p, t, n) \in Int
           /\ LadenOut(p, t, n) = SumFunctionOnSet(OwnedOf, SailingFrom(p, t, n))
           /\ LadenOut(p, t, n) \in Int
           /\ Devanned(p, t, n)
                = SumFunctionOnSet(QuantityIn(devanning), DevannedAt(p, t, n))
           /\ Devanned(p, t, n) \in Int
<1>0. /\ data \in Datasets /\ plan \in Plans(data, MaxEmpties)
      /\ IsFiniteSet(DOMAIN data.legs) /\ IsFiniteSet(Bookings) /\ IsFiniteSet(devanning)
  BY LegsOf, NetworkAssumption DEF BoxesInv, StatusInv
<1>1. \A i \in DOMAIN data.legs : EmptiesOf(t)[i] \in Int /\ EmptiesOf(t)[i] = plan.empties[i][t]
  BY <1>0, PlanShape DEF EmptiesOf
<1>2. /\ EmptiesOut(p, t, n) = SumFunctionOnSet(EmptiesOf(t), DepartingFrom(p, n))
      /\ EmptiesOut(p, t, n) \in Int
  <2> DEFINE S == DepartingFrom(p, n)
             g == [i \in S |-> plan.empties[i][t]]
  <2>1. /\ IsFiniteSet(S) /\ \A i \in S : EmptiesOf(t)[i] \in Int /\ g[i] = EmptiesOf(t)[i]
        /\ DOMAIN g = S
    BY <1>0, <1>1, FS_Subset DEF DepartingFrom
  <2>2. EmptiesOut(p, t, n) = SumFunction(g)
    BY DEF EmptiesOut, DepartingFrom
  <2> HIDE DEF S, g
  <2>3. SumFunction(g) = SumFunctionOnSet(EmptiesOf(t), S) /\ SumFunction(g) \in Int
    BY <2>1, TotalIsSumOn
  <2> QED  BY <2>2, <2>3 DEF S
<1>3. /\ EmptiesIn(p, t, n) = SumFunctionOnSet(EmptiesOf(t), ArrivingAt(p, n))
      /\ EmptiesIn(p, t, n) \in Int
  <2> DEFINE S == ArrivingAt(p, n)
             g == [i \in S |-> plan.empties[i][t]]
  <2>1. /\ IsFiniteSet(S) /\ \A i \in S : EmptiesOf(t)[i] \in Int /\ g[i] = EmptiesOf(t)[i]
        /\ DOMAIN g = S
    BY <1>0, <1>1, FS_Subset DEF ArrivingAt
  <2>2. EmptiesIn(p, t, n) = SumFunction(g)
    BY DEF EmptiesIn, ArrivingAt
  <2> HIDE DEF S, g
  <2>3. SumFunction(g) = SumFunctionOnSet(EmptiesOf(t), S) /\ SumFunction(g) \in Int
    BY <2>1, TotalIsSumOn
  <2> QED  BY <2>2, <2>3 DEF S
<1>4. /\ LadenOut(p, t, n) = SumFunctionOnSet(OwnedOf, SailingFrom(p, t, n))
      /\ LadenOut(p, t, n) \in Int
  <2> DEFINE S == SailingFrom(p, t, n)
             g == [k \in S |-> Owned(k)]
  <2>1. S \subseteq Bookings /\ \A k \in S : Owned(k) \in Int
    BY DecisionsOfPlan DEF SailingFrom, Sails
  <2>2. /\ IsFiniteSet(S) /\ \A k \in S : OwnedOf[k] \in Int /\ g[k] = OwnedOf[k]
        /\ DOMAIN g = S
    BY <1>0, <2>1, FS_Subset DEF OwnedOf
  <2>3. LadenOut(p, t, n) = SumFunction(g)
    BY DEF LadenOut, SailingFrom
  <2> HIDE DEF S, g
  <2>4. SumFunction(g) = SumFunctionOnSet(OwnedOf, S) /\ SumFunction(g) \in Int
    BY <2>2, TotalIsSumOn
  <2> QED  BY <2>3, <2>4 DEF S
<1>5. /\ Devanned(p, t, n) = SumFunctionOnSet(QuantityIn(devanning), DevannedAt(p, t, n))
      /\ Devanned(p, t, n) \in Int
  <2> DEFINE S == DevannedAt(p, t, n)
             g == [e \in S |-> e.quantity]
             q == QuantityIn(devanning)
  <2>1. S \subseteq devanning /\ \A e \in S : e.quantity \in Int
    BY DEF DevannedAt, BoxesInv
  <2>2. IsFiniteSet(S) /\ (\A e \in S : q[e] \in Int /\ g[e] = q[e]) /\ DOMAIN g = S
    BY <1>0, <2>1, FS_Subset DEF QuantityIn
  <2>3. Devanned(p, t, n) = SumFunction(g)
    BY DEF Devanned, DevannedAt
  <2> HIDE DEF S, g, q
  <2>4. SumFunction(g) = SumFunctionOnSet(q, S) /\ SumFunction(g) \in Int
    BY <2>2, TotalIsSumOn
  <2> QED  BY <2>3, <2>4 DEF S, q
<1> QED  BY <1>2, <1>3, <1>4, <1>5

LEMMA InitBoxes == Init => BoxesInv
<1> SUFFICES ASSUME Init PROVE BoxesInv
  OBVIOUS
<1>1. StatusInv
  BY InitStatus
<1>2. data \in Datasets /\ stock = data.stock
  BY DEF Init
<1>3. stock \in [Ports -> [Types -> Int]]
  BY <1>2, LegsOf
<1>4. /\ plan \in Plans(data, MaxEmpties)
      /\ path \in [Bookings -> UNION {FirstUsed(data, plan, k) : k \in Bookings}]
      /\ \A k \in Bookings : path[k] \in FirstUsed(data, plan, k)
      /\ devanning = {}
  BY DEF Init
<1> QED  BY <1>1, <1>3, <1>4, FS_EmptySet DEF BoxesInv

\* What is queued today
LEMMA QueuedEntries ==
    ASSUME BoxesInv, NEW n \in Int
    PROVE  /\ IsFiniteSet(Queued(n))
           /\ \A e \in Queued(n) :
                 /\ e.booking \in Bookings /\ Lands(e.booking, n) /\ Owned(e.booking) > 0
                 /\ e.port = Booked(e.booking).destination
                 /\ e.type = Booked(e.booking).type
                 /\ e.day = n + data.ports[e.port].lead
                 /\ e.quantity = Owned(e.booking)
                 /\ e.port \in Ports /\ e.type \in Types
                 /\ e.day \in Int /\ e.quantity \in Nat
<1> DEFINE S == {k \in Bookings : Lands(k, n) /\ Owned(k) > 0}
           entry == [k \in S |-> [booking |-> k, port |-> Booked(k).destination,
                       type |-> Booked(k).type,
                       day |-> n + data.ports[Booked(k).destination].lead,
                       quantity |-> Owned(k)]]
<1>1. Queued(n) = {entry[k] : k \in S}
  BY DEF Queued
<1>2. IsFiniteSet(S)
  BY NetworkAssumption, FS_Subset
<1>3. IsFiniteSet(Queued(n))
  <2>1. entry \in Surjection(S, Queued(n))
    BY <1>1 DEF Surjection
  <2> HIDE DEF S, entry
  <2> QED  BY <1>2, <2>1, FS_Surjection
<1>4. ASSUME NEW k \in S
      PROVE  /\ Booked(k).destination \in Ports /\ Booked(k).type \in Types
             /\ Owned(k) \in Nat
             /\ n + data.ports[Booked(k).destination].lead \in Int
  <2>1. Booked(k).destination \in Ports /\ Booked(k).type \in Types
    BY VoyageOfBooking
  <2>2. data \in Datasets
    BY DEF BoxesInv, StatusInv
  <2>3. data.ports[Booked(k).destination].lead \in Int
    BY <2>1, <2>2, LegsOf
  <2>4. Owned(k) \in Nat
    BY DecisionsOfPlan DEF Lands
  <2> QED  BY <2>1, <2>3, <2>4
<1> QED  BY <1>1, <1>3, <1>4

LEMMA StepBoxes == BoxesInv /\ Step => BoxesInv'
<1> SUFFICES ASSUME BoxesInv, Step PROVE BoxesInv'
  OBVIOUS
<1>1. StatusInv'
  BY StepStatus DEF BoxesInv
<1>2. /\ data' = data /\ plan' = plan /\ path' = path
      /\ day' = day + 1 /\ day \in Int /\ day' \in Int
  BY DEF BoxesInv, StatusInv, Step, fixed, Days
<1>3. /\ stock' = StockAfter(day') /\ devanning' = QueueAfter(day')
  BY DEF Step
<1>4. stock' \in [Ports -> [Types -> Int]]
  <2>1. \A p \in Ports, t \in Types : stock[p][t] \in Int
    BY DEF BoxesInv
  <2>2. ASSUME NEW p \in Ports, NEW t \in Types
        PROVE  stock[p][t] + Devanned(p, t, day') - EmptiesOut(p, t, day')
                  + EmptiesIn(p, t, day') - LadenOut(p, t, day') \in Int
    BY <2>1, FlowsAreSums
  <2> QED  BY <1>3, <2>2 DEF StockAfter
<1>5. IsFiniteSet(devanning')
  <2>1. IsFiniteSet({e \in devanning : e.day # day'})
    BY FS_Subset DEF BoxesInv
  <2> QED  BY <1>2, <1>3, <2>1, QueuedEntries, FS_Union DEF QueueAfter
<1>6. ASSUME NEW e \in devanning'
      PROVE  /\ e.booking \in Bookings /\ e.port \in Ports /\ e.type \in Types
             /\ e.day \in Int /\ e.quantity \in Nat
             /\ path[e.booking] # None /\ Arrival(e.booking) <= day'
  <2>1. e \in devanning \/ e \in Queued(day')
    BY <1>3 DEF QueueAfter
  <2>2. CASE e \in devanning
    <3>1. /\ e.booking \in Bookings /\ e.port \in Ports /\ e.type \in Types
          /\ e.day \in Int /\ e.quantity \in Nat
          /\ path[e.booking] # None /\ Arrival(e.booking) <= day
      BY <2>2 DEF BoxesInv
    <3>2. Arrival(e.booking) \in Int
      BY <3>1, VoyageOfBooking
    <3> QED  BY <1>2, <3>1, <3>2
  <2>3. CASE e \in Queued(day')
    <3>1. /\ e.booking \in Bookings /\ e.port \in Ports /\ e.type \in Types
          /\ e.day \in Int /\ e.quantity \in Nat /\ Lands(e.booking, day')
      BY <1>2, <2>3, QueuedEntries
    <3> QED  BY <1>2, <3>1 DEF Lands
  <2> QED  BY <2>1, <2>2, <2>3
<1>7. \A e \in devanning' : Arrival(e.booking)' = Arrival(e.booking)
  BY <1>2 DEF Arrival
<1>8. /\ plan' \in Plans(data', MaxEmpties)
      /\ path' \in [Bookings -> UNION {FirstUsed(data', plan', k) : k \in Bookings}]
      /\ \A k \in Bookings : path'[k] \in FirstUsed(data', plan', k)
  BY <1>2 DEF BoxesInv
<1>9. \A e \in devanning' :
         /\ e.booking \in Bookings /\ e.port \in Ports /\ e.type \in Types
         /\ e.day \in Int /\ e.quantity \in Nat
         /\ path'[e.booking] # None /\ Arrival(e.booking)' <= day'
  BY <1>2, <1>6, <1>7
<1> QED  BY <1>1, <1>4, <1>5, <1>8, <1>9 DEF BoxesInv

LEMMA StutterBoxes == BoxesInv /\ UNCHANGED vars => BoxesInv'
<1> SUFFICES ASSUME BoxesInv, UNCHANGED vars PROVE BoxesInv'
  OBVIOUS
<1>1. StatusInv'
  BY StutterStatus DEF BoxesInv
<1>2. /\ data' = data /\ plan' = plan /\ path' = path /\ day' = day
      /\ stock' = stock /\ devanning' = devanning
  BY DEF vars
<1>3. \A e \in devanning' : Arrival(e.booking)' = Arrival(e.booking)
  BY <1>2 DEF Arrival
<1>4. /\ plan' \in Plans(data', MaxEmpties)
      /\ path' \in [Bookings -> UNION {FirstUsed(data', plan', k) : k \in Bookings}]
      /\ \A k \in Bookings : path'[k] \in FirstUsed(data', plan', k)
  BY <1>2 DEF BoxesInv
<1> QED  BY <1>1, <1>2, <1>3, <1>4 DEF BoxesInv

LEMMA BoxesInvariant == Spec => []BoxesInv
<1>1. BoxesInv /\ [Next]_vars => BoxesInv'
  BY StepBoxes, StutterBoxes DEF Next
<1> QED  BY InitBoxes, <1>1, PTL DEF Spec

-----------------------------------------------------------------------------
(***************************************************************************)
(* Boxes at sea and in the queue, whole days and whole networks of them    *)
(***************************************************************************)
StockOf(t) == [p \in Ports |-> stock[p][t]]

Departing(n) == {i \in DOMAIN data.legs : data.legs[i].departure = n}
Arriving(n) == {i \in DOMAIN data.legs : data.legs[i].arrival = n}
AtSea(n) == {i \in DOMAIN data.legs :
                data.legs[i].departure <= n /\ n < data.legs[i].arrival}

Sailing(t, n) == {k \in Bookings : Sails(k, n) /\ Booked(k).type = t}
Landing(t, n) == {k \in Bookings : Lands(k, n) /\ Booked(k).type = t}
InTransit(t) == {k \in Bookings : status[k] = "IN_TRANSIT" /\ Booked(k).type = t}

InQueue(t) == {e \in devanning : e.type = t}
Leaving(t, n) == {e \in devanning : e.type = t /\ e.day = n}
Joining(t, n) == {e \in Queued(n) : e.type = t}

LEMMA FiniteParts ==
    ASSUME BoxesInv
    PROVE  /\ data \in Datasets /\ plan \in Plans(data, MaxEmpties)
           /\ IsFiniteSet(DOMAIN data.legs) /\ IsFiniteSet(Bookings)
           /\ IsFiniteSet(Ports) /\ IsFiniteSet(devanning)
           /\ \A t \in Types, i \in DOMAIN data.legs : EmptiesOf(t)[i] \in Nat
           /\ \A k \in Bookings : path[k] # None => OwnedOf[k] \in Nat
           /\ \A e \in devanning : QuantityIn(devanning)[e] \in Nat
<1>1. /\ data \in Datasets /\ plan \in Plans(data, MaxEmpties)
      /\ IsFiniteSet(DOMAIN data.legs) /\ IsFiniteSet(Bookings)
      /\ IsFiniteSet(Ports) /\ IsFiniteSet(devanning)
  BY LegsOf, NetworkAssumption DEF BoxesInv, StatusInv
<1>2. \A t \in Types, i \in DOMAIN data.legs : EmptiesOf(t)[i] \in Nat
  BY <1>1, PlanShape DEF EmptiesOf
<1>3. \A k \in Bookings : path[k] # None => OwnedOf[k] \in Nat
  BY DecisionsOfPlan DEF OwnedOf
<1>4. \A e \in devanning : QuantityIn(devanning)[e] \in Nat
  BY DEF BoxesInv, QuantityIn
<1> QED  BY <1>1, <1>2, <1>3, <1>4

\* Over valid data a booking at sea has sailed and not landed.
LEMMA InTransitHasSailed ==
    ASSUME BoxesInv, NoErrors(data), NEW k \in Bookings
    PROVE  status[k] = "IN_TRANSIT" <=>
              path[k] # None /\ Departure(k) <= day /\ day < Arrival(k)
<1>1. day \in Int
  BY DEF BoxesInv, StatusInv, Days
<1>2. CASE path[k] = None
  <2>1. status[k] \in Early
    BY <1>2 DEF BoxesInv, StatusInv
  <2> QED  BY <1>2, <2>1 DEF Early
<1>3. CASE path[k] # None
  <2>1. Departure(k) \in Int /\ Arrival(k) \in Int /\ Departure(k) < Arrival(k)
    BY <1>3, VoyageOfBooking
  <2>2. status[k] = StatusToday(k)
    BY <1>3 DEF BoxesInv, StatusInv
  <2> QED  BY <1>1, <1>3, <2>1, <2>2 DEF StatusToday
<1> QED  BY <1>2, <1>3

LEMMA OnDayIsSums ==
    ASSUME BoxesInv, NoErrors(data), NEW t \in Types
    PROVE  /\ OnDay(t) = SumFunctionOnSet(EmptiesOf(t), AtSea(day))
                         + SumFunctionOnSet(OwnedOf, InTransit(t))
                         + SumFunctionOnSet(QuantityIn(devanning), InQueue(t))
           /\ SumFunctionOnSet(EmptiesOf(t), AtSea(day)) \in Int
           /\ SumFunctionOnSet(OwnedOf, InTransit(t)) \in Int
           /\ SumFunctionOnSet(QuantityIn(devanning), InQueue(t)) \in Int
<1> DEFINE g1 == [i \in AtSea(day) |-> plan.empties[i][t]]
           g2 == [k \in InTransit(t) |-> Owned(k)]
           g3 == [e \in InQueue(t) |-> e.quantity]
<1>1. OnDay(t) = SumFunction(g1) + SumFunction(g2) + SumFunction(g3)
  BY DEF OnDay, AtSea, InTransit, InQueue
<1>2. /\ IsFiniteSet(AtSea(day)) /\ DOMAIN g1 = AtSea(day)
      /\ \A i \in AtSea(day) : EmptiesOf(t)[i] \in Int /\ g1[i] = EmptiesOf(t)[i]
  <2>1. AtSea(day) \subseteq DOMAIN data.legs
    BY DEF AtSea
  <2>2. \A i \in AtSea(day) : g1[i] = EmptiesOf(t)[i]
    BY <2>1 DEF EmptiesOf
  <2> QED  BY <2>1, <2>2, FiniteParts, FS_Subset
<1>3. /\ IsFiniteSet(InTransit(t)) /\ DOMAIN g2 = InTransit(t)
      /\ \A k \in InTransit(t) : OwnedOf[k] \in Int /\ g2[k] = OwnedOf[k]
  <2>1. InTransit(t) \subseteq Bookings /\ \A k \in InTransit(t) : path[k] # None
    BY InTransitHasSailed DEF InTransit
  <2> QED  BY <2>1, FiniteParts, FS_Subset DEF OwnedOf
<1>4. /\ IsFiniteSet(InQueue(t)) /\ DOMAIN g3 = InQueue(t)
      /\ \A e \in InQueue(t) : /\ QuantityIn(devanning)[e] \in Int
                               /\ g3[e] = QuantityIn(devanning)[e]
  <2>1. InQueue(t) \subseteq devanning
    BY DEF InQueue
  <2> QED  BY <2>1, FiniteParts, FS_Subset DEF QuantityIn
<1> HIDE DEF g1, g2, g3
<1>5. /\ SumFunction(g1) = SumFunctionOnSet(EmptiesOf(t), AtSea(day))
      /\ SumFunction(g1) \in Int
  BY <1>2, TotalIsSumOn
<1>6. /\ SumFunction(g2) = SumFunctionOnSet(OwnedOf, InTransit(t))
      /\ SumFunction(g2) \in Int
  BY <1>3, TotalIsSumOn
<1>7. /\ SumFunction(g3) = SumFunctionOnSet(QuantityIn(devanning), InQueue(t))
      /\ SumFunction(g3) \in Int
  BY <1>4, TotalIsSumOn
<1> QED  BY <1>1, <1>5, <1>6, <1>7

(***************************************************************************)
(* What all ports together lose and gain in a day: the sum over the ports  *)
(* of each flow is the sum over the legs, bookings and entries it is of.   *)
(***************************************************************************)
LEMMA FlowsOverPorts ==
    ASSUME BoxesInv, NEW t \in Types, NEW n \in Int,
           NEW out, out = [p \in Ports |-> EmptiesOut(p, t, n)],
           NEW in, in = [p \in Ports |-> EmptiesIn(p, t, n)],
           NEW laden, laden = [p \in Ports |-> LadenOut(p, t, n)],
           NEW back, back = [p \in Ports |-> Devanned(p, t, n)]
    PROVE  /\ SumFunctionOnSet(out, Ports) = SumFunctionOnSet(EmptiesOf(t), Departing(n))
           /\ SumFunctionOnSet(in, Ports) = SumFunctionOnSet(EmptiesOf(t), Arriving(n))
           /\ SumFunctionOnSet(laden, Ports) = SumFunctionOnSet(OwnedOf, Sailing(t, n))
           /\ SumFunctionOnSet(back, Ports)
                = SumFunctionOnSet(QuantityIn(devanning), Leaving(t, n))
<1>1. SumFunctionOnSet(out, Ports) = SumFunctionOnSet(EmptiesOf(t), Departing(n))
  <2> DEFINE S == Departing(n)
             m == [i \in S |-> data.legs[i].from]
             f == EmptiesOf(t)
  <2>1. /\ IsFiniteSet(S) /\ IsFiniteSet(Ports)
        /\ \A i \in S : f[i] \in Int
    <3>1. S \subseteq DOMAIN data.legs
      BY DEF Departing
    <3> QED  BY <3>1, FiniteParts, FS_Subset
  <2>2. m \in [S -> Ports]
    BY FiniteParts, LegsOf DEF Departing
  <2>3. ASSUME NEW p \in Ports
        PROVE  out[p] = SumFunctionOnSet(f, {i \in S : m[i] = p})
    <3>1. {i \in S : m[i] = p} = DepartingFrom(p, n)
      BY DEF Departing, DepartingFrom
    <3>2. out[p] = SumFunctionOnSet(f, DepartingFrom(p, n))
      BY FlowsAreSums
    <3> QED  BY <3>1, <3>2
  <2> HIDE DEF S, m, f
  <2>4. SumFunctionOnSet(out, Ports) = SumFunctionOnSet(f, S)
    BY <2>1, <2>2, <2>3, SumByParts
  <2> QED  BY <2>4 DEF S, f
<1>2. SumFunctionOnSet(in, Ports) = SumFunctionOnSet(EmptiesOf(t), Arriving(n))
  <2> DEFINE S == Arriving(n)
             m == [i \in S |-> data.legs[i].to]
             f == EmptiesOf(t)
  <2>1. /\ IsFiniteSet(S) /\ IsFiniteSet(Ports)
        /\ \A i \in S : f[i] \in Int
    <3>1. S \subseteq DOMAIN data.legs
      BY DEF Arriving
    <3> QED  BY <3>1, FiniteParts, FS_Subset
  <2>2. m \in [S -> Ports]
    BY FiniteParts, LegsOf DEF Arriving
  <2>3. ASSUME NEW p \in Ports
        PROVE  in[p] = SumFunctionOnSet(f, {i \in S : m[i] = p})
    <3>1. {i \in S : m[i] = p} = ArrivingAt(p, n)
      BY DEF Arriving, ArrivingAt
    <3>2. in[p] = SumFunctionOnSet(f, ArrivingAt(p, n))
      BY FlowsAreSums
    <3> QED  BY <3>1, <3>2
  <2> HIDE DEF S, m, f
  <2>4. SumFunctionOnSet(in, Ports) = SumFunctionOnSet(f, S)
    BY <2>1, <2>2, <2>3, SumByParts
  <2> QED  BY <2>4 DEF S, f
<1>3. SumFunctionOnSet(laden, Ports) = SumFunctionOnSet(OwnedOf, Sailing(t, n))
  <2> DEFINE S == Sailing(t, n)
             m == [k \in S |-> Booked(k).origin]
             f == OwnedOf
  <2>1. /\ IsFiniteSet(S) /\ IsFiniteSet(Ports)
        /\ \A k \in S : f[k] \in Int
    <3>1. S \subseteq Bookings /\ \A k \in S : path[k] # None
      BY DEF Sailing, Sails
    <3> QED  BY <3>1, FiniteParts, FS_Subset
  <2>2. m \in [S -> Ports]
    BY VoyageOfBooking DEF Sailing
  <2>3. ASSUME NEW p \in Ports
        PROVE  laden[p] = SumFunctionOnSet(f, {k \in S : m[k] = p})
    <3>1. {k \in S : m[k] = p} = SailingFrom(p, t, n)
      BY DEF Sailing, SailingFrom
    <3>2. laden[p] = SumFunctionOnSet(f, SailingFrom(p, t, n))
      BY FlowsAreSums
    <3> QED  BY <3>1, <3>2
  <2> HIDE DEF S, m, f
  <2>4. SumFunctionOnSet(laden, Ports) = SumFunctionOnSet(f, S)
    BY <2>1, <2>2, <2>3, SumByParts
  <2> QED  BY <2>4 DEF S, f
<1>4. SumFunctionOnSet(back, Ports) = SumFunctionOnSet(QuantityIn(devanning), Leaving(t, n))
  <2> DEFINE S == Leaving(t, n)
             m == [e \in S |-> e.port]
             f == QuantityIn(devanning)
  <2>1. /\ IsFiniteSet(S) /\ IsFiniteSet(Ports)
        /\ \A e \in S : f[e] \in Int
    <3>1. S \subseteq devanning
      BY DEF Leaving
    <3> QED  BY <3>1, FiniteParts, FS_Subset
  <2>2. m \in [S -> Ports]
    BY DEF BoxesInv, Leaving
  <2>3. ASSUME NEW p \in Ports
        PROVE  back[p] = SumFunctionOnSet(f, {e \in S : m[e] = p})
    <3>1. {e \in S : m[e] = p} = DevannedAt(p, t, n)
      BY DEF Leaving, DevannedAt
    <3>2. back[p] = SumFunctionOnSet(f, DevannedAt(p, t, n))
      BY FlowsAreSums
    <3> QED  BY <3>1, <3>2
  <2> HIDE DEF S, m, f
  <2>4. SumFunctionOnSet(back, Ports) = SumFunctionOnSet(f, S)
    BY <2>1, <2>2, <2>3, SumByParts
  <2> QED  BY <2>4 DEF S, f
<1> QED  BY <1>1, <1>2, <1>3, <1>4

\* The stock of all ports after day n
LEMMA StockMoves ==
    ASSUME BoxesInv, NEW t \in Types, NEW n \in Int,
           NEW after, \A p \in Ports : after[p] = StockAfter(n)[p][t]
    PROVE  /\ SumFunctionOnSet(after, Ports)
                = SumFunctionOnSet(StockOf(t), Ports)
                  + SumFunctionOnSet(QuantityIn(devanning), Leaving(t, n))
                  - SumFunctionOnSet(EmptiesOf(t), Departing(n))
                  + SumFunctionOnSet(EmptiesOf(t), Arriving(n))
                  - SumFunctionOnSet(OwnedOf, Sailing(t, n))
           /\ SumFunctionOnSet(StockOf(t), Ports) \in Int
<1> DEFINE out == [p \in Ports |-> EmptiesOut(p, t, n)]
           in == [p \in Ports |-> EmptiesIn(p, t, n)]
           laden == [p \in Ports |-> LadenOut(p, t, n)]
           back == [p \in Ports |-> Devanned(p, t, n)]
           f == StockOf(t)
<1>1. /\ SumFunctionOnSet(out, Ports) = SumFunctionOnSet(EmptiesOf(t), Departing(n))
      /\ SumFunctionOnSet(in, Ports) = SumFunctionOnSet(EmptiesOf(t), Arriving(n))
      /\ SumFunctionOnSet(laden, Ports) = SumFunctionOnSet(OwnedOf, Sailing(t, n))
      /\ SumFunctionOnSet(back, Ports)
           = SumFunctionOnSet(QuantityIn(devanning), Leaving(t, n))
  BY FlowsOverPorts
<1>2. ASSUME NEW p \in Ports
      PROVE  /\ f[p] \in Int /\ out[p] \in Int /\ in[p] \in Int
             /\ laden[p] \in Int /\ back[p] \in Int
             /\ after[p] = f[p] + back[p] - out[p] + in[p] - laden[p]
  <2>1. f[p] = stock[p][t] /\ stock[p][t] \in Int
    BY DEF StockOf, BoxesInv
  <2>2. /\ EmptiesOut(p, t, n) \in Int /\ EmptiesIn(p, t, n) \in Int
        /\ LadenOut(p, t, n) \in Int /\ Devanned(p, t, n) \in Int
    BY FlowsAreSums
  <2>3. after[p] = stock[p][t] + Devanned(p, t, n) - EmptiesOut(p, t, n)
                    + EmptiesIn(p, t, n) - LadenOut(p, t, n)
    BY DEF StockAfter
  <2>4. /\ out[p] = EmptiesOut(p, t, n) /\ in[p] = EmptiesIn(p, t, n)
        /\ laden[p] = LadenOut(p, t, n) /\ back[p] = Devanned(p, t, n)
    OBVIOUS
  <2> QED  BY <2>1, <2>2, <2>3, <2>4
<1>3. IsFiniteSet(Ports)
  BY NetworkAssumption
<1> HIDE DEF out, in, laden, back, f
<1>4. SumFunctionOnSet(after, Ports)
        = SumFunctionOnSet(f, Ports) + SumFunctionOnSet(back, Ports)
          - SumFunctionOnSet(out, Ports) + SumFunctionOnSet(in, Ports)
          - SumFunctionOnSet(laden, Ports)
  BY <1>2, <1>3, SumOfBalances
<1>5. SumFunctionOnSet(f, Ports) \in Int
  BY <1>2, <1>3, SumIsInt
<1> QED  BY <1>1, <1>4, <1>5 DEF f

(***************************************************************************)
(* The boxes at sea the day after: the legs that arrive are no longer      *)
(* counted, those that depart are.                                         *)
(***************************************************************************)
LEMMA EmptiesMove ==
    ASSUME BoxesInv, NoErrors(data), NEW t \in Types, NEW n, n = day + 1
    PROVE  SumFunctionOnSet(EmptiesOf(t), AtSea(n))
             = SumFunctionOnSet(EmptiesOf(t), AtSea(day))
               - SumFunctionOnSet(EmptiesOf(t), Arriving(n))
               + SumFunctionOnSet(EmptiesOf(t), Departing(n))
<1> DEFINE S == AtSea(day)
           Out == Arriving(n)
           In == Departing(n)
<1>1. day \in Int
  BY DEF BoxesInv, StatusInv, Days
<1>2. \A i \in DOMAIN data.legs :
         /\ data.legs[i].departure \in Int /\ data.legs[i].arrival \in Int
         /\ data.legs[i].departure < data.legs[i].arrival
  BY FiniteParts, LegsOf DEF NoErrors, VoyagesValid, LegValid
<1>3. Out \in SUBSET S
  BY <1>1, <1>2 DEF Arriving, AtSea
<1>4. S \intersect In = {}
  BY <1>1, <1>2 DEF Departing, AtSea
<1>5. AtSea(n) = (S \ Out) \union In
  BY <1>1, <1>2 DEF AtSea, Arriving, Departing
<1>6. /\ IsFiniteSet(S) /\ IsFiniteSet(In)
      /\ \A i \in S \union In : EmptiesOf(t)[i] \in Int
  <2>1. S \subseteq DOMAIN data.legs /\ In \subseteq DOMAIN data.legs
    BY DEF AtSea, Departing
  <2> QED  BY <2>1, FiniteParts, FS_Subset
<1> HIDE DEF S, Out, In
<1>7. SumFunctionOnSet(EmptiesOf(t), (S \ Out) \union In)
        = SumFunctionOnSet(EmptiesOf(t), S) - SumFunctionOnSet(EmptiesOf(t), Out)
          + SumFunctionOnSet(EmptiesOf(t), In)
  BY <1>3, <1>4, <1>6, SumMoves
<1> QED  BY <1>5, <1>7 DEF S, Out, In

LEMMA LadenMove ==
    ASSUME BoxesInv, NoErrors(data), NEW t \in Types, NEW n, n = day + 1,
           NEW after, after = {k \in Bookings :
                                /\ path[k] # None /\ Departure(k) <= n /\ n < Arrival(k)
                                /\ Booked(k).type = t}
    PROVE  /\ SumFunctionOnSet(OwnedOf, after)
                = SumFunctionOnSet(OwnedOf, InTransit(t))
                  - SumFunctionOnSet(OwnedOf, Landing(t, n))
                  + SumFunctionOnSet(OwnedOf, Sailing(t, n))
<1> DEFINE S == InTransit(t)
           Out == Landing(t, n)
           In == Sailing(t, n)
<1>1. day \in Int
  BY DEF BoxesInv, StatusInv, Days
<1>2. \A k \in Bookings : path[k] # None =>
         /\ Departure(k) \in Int /\ Arrival(k) \in Int /\ Departure(k) < Arrival(k)
  BY VoyageOfBooking
<1>3. S = {k \in Bookings : /\ path[k] # None /\ Departure(k) <= day /\ day < Arrival(k)
                            /\ Booked(k).type = t}
  BY InTransitHasSailed DEF InTransit
<1>4. /\ Out = {k \in Bookings : /\ path[k] # None /\ Arrival(k) = n
                                 /\ Booked(k).type = t}
      /\ In = {k \in Bookings : /\ path[k] # None /\ Departure(k) = n
                                /\ Booked(k).type = t}
  BY DEF Landing, Sailing, Lands, Sails
<1> HIDE DEF S, Out, In
<1>5. Out \in SUBSET S
  BY <1>1, <1>2, <1>3, <1>4
<1>6. S \intersect In = {}
  BY <1>1, <1>3, <1>4, <1>2
<1>7. after = (S \ Out) \union In
  BY <1>1, <1>2, <1>3, <1>4
<1>8. /\ IsFiniteSet(S) /\ IsFiniteSet(In)
      /\ \A k \in S \union In : OwnedOf[k] \in Int
  <2>1. S \subseteq Bookings /\ In \subseteq Bookings /\ \A k \in S \union In : path[k] # None
    BY <1>3, <1>4
  <2> QED  BY <2>1, FiniteParts, FS_Subset
<1>9. SumFunctionOnSet(OwnedOf, (S \ Out) \union In)
        = SumFunctionOnSet(OwnedOf, S) - SumFunctionOnSet(OwnedOf, Out)
          + SumFunctionOnSet(OwnedOf, In)
  BY <1>5, <1>6, <1>8, SumMoves
<1> QED  BY <1>7, <1>9 DEF S, Out, In

\* What a day queues is what it lands.
LEMMA QueuedIsLanded ==
    ASSUME BoxesInv, NEW t \in Types, NEW n \in Int, NEW f,
           \A e \in Joining(t, n) : f[e] = e.quantity
    PROVE  SumFunctionOnSet(f, Joining(t, n)) = SumFunctionOnSet(OwnedOf, Landing(t, n))
<1> DEFINE S == Joining(t, n)
           T == Landing(t, n)
           m == [e \in S |-> e.booking]
<1>1. \A e \in S : /\ e.booking \in Bookings /\ Lands(e.booking, n)
                   /\ Booked(e.booking).type = t
                   /\ e.quantity = Owned(e.booking) /\ e.quantity \in Nat
  BY QueuedEntries DEF Joining
<1>2. m \in [S -> T]
  BY <1>1 DEF Landing
<1>3. \A x, y \in S : m[x] = m[y] => x = y
  BY DEF Joining, Queued
<1>4. \A e \in S : f[e] \in Int /\ OwnedOf[m[e]] = f[e]
  BY <1>1 DEF OwnedOf
<1>5. ASSUME NEW k \in T, \A e \in S : m[e] # k PROVE OwnedOf[k] = 0
  <2>1. k \in Bookings /\ Lands(k, n) /\ Booked(k).type = t /\ OwnedOf[k] = Owned(k)
    BY DEF Landing, OwnedOf
  <2>2. Owned(k) \in Nat
    BY <2>1, DecisionsOfPlan DEF Lands
  <2>3. ASSUME Owned(k) > 0 PROVE FALSE
    <3> DEFINE e == [booking |-> k, port |-> Booked(k).destination,
                     type |-> Booked(k).type,
                     day |-> n + data.ports[Booked(k).destination].lead,
                     quantity |-> Owned(k)]
    <3>1. e \in Queued(n)
      BY <2>1, <2>3 DEF Queued
    <3>2. e.type = t /\ e.booking = k
      BY <2>1
    <3>3. e \in S
      BY <3>1, <3>2 DEF Joining
    <3>4. m[e] = k
      BY <3>2, <3>3
    <3> QED  BY <1>5, <3>3, <3>4
  <2> QED  BY <2>1, <2>2, <2>3
<1>6. IsFiniteSet(S) /\ IsFiniteSet(T)
  <2>1. S \subseteq Queued(n) /\ T \subseteq Bookings
    BY DEF Joining, Landing
  <2> QED  BY <2>1, QueuedEntries, NetworkAssumption, FS_Subset
<1> HIDE DEF S, T, m
<1>7. SumFunctionOnSet(f, S) = SumFunctionOnSet(OwnedOf, T)
  BY <1>2, <1>3, <1>4, <1>5, <1>6, SumRenamed
<1> QED  BY <1>7 DEF S, T

LEMMA QueueMoves ==
    ASSUME BoxesInv, NEW t \in Types, NEW n, n = day + 1,
           NEW after, after = {e \in QueueAfter(n) : e.type = t}
    PROVE  SumFunctionOnSet(QuantityIn(QueueAfter(n)), after)
             = SumFunctionOnSet(QuantityIn(devanning), InQueue(t))
               - SumFunctionOnSet(QuantityIn(devanning), Leaving(t, n))
               + SumFunctionOnSet(OwnedOf, Landing(t, n))
<1> DEFINE S == InQueue(t)
           Out == Leaving(t, n)
           In == Joining(t, n)
           f == [e \in devanning \union Queued(n) |-> e.quantity]
           q == QuantityIn(devanning)
           r == QuantityIn(QueueAfter(n))
<1>1. day \in Int /\ n \in Int
  BY DEF BoxesInv, StatusInv, Days
<1>2. Out \in SUBSET S
  BY DEF Leaving, InQueue
<1>3. S \intersect In = {}
  <2>1. \A e \in S : e.booking \in Bookings /\ path[e.booking] # None
                     /\ Arrival(e.booking) <= day
    BY DEF InQueue, BoxesInv
  <2>2. \A e \in In : Arrival(e.booking) = n
    BY <1>1, QueuedEntries DEF Joining, Lands
  <2>3. \A e \in S : Arrival(e.booking) \in Int
    BY <2>1, VoyageOfBooking
  <2> HIDE DEF S, In
  <2> QED  BY <1>1, <2>1, <2>2, <2>3
<1>4. after = (S \ Out) \union In
  BY DEF QueueAfter, InQueue, Leaving, Joining
<1>5. IsFiniteSet(S) /\ IsFiniteSet(In)
  <2>1. S \subseteq devanning /\ In \subseteq Queued(n)
    BY DEF InQueue, Joining
  <2> QED  BY <1>1, <2>1, FiniteParts, QueuedEntries, FS_Subset
<1>6. \A e \in S \union In : f[e] \in Int /\ f[e] = e.quantity
  <2>1. \A e \in S : e \in devanning /\ e.quantity \in Int
    BY DEF InQueue, BoxesInv
  <2>2. \A e \in In : e \in Queued(n) /\ e.quantity \in Int
    BY <1>1, QueuedEntries DEF Joining
  <2> QED  BY <2>1, <2>2
<1>7. \A e \in S : q[e] = f[e] /\ q[e] \in Int
  BY DEF InQueue, QuantityIn, BoxesInv
<1>8. \A e \in after : r[e] = f[e] /\ f[e] \in Int
  BY <1>4, <1>6 DEF QuantityIn, QueueAfter
<1>9. SumFunctionOnSet(f, In) = SumFunctionOnSet(OwnedOf, Landing(t, n))
  <2>1. \A e \in In : f[e] = e.quantity
    BY <1>6
  <2> HIDE DEF f
  <2> QED  BY <1>1, <2>1, QueuedIsLanded
<1> HIDE DEF S, Out, In, f, q, r
<1>10. SumFunctionOnSet(f, (S \ Out) \union In)
         = SumFunctionOnSet(f, S) - SumFunctionOnSet(f, Out) + SumFunctionOnSet(f, In)
  BY <1>2, <1>3, <1>5, <1>6, SumMoves
<1>11. SumFunctionOnSet(q, S) = SumFunctionOnSet(f, S)
  BY <1>5, <1>6, <1>7, SumsAgree
<1>12. SumFunctionOnSet(q, Out) = SumFunctionOnSet(f, Out)
  <2>1. IsFiniteSet(Out)
    BY <1>2, <1>5, FS_Subset
  <2>2. \A e \in Out : f[e] \in Int /\ q[e] = f[e]
    BY <1>2, <1>6, <1>7
  <2> QED  BY <2>1, <2>2, SumsAgree
<1>13. SumFunctionOnSet(r, after) = SumFunctionOnSet(f, after)
  <2>1. IsFiniteSet(after)
    <3>1. IsFiniteSet(S \ Out)
      BY <1>5, FS_Difference
    <3>2. IsFiniteSet((S \ Out) \union In)
      BY <1>5, <3>1, FS_Union
    <3> QED  BY <1>4, <3>2
  <2> QED  BY <1>8, <2>1, SumsAgree
<1> QED  BY <1>4, <1>9, <1>10, <1>11, <1>12, <1>13 DEF S, Out, q, r

-----------------------------------------------------------------------------
(***************************************************************************)
(* Stock and what is under way, of all ports, is what there was at first.  *)
(***************************************************************************)
TotalOf(t) == SumFunctionOnSet(StockOf(t), Ports) + OnDay(t)

NoLegOnDayZero == \A i \in DOMAIN data.legs : data.legs[i].departure > 0

\* The two facts of a day above, to be used of the day after
OnDayCounts ==
    \A t \in Types : OnDay(t) = SumFunctionOnSet(EmptiesOf(t), AtSea(day))
                                + SumFunctionOnSet(OwnedOf, InTransit(t))
                                + SumFunctionOnSet(QuantityIn(devanning), InQueue(t))

LEMMA OnDayEveryDay == BoxesInv /\ NoErrors(data) => OnDayCounts
BY OnDayIsSums DEF OnDayCounts

LEMMA InTransitEveryDay ==
    BoxesInv /\ NoErrors(data) =>
       \A k \in Bookings : status[k] = "IN_TRANSIT" <=>
          path[k] # None /\ Departure(k) <= day /\ day < Arrival(k)
BY InTransitHasSailed

LEMMA StepKeepsTotal ==
    ASSUME BoxesInv, Step, NoErrors(data), NEW t \in Types
    PROVE  TotalOf(t)' = TotalOf(t)
<1>0. BoxesInv'
  BY StepBoxes
<1>1. /\ data' = data /\ plan' = plan /\ path' = path
      /\ day' = day + 1 /\ day' \in Int
      /\ stock' = StockAfter(day') /\ devanning' = QueueAfter(day')
  BY DEF BoxesInv, StatusInv, Step, fixed, Days
<1>2. NoErrors(data)'
  BY <1>1
<1>3. /\ OnDay(t) = SumFunctionOnSet(EmptiesOf(t), AtSea(day))
                    + SumFunctionOnSet(OwnedOf, InTransit(t))
                    + SumFunctionOnSet(QuantityIn(devanning), InQueue(t))
      /\ SumFunctionOnSet(EmptiesOf(t), AtSea(day)) \in Int
      /\ SumFunctionOnSet(OwnedOf, InTransit(t)) \in Int
      /\ SumFunctionOnSet(QuantityIn(devanning), InQueue(t)) \in Int
  BY OnDayIsSums
<1>4. OnDayCounts'
  BY <1>0, <1>2, OnDayEveryDay, PTL
<1>5. SumFunctionOnSet(EmptiesOf(t), AtSea(day))'
        = SumFunctionOnSet(EmptiesOf(t), AtSea(day))
          - SumFunctionOnSet(EmptiesOf(t), Arriving(day'))
          + SumFunctionOnSet(EmptiesOf(t), Departing(day'))
  <2>1. EmptiesOf(t)' = EmptiesOf(t) /\ AtSea(day)' = AtSea(day')
    BY <1>1 DEF EmptiesOf, AtSea
  <2> QED  BY <1>1, <2>1, EmptiesMove
<1>6. SumFunctionOnSet(OwnedOf, InTransit(t))'
        = SumFunctionOnSet(OwnedOf, InTransit(t))
          - SumFunctionOnSet(OwnedOf, Landing(t, day'))
          + SumFunctionOnSet(OwnedOf, Sailing(t, day'))
  <2> DEFINE after == {k \in Bookings :
                         /\ path[k] # None /\ Departure(k) <= day' /\ day' < Arrival(k)
                         /\ Booked(k).type = t}
  <2>1. OwnedOf' = OwnedOf
    BY <1>1 DEF OwnedOf, Owned
  <2>2. (\A k \in Bookings : status[k] = "IN_TRANSIT" <=>
            path[k] # None /\ Departure(k) <= day /\ day < Arrival(k))'
    BY <1>0, <1>2, InTransitEveryDay, PTL
  <2>3. \A k \in Bookings : /\ Departure(k)' = Departure(k) /\ Arrival(k)' = Arrival(k)
                            /\ Booked(k)' = Booked(k)
    BY <1>1 DEF Departure, Arrival, Booked
  <2>4. InTransit(t)' = after
    BY <1>1, <2>2, <2>3 DEF InTransit
  <2>5. SumFunctionOnSet(OwnedOf, after)
          = SumFunctionOnSet(OwnedOf, InTransit(t))
            - SumFunctionOnSet(OwnedOf, Landing(t, day'))
            + SumFunctionOnSet(OwnedOf, Sailing(t, day'))
    BY <1>1, LadenMove
  <2> QED  BY <2>1, <2>4, <2>5
<1>7. SumFunctionOnSet(QuantityIn(devanning), InQueue(t))'
        = SumFunctionOnSet(QuantityIn(devanning), InQueue(t))
          - SumFunctionOnSet(QuantityIn(devanning), Leaving(t, day'))
          + SumFunctionOnSet(OwnedOf, Landing(t, day'))
  <2> DEFINE after == {e \in QueueAfter(day') : e.type = t}
  <2>1. /\ QuantityIn(devanning)' = QuantityIn(QueueAfter(day'))
        /\ InQueue(t)' = after
    BY <1>1 DEF QuantityIn, InQueue
  <2>2. SumFunctionOnSet(QuantityIn(QueueAfter(day')), after)
          = SumFunctionOnSet(QuantityIn(devanning), InQueue(t))
            - SumFunctionOnSet(QuantityIn(devanning), Leaving(t, day'))
            + SumFunctionOnSet(OwnedOf, Landing(t, day'))
    BY <1>1, QueueMoves
  <2> QED  BY <2>1, <2>2
<1>8. /\ SumFunctionOnSet(StockOf(t), Ports)'
           = SumFunctionOnSet(StockOf(t), Ports)
             + SumFunctionOnSet(QuantityIn(devanning), Leaving(t, day'))
             - SumFunctionOnSet(EmptiesOf(t), Departing(day'))
             + SumFunctionOnSet(EmptiesOf(t), Arriving(day'))
             - SumFunctionOnSet(OwnedOf, Sailing(t, day'))
      /\ SumFunctionOnSet(StockOf(t), Ports) \in Int
  <2>1. \A p \in Ports : StockOf(t)'[p] = StockAfter(day')[p][t]
    BY <1>1 DEF StockOf
  <2> QED  BY <1>1, <2>1, StockMoves
<1>9. /\ SumFunctionOnSet(EmptiesOf(t), Departing(day')) \in Int
      /\ SumFunctionOnSet(EmptiesOf(t), Arriving(day')) \in Int
      /\ SumFunctionOnSet(OwnedOf, Sailing(t, day')) \in Int
      /\ SumFunctionOnSet(OwnedOf, Landing(t, day')) \in Int
      /\ SumFunctionOnSet(QuantityIn(devanning), Leaving(t, day')) \in Int
  <2>1. /\ Departing(day') \subseteq DOMAIN data.legs
        /\ Arriving(day') \subseteq DOMAIN data.legs
    BY DEF Departing, Arriving
  <2>0. \A S : S \subseteq DOMAIN data.legs => SumFunctionOnSet(EmptiesOf(t), S) \in Int
    <3>1. ASSUME NEW S, S \subseteq DOMAIN data.legs
          PROVE  IsFiniteSet(S) /\ \A i \in S : EmptiesOf(t)[i] \in Int
      BY <3>1, FiniteParts, FS_Subset
    <3> QED  BY <3>1, SumIsInt
  <2>2. /\ SumFunctionOnSet(EmptiesOf(t), Departing(day')) \in Int
        /\ SumFunctionOnSet(EmptiesOf(t), Arriving(day')) \in Int
    BY <2>0, <2>1
  <2>3. /\ Sailing(t, day') \subseteq Bookings /\ Landing(t, day') \subseteq Bookings
        /\ \A k \in Sailing(t, day') : path[k] # None
        /\ \A k \in Landing(t, day') : path[k] # None
    BY DEF Sailing, Landing, Sails, Lands
  <2>4. /\ SumFunctionOnSet(OwnedOf, Sailing(t, day')) \in Int
        /\ SumFunctionOnSet(OwnedOf, Landing(t, day')) \in Int
    <3>1. ASSUME NEW S, S \subseteq Bookings, \A k \in S : path[k] # None
          PROVE  IsFiniteSet(S) /\ \A k \in S : OwnedOf[k] \in Int
      BY <3>1, FiniteParts, FS_Subset
    <3>2. \A S : S \subseteq Bookings /\ (\A k \in S : path[k] # None)
                    => SumFunctionOnSet(OwnedOf, S) \in Int
      BY <3>1, SumIsInt
    <3> QED  BY <2>3, <3>2
  <2>5. Leaving(t, day') \subseteq devanning
    BY DEF Leaving
  <2>6. SumFunctionOnSet(QuantityIn(devanning), Leaving(t, day')) \in Int
    <3>1. /\ IsFiniteSet(Leaving(t, day'))
          /\ \A e \in Leaving(t, day') : QuantityIn(devanning)[e] \in Int
      BY <2>5, FiniteParts, FS_Subset
    <3> QED  BY <3>1, SumIsInt
  <2> QED  BY <2>2, <2>4, <2>6
<1>10. TotalOf(t)' = SumFunctionOnSet(StockOf(t), Ports)' + OnDay(t)'
  BY DEF TotalOf
<1>11. OnDay(t)' = SumFunctionOnSet(EmptiesOf(t), AtSea(day))'
                   + SumFunctionOnSet(OwnedOf, InTransit(t))'
                   + SumFunctionOnSet(QuantityIn(devanning), InQueue(t))'
  BY <1>4 DEF OnDayCounts
<1> QED  BY <1>3, <1>5, <1>6, <1>7, <1>8, <1>9, <1>10, <1>11 DEF TotalOf

TotalInv ==
    /\ BoxesInv
    /\ NoErrors(data) /\ NoLegOnDayZero =>
          \A t \in Types : TotalOf(t) = SumFunctionOnSet([p \in Ports |-> data.stock[p][t]], Ports)

LEMMA InitTotal == Init => TotalInv
<1> SUFFICES ASSUME Init PROVE TotalInv
  OBVIOUS
<1>1. BoxesInv /\ day = 0 /\ devanning = {} /\ stock = data.stock
      /\ status = [k \in Bookings |-> "REQUESTED"]
  BY InitBoxes DEF Init
<1>2. ASSUME NoErrors(data), NoLegOnDayZero, NEW t \in Types
      PROVE  TotalOf(t) = SumFunctionOnSet([p \in Ports |-> data.stock[p][t]], Ports)
  <2>1. AtSea(day) = {}
    BY <1>1, <1>2, FiniteParts, LegsOf DEF AtSea, NoLegOnDayZero
  <2>2. InTransit(t) = {}
    BY <1>1 DEF InTransit
  <2>3. InQueue(t) = {}
    BY <1>1 DEF InQueue
  <2>4. OnDay(t) = SumFunctionOnSet(EmptiesOf(t), {}) + SumFunctionOnSet(OwnedOf, {})
                   + SumFunctionOnSet(QuantityIn(devanning), {})
    BY <1>1, <1>2, <2>1, <2>2, <2>3, OnDayIsSums
  <2>5. OnDay(t) = 0
    BY <2>4, SumOfNothing
  <2>6. StockOf(t) = [p \in Ports |-> data.stock[p][t]]
    BY <1>1 DEF StockOf
  <2>7. SumFunctionOnSet(StockOf(t), Ports) \in Int
    <3>1. \A p \in Ports : StockOf(t)[p] \in Int
      BY <1>1 DEF StockOf, BoxesInv
    <3> QED  BY <3>1, NetworkAssumption, SumIsInt
  <2> QED  BY <2>5, <2>6, <2>7 DEF TotalOf
<1> QED  BY <1>1, <1>2 DEF TotalInv

LEMMA StepTotal == TotalInv /\ Step => TotalInv'
<1> SUFFICES ASSUME TotalInv, Step PROVE TotalInv'
  OBVIOUS
<1>1. BoxesInv' /\ data' = data
  BY StepBoxes DEF TotalInv, Step, fixed
<1>2. \A t \in Types : NoErrors(data) => TotalOf(t)' = TotalOf(t)
  BY StepKeepsTotal DEF TotalInv
<1>3. NoErrors(data)' = NoErrors(data) /\ NoLegOnDayZero' = NoLegOnDayZero
  BY <1>1 DEF NoLegOnDayZero
<1>4. \A t \in Types : SumFunctionOnSet([p \in Ports |-> data.stock[p][t]], Ports)'
                       = SumFunctionOnSet([p \in Ports |-> data.stock[p][t]], Ports)
  BY <1>1
<1> QED  BY <1>1, <1>2, <1>3, <1>4 DEF TotalInv

LEMMA StutterTotal == TotalInv /\ UNCHANGED vars => TotalInv'
<1> SUFFICES ASSUME TotalInv, UNCHANGED vars PROVE TotalInv'
  OBVIOUS
<1>1. BoxesInv'
  BY StutterBoxes DEF TotalInv
<1>2. data' = data /\ plan' = plan /\ path' = path /\ day' = day /\ stock' = stock
      /\ devanning' = devanning /\ status' = status
  BY DEF vars
<1>3. \A t \in Types : TotalOf(t)' = TotalOf(t)
  BY <1>2 DEF TotalOf, StockOf, OnDay, Owned, Booked
<1>4. NoErrors(data)' = NoErrors(data) /\ NoLegOnDayZero' = NoLegOnDayZero
  BY <1>2 DEF NoLegOnDayZero
<1> QED  BY <1>1, <1>2, <1>3, <1>4 DEF TotalInv

LEMMA TotalIsKept == TotalInv => BoxesConserved
<1> SUFFICES ASSUME TotalInv PROVE BoxesConserved
  OBVIOUS
<1>1. TypeOK
  BY DEF TotalInv, BoxesInv, StatusInv, TypeOK
<1>2. ASSUME NoErrors(data), NoLegOnDayZero, NEW t \in Types
      PROVE  SumFunction([p \in Ports |-> stock[p][t]]) + OnDay(t)
               = SumFunction([p \in Ports |-> data.stock[p][t]])
  <2> DEFINE f == [p \in Ports |-> stock[p][t]]
             g == [p \in Ports |-> data.stock[p][t]]
  <2>1. DOMAIN f = Ports /\ DOMAIN g = Ports /\ f = StockOf(t)
    BY DEF StockOf
  <2>2. TotalOf(t) = SumFunctionOnSet(g, Ports)
    BY <1>2 DEF TotalInv
  <2> HIDE DEF f, g
  <2>3. SumFunction(f) = SumFunctionOnSet(StockOf(t), Ports)
        /\ SumFunction(g) = SumFunctionOnSet(g, Ports)
    BY <2>1, TotalIsSum
  <2>4. SumFunction(f) + OnDay(t) = SumFunction(g)
    BY <2>2, <2>3 DEF TotalOf
  <2> QED  BY <2>4 DEF f, g
<1>3. NothingLost
  BY <1>2 DEF NothingLost, NoLegOnDayZero
<1> QED  BY <1>1, <1>3 DEF BoxesConserved

\* No box appears or is lost on any day of any run, whatever plan was made and
\* whatever the ports keep in devanning.
THEOREM BoxesAreConserved == Spec => []BoxesConserved
<1>1. TotalInv /\ [Next]_vars => TotalInv'
  BY StepTotal, StutterTotal DEF Next
<1> QED  BY InitTotal, <1>1, TotalIsKept, PTL DEF Spec

-----------------------------------------------------------------------------
(***************************************************************************)
(* A network of finitely many legs has finitely many paths.                *)
(***************************************************************************)
LEMMA PathsAreFinite ==
    ASSUME NEW d \in Datasets
    PROVE  \E All : IsFiniteSet(All) /\ \A k \in Bookings : Network(d)[k] \subseteq All
<1> DEFINE L == DOMAIN d.legs
           A == (SUBSET L) \X (L \X L)
           f == [e \in A |-> Path(e[1], e[2][1], e[2][2])]
           All == {f[e] : e \in A}
<1>1. IsFiniteSet(L)
  BY LegsOf
<1>2. IsFiniteSet(A)
  <2> HIDE DEF L
  <2>1. IsFiniteSet(SUBSET L) /\ IsFiniteSet(L \X L)
    BY <1>1, FS_SUBSET, FS_Product
  <2> QED  BY <2>1, FS_Product
<1>3. IsFiniteSet(All)
  <2>1. f \in Surjection(A, All)
    BY DEF Surjection
  <2> HIDE DEF A, f, All
  <2> QED  BY <1>2, <2>1, FS_Surjection
<1>4. ASSUME NEW k \in Bookings, NEW p \in Network(d)[k] PROVE p \in All
  <2>1. /\ p.legs \in SUBSET L /\ p.first \in L /\ p.last \in L
        /\ p = Path(p.legs, p.first, p.last)
    BY EndsOfPath
  <2> DEFINE e == <<p.legs, <<p.first, p.last>>>>
  <2>2. e \in A
    BY <2>1
  <2>3. f[e] = Path(p.legs, p.first, p.last)
    BY <2>2
  <2> QED  BY <2>1, <2>2, <2>3
<1> QED  BY <1>3, <1>4

LEMMA CarriagesAreFinite ==
    ASSUME NEW d \in Datasets, NEW pl \in Plans(d, MaxEmpties)
    PROVE  /\ IsFiniteSet(Carriages(pl))
           /\ \A k \in Bookings : IsFiniteSet(PathsOf(pl, k))
           /\ \A c \in Carriages(pl) : c[1] \in Bookings /\ c[2] \in PathsOf(pl, c[1])
                                       /\ c = <<c[1], c[2]>>
<1>1. PICK All : IsFiniteSet(All) /\ \A k \in Bookings : Network(d)[k] \subseteq All
  BY PathsAreFinite
<1>2. \A k \in Bookings : PathsOf(pl, k) \subseteq All
  BY <1>1, PlanHasTheNetwork
<1>3. \A c \in Carriages(pl) : c[1] \in Bookings /\ c[2] \in PathsOf(pl, c[1])
                               /\ c = <<c[1], c[2]>>
  BY DEF Carriages
<1>4. Carriages(pl) \subseteq Bookings \X All
  BY <1>2, <1>3
<1>5. IsFiniteSet(Bookings \X All)
  BY <1>1, NetworkAssumption, FS_Product
<1> QED  BY <1>1, <1>2, <1>3, <1>4, <1>5, FS_Subset

\* What is booked and sent on a leg are numbers.
LEMMA LoadsAreNumbers ==
    ASSUME NEW d \in Datasets, NEW pl \in Plans(d, MaxEmpties), NEW i \in DOMAIN d.legs
    PROVE  LadenTeu(d, pl, i) \in Int /\ EmptyTeu(d, pl, i) \in Int
<1>1. LadenTeu(d, pl, i) \in Int
  <2> DEFINE S == {c \in Carriages(pl) : i \in c[2].legs}
             g == [c \in S |-> Teu(d.bookings[c[1]].type) * Units(pl.booked[c[1]][c[2]])]
  <2>1. IsFiniteSet(S) /\ DOMAIN g = S
    BY CarriagesAreFinite, FS_Subset
  <2>2. ASSUME NEW c \in S PROVE g[c] \in Int
    <3>1. c[1] \in Bookings /\ c[2] \in PathsOf(pl, c[1])
      BY CarriagesAreFinite
    <3>2. Teu(d.bookings[c[1]].type) \in Int
      BY <3>1, LegsOf, TypeAssumption
    <3>3. Units(pl.booked[c[1]][c[2]]) \in Int
      BY <3>1, PlanShape
    <3> QED  BY <3>2, <3>3
  <2>3. LadenTeu(d, pl, i) = SumFunction(g)
    BY DEF LadenTeu
  <2> HIDE DEF S, g
  <2> QED  BY <2>1, <2>2, <2>3, TotalIsSumOn
<1>2. EmptyTeu(d, pl, i) \in Int
  <2> DEFINE g == [t \in Types |-> Teu(t) * pl.empties[i][t]]
  <2>1. \A t \in Types : g[t] \in Int
    BY PlanShape, TypeAssumption
  <2>2. EmptyTeu(d, pl, i) = SumFunction(g) /\ DOMAIN g = Types
    BY DEF EmptyTeu
  <2> HIDE DEF g
  <2> QED  BY <2>1, <2>2, NetworkAssumption, TotalIsSumOn
<1> QED  BY <1>1, <1>2

LEMMA LegsFit == BoxesInv => LegsNotOverbooked
<1> SUFFICES ASSUME BoxesInv, plan.solved, NEW i \in DOMAIN data.legs
             PROVE  LadenTeu(data, plan, i) + EmptyTeu(data, plan, i)
                       + data.legs[i].booked_teu <= data.legs[i].teu
  BY DEF LegsNotOverbooked
<1>1. data \in Datasets /\ plan \in Plans(data, MaxEmpties)
  BY FiniteParts
<1>2. LadenTeu(data, plan, i) + EmptyTeu(data, plan, i)
        <= data.legs[i].teu - data.legs[i].booked_teu
  BY <1>1, PlanShape DEF Feasible, FitsAboard
<1>3. /\ LadenTeu(data, plan, i) \in Int /\ EmptyTeu(data, plan, i) \in Int
      /\ data.legs[i].teu \in Int /\ data.legs[i].booked_teu \in Int
  BY <1>1, LoadsAreNumbers, LegsOf
<1> QED  BY <1>2, <1>3

-----------------------------------------------------------------------------
(***************************************************************************)
(* The legs of a vessel never meet, so the one that is under way is the    *)
(* one its cargo is on.                                                    *)
(***************************************************************************)
LEMMA LeastOfOne == \A i \in Int : Min({i}) = i
BY DEF Min

LEMMA CargoWithVessel == BoxesInv => CargoIsWithItsVessel
<1> SUFFICES ASSUME BoxesInv, NoErrors(data), OneLegAtATime, NEW k \in Bookings,
                    status[k] = "IN_TRANSIT", NEW i \in path[k].legs,
                    data.legs[i].departure <= day, day < data.legs[i].arrival
             PROVE  Position(data.legs[i].vessel)
                       = [from |-> data.legs[i].from, to |-> data.legs[i].to]
  BY DEF CargoIsWithItsVessel
<1> DEFINE v == data.legs[i].vessel
<1>1. day \in Int
  BY DEF BoxesInv, StatusInv, Days
<1>2. path[k] # None
  BY InTransitHasSailed
<1>3. i \in DOMAIN data.legs
  BY <1>2, VoyageOfBooking
<1>4. \A j \in DOMAIN data.legs :
         /\ data.legs[j].departure \in Int /\ data.legs[j].arrival \in Int
         /\ data.legs[j].departure < data.legs[j].arrival
  BY FiniteParts, LegsOf DEF NoErrors, VoyagesValid, LegValid
<1>5. UnderWay(v) = {i}
  <2>1. i \in UnderWay(v)
    BY <1>1, <1>3, <1>4 DEF UnderWay
  <2>2. ASSUME NEW j \in UnderWay(v) PROVE j = i
    <3>1. /\ j \in DOMAIN data.legs /\ data.legs[j].vessel = data.legs[i].vessel
          /\ data.legs[j].departure <= day /\ day <= data.legs[j].arrival
      BY DEF UnderWay
    <3>2. j # i => \/ data.legs[j].arrival < data.legs[i].departure
                   \/ data.legs[i].arrival < data.legs[j].departure
      BY <1>3, <3>1 DEF OneLegAtATime
    <3> QED  BY <1>1, <1>3, <1>4, <3>1, <3>2
  <2> QED  BY <2>1, <2>2
<1>6. Min(UnderWay(v)) = i
  <2>1. i \in Int
    <3>1. data.legs \in Seq(Leg)
      BY FiniteParts, DatasetFields
    <3> QED  BY <1>3, <3>1
  <2> QED  BY <1>5, <2>1, LeastOfOne
<1>7. Max({data.legs[i].departure + 1, data.legs[i].arrival}) = data.legs[i].arrival
  BY <1>3, <1>4 DEF Max
<1> QED  BY <1>5, <1>6, <1>7 DEF Position

-----------------------------------------------------------------------------
(***************************************************************************)
(* What a port is told to load and what leaves its stock are the same      *)
(* sums, one over bookings and legs, the other type by type.               *)
(***************************************************************************)
FromPort(p) == {k \in Bookings : Sails(k, day) /\ Booked(k).origin = p}

\* A plan that splits no booking uses the path of its decision alone.
LEMMA OnlyPathUsed ==
    ASSUME BoxesInv, Executable, NEW k \in Bookings, NEW p \in Used(plan, k)
    PROVE  path[k] = p /\ path[k] # None
<1> DEFINE x == path[k]
<1>1. x # None /\ x \in Used(plan, k)
  BY DecisionsOfPlan
<1>2. IsFiniteSet(Used(plan, k)) /\ Cardinality(Used(plan, k)) <= 1
  <2>1. IsFiniteSet(PathsOf(plan, k))
    BY FiniteParts, CarriagesAreFinite
  <2> QED  BY <2>1, FS_Subset DEF Used, Executable
<1>3. Cardinality({p, x}) \in Nat /\ Cardinality({p, x}) <= 1
  <2>1. {p, x} \in SUBSET Used(plan, k)
    BY <1>1
  <2>2. Cardinality({p, x}) <= Cardinality(Used(plan, k)) /\ IsFiniteSet({p, x})
    BY <1>2, <2>1, FS_Subset
  <2>3. Cardinality(Used(plan, k)) \in Nat /\ Cardinality({p, x}) \in Nat
    BY <1>2, <2>2, FS_CardinalityType
  <2> QED  BY <1>2, <2>2, <2>3
<1>4. ASSUME p # x PROVE FALSE
  <2>1. Cardinality({p} \cup {x}) = Cardinality({p}) + 1
    BY <1>4, FS_AddElement, FS_Singleton
  <2>2. {p} \cup {x} = {p, x} /\ Cardinality({p}) = 1
    BY FS_Singleton
  <2> QED  BY <1>3, <2>1, <2>2
<1> QED  BY <1>1, <1>4

\* A booking served on one path and in full gets its quantity there.
LEMMA ServedInFull ==
    ASSUME BoxesInv, Executable, NEW k \in Bookings, path[k] # None,
           Unserved(data, plan, k) = 0
    PROVE  Booked(k).quantity - plan.booked[k][path[k]].lease = Owned(k)
<1> DEFINE T == PathsOf(plan, k)
           g == [p \in T |-> Units(plan.booked[k][p])]
           x == path[k]
           m == [p \in {x} |-> p]
<1>1. /\ x \in T /\ x \in Used(plan, k)
      /\ Owned(k) \in Nat /\ plan.booked[k][x].lease \in Nat
  BY DecisionsOfPlan
<1>2. /\ IsFiniteSet(T) /\ IsFiniteSet({x})
      /\ \A p \in T : g[p] \in Nat /\ g[p] = Units(plan.booked[k][p])
  BY FiniteParts, CarriagesAreFinite, PlanShape, FS_Singleton
<1>3. \A p \in T : p # x => g[p] = 0
  <2> SUFFICES ASSUME NEW p \in T, p # x PROVE g[p] = 0
    OBVIOUS
  <2>1. p \notin Used(plan, k)
    <3> SUFFICES ASSUME p \in Used(plan, k) PROVE FALSE
      OBVIOUS
    <3> QED  BY OnlyPathUsed
  <2> QED  BY <1>2, <2>1 DEF Used
<1>4. m \in [{x} -> T] /\ \A p \in {x} : m[p] = p
  BY <1>1
<1>5. SumFunctionOnSet(g, {x}) = SumFunctionOnSet(g, T)
  <2>1. \A y \in T : (\A p \in {x} : m[p] # y) => g[y] = 0
    BY <1>3, <1>4
  <2>2. \A p \in {x} : g[p] \in Int /\ g[m[p]] = g[p]
    BY <1>1, <1>2, <1>4
  <2> HIDE DEF T, g, x, m
  <2> QED  BY <1>2, <1>4, <2>1, <2>2, SumRenamed
<1>6. SumFunctionOnSet(g, {x}) = g[x] /\ g[x] \in Int
  <2>1. g[x] \in Int
    BY <1>1, <1>2
  <2> HIDE DEF g
  <2> QED  BY <2>1, SumOfOne
<1>7. SumFunction(g) = SumFunctionOnSet(g, T)
  <2>1. DOMAIN g = T
    OBVIOUS
  <2> HIDE DEF g
  <2> QED  BY <2>1, TotalIsSum
<1>8. Unserved(data, plan, k) = data.bookings[k].quantity - SumFunction(g)
  BY DEF Unserved, Executable
<1>9. g[x] = Owned(k) + plan.booked[k][x].lease
  BY <1>1 DEF Owned, Units
<1>10. Booked(k).quantity \in Int /\ Booked(k) = data.bookings[k]
  BY VoyageOfBooking DEF Booked
<1> HIDE DEF g
<1> QED  BY <1>1, <1>5, <1>6, <1>7, <1>8, <1>9, <1>10

LEMMA LadenOrderIsLoaded ==
    ASSUME BoxesInv, Executable, NEW p \in Ports,
           \A k \in Bookings : Booked(k).origin = p => Unserved(data, plan, k) = 0
    PROVE  LadenOrder(p) - LeasedToday(p) = SumFunction([t \in Types |-> LadenOut(p, t, day)])
<1> DEFINE S == FromPort(p)
           q == [k \in S |-> Booked(k).quantity]
           l == [k \in S |-> plan.booked[k][path[k]].lease]
           h == [t \in Types |-> LadenOut(p, t, day)]
           m == [k \in S |-> Booked(k).type]
           f == OwnedOf
<1>1. /\ LadenOrder(p) = SumFunction(q) /\ LeasedToday(p) = SumFunction(l)
      /\ DOMAIN q = S /\ DOMAIN l = S
  BY DEF LadenOrder, LeasedToday, FromPort
<1>2. S \subseteq Bookings /\ IsFiniteSet(S) /\ \A k \in S : path[k] # None
  BY NetworkAssumption, FS_Subset DEF FromPort, Sails
<1>3. ASSUME NEW k \in S
      PROVE  q[k] \in Int /\ l[k] \in Int /\ f[k] \in Int /\ f[k] = q[k] - l[k]
  <2>1. k \in Bookings /\ path[k] # None /\ Booked(k).origin = p
    BY <1>2 DEF FromPort
  <2>2. Booked(k).quantity - plan.booked[k][path[k]].lease = Owned(k)
    BY <2>1, ServedInFull
  <2>3. /\ Booked(k).quantity \in Int /\ plan.booked[k][path[k]].lease \in Int
        /\ Owned(k) \in Int
    BY <2>1, DecisionsOfPlan, VoyageOfBooking
  <2> QED  BY <2>1, <2>2, <2>3 DEF OwnedOf
<1>4. m \in [S -> Types]
  BY <1>2, VoyageOfBooking
<1>5. ASSUME NEW t \in Types
      PROVE  h[t] = SumFunctionOnSet(f, {k \in S : m[k] = t})
  <2>1. {k \in S : m[k] = t} = SailingFrom(p, t, day)
    BY DEF FromPort, SailingFrom
  <2>2. LadenOut(p, t, day) = SumFunctionOnSet(f, SailingFrom(p, t, day))
    BY FlowsAreSums
  <2> QED  BY <2>1, <2>2
<1>6. DOMAIN h = Types /\ IsFiniteSet(Types)
  BY NetworkAssumption
<1> HIDE DEF S, q, l, h, m, f
<1>7. SumFunctionOnSet(h, Types) = SumFunctionOnSet(f, S)
  BY <1>2, <1>3, <1>4, <1>5, <1>6, SumByParts
<1>8. SumFunctionOnSet(f, S) = SumFunctionOnSet(q, S) - SumFunctionOnSet(l, S)
  BY <1>2, <1>3, SumsSubtract
<1>9. /\ SumFunction(q) = SumFunctionOnSet(q, S) /\ SumFunction(l) = SumFunctionOnSet(l, S)
      /\ SumFunction(h) = SumFunctionOnSet(h, Types)
  BY <1>1, <1>6, TotalIsSum
<1>10. LadenOrder(p) - LeasedToday(p) = SumFunction(h)
  BY <1>1, <1>7, <1>8, <1>9
<1> QED  BY <1>10 DEF h

LEMMA EmptyOrderIsLoaded ==
    ASSUME BoxesInv, NEW p \in Ports
    PROVE  EmptyOrder(p) = SumFunction([t \in Types |-> Teu(t) * EmptiesOut(p, t, day)])
<1> DEFINE S == DepartingFrom(p, day)
           f == [i \in S |-> [t \in Types |-> Teu(t) * plan.empties[i][t]]]
           g == [t \in Types |-> [i \in S |-> Teu(t) * plan.empties[i][t]]]
           row == [i \in S |-> EmptyTeu(data, plan, i)]
           column == [t \in Types |-> Teu(t) * EmptiesOut(p, t, day)]
<1>1. EmptyOrder(p) = SumFunction(row) /\ DOMAIN row = S /\ DOMAIN column = Types
  BY DEF EmptyOrder, DepartingFrom
<1>2. S \subseteq DOMAIN data.legs /\ IsFiniteSet(S) /\ IsFiniteSet(Types)
  BY FiniteParts, NetworkAssumption, FS_Subset DEF DepartingFrom
<1>3. \A i \in S, t \in Types : /\ plan.empties[i][t] \in Int /\ Teu(t) \in Int
                                /\ Teu(t) * plan.empties[i][t] \in Int
  <2>1. plan.empties \in [DOMAIN data.legs -> [Types -> Nat]]
    BY FiniteParts, PlanShape
  <2>2. \A i \in S, t \in Types : plan.empties[i][t] \in Nat /\ Teu(t) \in Nat
    BY <1>2, <2>1, TypeAssumption
  <2> QED  BY <2>2
<1>4. \A i \in S, t \in Types : /\ f[i][t] = Teu(t) * plan.empties[i][t]
                                /\ g[t][i] = f[i][t] /\ f[i][t] \in Int
  BY <1>3
<1>5. ASSUME NEW i \in S PROVE row[i] = SumFunctionOnSet(f[i], Types)
  <2>1. row[i] = SumFunction(f[i]) /\ DOMAIN f[i] = Types
    BY DEF EmptyTeu
  <2> HIDE DEF f, row
  <2> QED  BY <2>1, TotalIsSum
<1>6. ASSUME NEW t \in Types PROVE column[t] = SumFunctionOnSet(g[t], S)
  <2> DEFINE e == EmptiesOf(t)
             n == Teu(t)
  <2>1. \A i \in S : e[i] \in Int /\ g[t][i] = n * e[i]
    BY <1>2, <1>3 DEF EmptiesOf
  <2>2. EmptiesOut(p, t, day) = SumFunctionOnSet(e, S)
    BY FlowsAreSums
  <2>3. n \in Int
    BY TypeAssumption
  <2>4. column[t] = n * EmptiesOut(p, t, day)
    OBVIOUS
  <2> HIDE DEF e, n, g, column, S
  <2>5. SumFunctionOnSet(g[t], S) = n * SumFunctionOnSet(e, S)
    BY <1>2, <2>1, <2>3, SumScaled
  <2> QED  BY <2>2, <2>4, <2>5
<1> HIDE DEF S, f, g, row, column
<1>7. SumFunctionOnSet(row, S) = SumFunctionOnSet(column, Types)
  <2>1. \A i \in S, t \in Types : f[i][t] \in Int
    BY <1>4
  <2>2. \A t \in Types, i \in S : g[t][i] = f[i][t]
    BY <1>4
  <2>3. \A i \in S : row[i] = SumFunctionOnSet(f[i], Types)
    BY <1>5
  <2>4. \A t \in Types : column[t] = SumFunctionOnSet(g[t], S)
    BY <1>6
  <2>5. IsFiniteSet(S) /\ IsFiniteSet(Types)
    BY <1>2
  <2> QED  BY <2>1, <2>2, <2>3, <2>4, <2>5, SumsSwap
<1>8. EmptyOrder(p) = SumFunction(column)
  <2>1. SumFunction(row) = SumFunctionOnSet(row, S)
        /\ SumFunction(column) = SumFunctionOnSet(column, Types)
    BY <1>1, TotalIsSum
  <2> QED  BY <1>1, <1>7, <2>1
<1> QED  BY <1>8 DEF column

LEMMA OrdersMatch == BoxesInv => OrdersMatchOutflow
BY LadenOrderIsLoaded, EmptyOrderIsLoaded DEF OrdersMatchOutflow

\* The snapshot of any day agrees with what the step has made of bookings,
\* vessels, legs and stock, for any dataset and any plan.
THEOREM SnapshotsAreTrue == Spec => []SnapshotIsTrue
<1>1. BoxesInv => SnapshotIsTrue
  BY StatusGivesDirective, CargoWithVessel, LegsFit, OrdersMatch DEF SnapshotIsTrue, BoxesInv
<1> QED  BY <1>1, BoxesInvariant, PTL

-----------------------------------------------------------------------------
(***************************************************************************)
(* The stock the plan counts on, day by day                                *)
(***************************************************************************)
CarriagesTo(d, pl, p, t, n) ==
    {c \in Carriages(pl) : /\ d.bookings[c[1]].destination = p /\ d.bookings[c[1]].type = t
                           /\ d.legs[c[2].last].arrival + d.ports[p].lead = n}
CarriagesFrom(d, pl, p, t, n) ==
    {c \in Carriages(pl) : /\ d.bookings[c[1]].origin = p /\ d.bookings[c[1]].type = t
                           /\ d.legs[c[2].first].departure = n}
OwnOf(pl) == [c \in Carriages(pl) |-> pl.booked[c[1]][c[2]].own]

LegsTo(d, p, n) == {i \in DOMAIN d.legs : d.legs[i].to = p /\ d.legs[i].arrival = n}
LegsFrom(d, p, n) == {i \in DOMAIN d.legs : d.legs[i].from = p /\ d.legs[i].departure = n}
SentAs(d, pl, t) == [i \in DOMAIN d.legs |-> pl.empties[i][t]]

LEMMA PlannedFlows ==
    ASSUME NEW d \in Datasets, NEW pl \in Plans(d, MaxEmpties),
           NEW p \in Ports, NEW t \in Types, NEW n
    PROVE  /\ Inflow(d, pl, p, t, n)
                = SumFunctionOnSet(SentAs(d, pl, t), LegsTo(d, p, n))
                  + SumFunctionOnSet(OwnOf(pl), CarriagesTo(d, pl, p, t, n))
           /\ Outflow(d, pl, p, t, n)
                = SumFunctionOnSet(SentAs(d, pl, t), LegsFrom(d, p, n))
                  + SumFunctionOnSet(OwnOf(pl), CarriagesFrom(d, pl, p, t, n))
           /\ Inflow(d, pl, p, t, n) \in Int /\ Outflow(d, pl, p, t, n) \in Int
<1>1. /\ \A i \in DOMAIN d.legs : /\ SentAs(d, pl, t)[i] = pl.empties[i][t]
                                  /\ pl.empties[i][t] \in Int
      /\ IsFiniteSet(DOMAIN d.legs)
  BY PlanShape, LegsOf DEF SentAs
<1>2. /\ \A c \in Carriages(pl) : /\ OwnOf(pl)[c] = pl.booked[c[1]][c[2]].own
                                  /\ pl.booked[c[1]][c[2]].own \in Int
      /\ IsFiniteSet(Carriages(pl))
  BY CarriagesAreFinite, PlanShape DEF OwnOf
<1>3. ASSUME NEW S, S \subseteq DOMAIN d.legs, NEW g, g = [i \in S |-> pl.empties[i][t]]
      PROVE  /\ SumFunction(g) = SumFunctionOnSet(SentAs(d, pl, t), S)
             /\ SumFunction(g) \in Int
  <2>1. /\ IsFiniteSet(S) /\ DOMAIN g = S
        /\ \A i \in S : SentAs(d, pl, t)[i] \in Int /\ g[i] = SentAs(d, pl, t)[i]
    BY <1>1, <1>3, FS_Subset
  <2> QED  BY <2>1, TotalIsSumOn
<1>4. ASSUME NEW S, S \subseteq Carriages(pl),
             NEW g, g = [c \in S |-> pl.booked[c[1]][c[2]].own]
      PROVE  /\ SumFunction(g) = SumFunctionOnSet(OwnOf(pl), S)
             /\ SumFunction(g) \in Int
  <2>1. /\ IsFiniteSet(S) /\ DOMAIN g = S
        /\ \A c \in S : OwnOf(pl)[c] \in Int /\ g[c] = OwnOf(pl)[c]
    BY <1>2, <1>4, FS_Subset
  <2> QED  BY <2>1, TotalIsSumOn
<1> DEFINE to == [i \in LegsTo(d, p, n) |-> pl.empties[i][t]]
           from == [i \in LegsFrom(d, p, n) |-> pl.empties[i][t]]
           back == [c \in CarriagesTo(d, pl, p, t, n) |-> pl.booked[c[1]][c[2]].own]
           out == [c \in CarriagesFrom(d, pl, p, t, n) |-> pl.booked[c[1]][c[2]].own]
<1>5. /\ LegsTo(d, p, n) \subseteq DOMAIN d.legs /\ LegsFrom(d, p, n) \subseteq DOMAIN d.legs
      /\ CarriagesTo(d, pl, p, t, n) \subseteq Carriages(pl)
      /\ CarriagesFrom(d, pl, p, t, n) \subseteq Carriages(pl)
  BY DEF LegsTo, LegsFrom, CarriagesTo, CarriagesFrom
<1>6. /\ Inflow(d, pl, p, t, n) = SumFunction(to) + SumFunction(back)
      /\ Outflow(d, pl, p, t, n) = SumFunction(from) + SumFunction(out)
  BY DEF Inflow, Outflow, LegsTo, LegsFrom, CarriagesTo, CarriagesFrom
<1>7. /\ SumFunction(to) = SumFunctionOnSet(SentAs(d, pl, t), LegsTo(d, p, n))
      /\ SumFunction(to) \in Int
  BY <1>3, <1>5
<1>8. /\ SumFunction(from) = SumFunctionOnSet(SentAs(d, pl, t), LegsFrom(d, p, n))
      /\ SumFunction(from) \in Int
  BY <1>3, <1>5
<1>9. /\ SumFunction(back) = SumFunctionOnSet(OwnOf(pl), CarriagesTo(d, pl, p, t, n))
      /\ SumFunction(back) \in Int
  BY <1>4, <1>5
<1>10. /\ SumFunction(out) = SumFunctionOnSet(OwnOf(pl), CarriagesFrom(d, pl, p, t, n))
       /\ SumFunction(out) \in Int
  BY <1>4, <1>5
<1> HIDE DEF to, from, back, out
<1> QED  BY <1>6, <1>7, <1>8, <1>9, <1>10

(***************************************************************************)
(* Planned is defined by recursion over the days. There is such a table,   *)
(* the sums of the flows so far, so the definition means one.              *)
(***************************************************************************)
LEMMA PlannedDayByDay ==
    ASSUME NEW d \in Datasets, NEW pl \in Plans(d, MaxEmpties),
           NEW p \in Ports, NEW t \in Types
    PROVE  \A n \in Days :
              Planned(d, pl, p, t)[n]
                = (IF n = 0 THEN d.stock[p][t] ELSE Planned(d, pl, p, t)[n - 1])
                  + Inflow(d, pl, p, t, n) - Outflow(d, pl, p, t, n)
<1> DEFINE in(n) == Inflow(d, pl, p, t, n)
           out(n) == Outflow(d, pl, p, t, n)
           s == d.stock[p][t]
           net == [n \in Days |-> in(n) - out(n)]
           g == [n \in Days |-> s + SumFunctionOnSet(net, 0..n)]
           I == CHOOSE I : I = [n \in Days |-> (IF n = 0 THEN s ELSE I[n - 1]) + in(n) - out(n)]
<1>1. s \in Int
  BY LegsOf
<1>2. \A n \in Days : in(n) \in Int /\ out(n) \in Int /\ net[n] = in(n) - out(n)
                      /\ net[n] \in Int
  BY PlannedFlows
<1>3. Planned(d, pl, p, t) = I
  BY DEF Planned
<1> HIDE DEF in, out, net, s
<1>4. ASSUME NEW n \in Days
      PROVE  g[n] = (IF n = 0 THEN s ELSE g[n - 1]) + in(n) - out(n)
  <2>1. n \in Nat /\ 0..n \subseteq Days
    BY HorizonAssumption DEF Days
  <2>2. CASE n = 0
    <3>1. 0..n = {0}
      BY <2>2
    <3>2. SumFunctionOnSet(net, 0..n) = net[0]
      BY <1>2, <2>2, <3>1, SumOfOne
    <3> QED  BY <1>1, <1>2, <2>2, <3>2
  <2>3. CASE n # 0
    <3>1. /\ 0..n = (0..(n - 1)) \union {n} /\ n \notin 0..(n - 1)
          /\ n - 1 \in Days /\ 0..(n - 1) \subseteq Days
      BY <2>1, <2>3, HorizonAssumption DEF Days
    <3>2. IsFiniteSet(0..(n - 1))
      BY <2>1, FS_Interval
    <3>3. SumFunctionOnSet(net, 0..(n - 1)) \in Int
      BY <1>2, <3>1, <3>2, SumIsInt
    <3>4. SumFunctionOnSet(net, (0..(n - 1)) \union {n})
            = SumFunctionOnSet(net, 0..(n - 1)) + net[n]
      <4> DEFINE B == 0..(n - 1)
      <4>1. /\ IsFiniteSet(B) /\ n \notin B /\ net[n] \in Int
            /\ \A y \in B : net[y] \in Int
        BY <1>2, <3>1, <3>2
      <4> HIDE DEF B
      <4>2. SumFunctionOnSet(net, B \union {n}) = SumFunctionOnSet(net, B) + net[n]
        BY <4>1, SumGrows
      <4> QED  BY <4>2 DEF B
    <3>5. g[n] = s + SumFunctionOnSet(net, (0..(n - 1)) \union {n})
      BY <3>1
    <3>6. g[n - 1] = s + SumFunctionOnSet(net, 0..(n - 1))
      BY <3>1
    <3> HIDE DEF g
    <3> QED  BY <1>1, <1>2, <2>3, <3>3, <3>4, <3>5, <3>6
  <2> QED  BY <2>2, <2>3
<1>5. g = [n \in Days |-> (IF n = 0 THEN s ELSE g[n - 1]) + in(n) - out(n)]
  <2>1. \A n \in Days : g[n] = (IF n = 0 THEN s ELSE g[n - 1]) + in(n) - out(n)
    BY <1>4
  <2>2. g = [n \in Days |-> g[n]]
    OBVIOUS
  <2> HIDE DEF g
  <2> QED  BY <2>1, <2>2
<1> HIDE DEF g
<1>6. I = [n \in Days |-> (IF n = 0 THEN s ELSE I[n - 1]) + in(n) - out(n)]
  BY <1>5, Zenon
<1> HIDE DEF I
<1>7. \A n \in Days : I[n] = (IF n = 0 THEN s ELSE I[n - 1]) + in(n) - out(n)
  BY <1>6
<1> QED  BY <1>3, <1>7 DEF in, out, s

-----------------------------------------------------------------------------
(***************************************************************************)
(* The stock the engine keeps is the one the plan counts on. The queue is  *)
(* known: whatever has landed and is still being unpacked.                 *)
(***************************************************************************)
Lead(k) == data.ports[Booked(k).destination].lead

EntryOf(k) ==
    [booking |-> k, port |-> Booked(k).destination, type |-> Booked(k).type,
     day |-> Arrival(k) + Lead(k), quantity |-> Owned(k)]

Unpacking(n) ==
    {k \in Bookings : /\ path[k] # None /\ Owned(k) > 0
                      /\ Arrival(k) <= n /\ n < Arrival(k) + Lead(k)}

FollowInv ==
    /\ BoxesInv
    /\ Executable => /\ devanning = {EntryOf(k) : k \in Unpacking(day)}
                     /\ StockFollowsPlan

LEMMA LeadIsInt ==
    ASSUME BoxesInv, NEW k \in Bookings
    PROVE  /\ Lead(k) \in Int
           /\ Executable => Lead(k) > 0
           /\ Executable /\ path[k] # None => Departure(k) > 0 /\ Arrival(k) > 0
<1>1. Booked(k).destination \in Ports
  BY VoyageOfBooking
<1>2. path[k] # None => /\ path[k].first \in DOMAIN data.legs
                        /\ path[k].last \in DOMAIN data.legs
  BY VoyageOfBooking
<1> QED  BY <1>1, <1>2, FiniteParts, LegsOf DEF Lead, Executable, Departure, Arrival

\* What leaves a port on a day is what the plan has leave it.
LEMMA OutflowAsPlanned ==
    ASSUME BoxesInv, Executable, NEW p \in Ports, NEW t \in Types, NEW n \in Int
    PROVE  LadenOut(p, t, n) + EmptiesOut(p, t, n) = Outflow(data, plan, p, t, n)
<1>0. data \in Datasets /\ plan \in Plans(data, MaxEmpties)
  BY FiniteParts
<1>1. EmptiesOut(p, t, n) = SumFunctionOnSet(SentAs(data, plan, t), LegsFrom(data, p, n))
  <2>1. EmptiesOf(t) = SentAs(data, plan, t) /\ DepartingFrom(p, n) = LegsFrom(data, p, n)
    BY DEF EmptiesOf, SentAs, DepartingFrom, LegsFrom
  <2> QED  BY <2>1, FlowsAreSums
<1>2. LadenOut(p, t, n) = SumFunctionOnSet(OwnOf(plan), CarriagesFrom(data, plan, p, t, n))
  <2> DEFINE S == SailingFrom(p, t, n)
             T == CarriagesFrom(data, plan, p, t, n)
             m == [k \in S |-> <<k, path[k]>>]
             f == OwnedOf
             g == OwnOf(plan)
  <2>1. IsFiniteSet(S) /\ IsFiniteSet(T)
    <3>1. S \subseteq Bookings /\ T \subseteq Carriages(plan)
      BY DEF SailingFrom, CarriagesFrom
    <3> QED  BY <1>0, <3>1, NetworkAssumption, CarriagesAreFinite, FS_Subset
  <2>2. ASSUME NEW k \in S
        PROVE  m[k] \in T /\ f[k] \in Int /\ g[m[k]] = f[k]
    <3>1. /\ k \in Bookings /\ path[k] # None /\ Departure(k) = n
          /\ Booked(k).origin = p /\ Booked(k).type = t
      BY DEF SailingFrom, Sails
    <3>2. path[k] \in PathsOf(plan, k) /\ Owned(k) \in Nat
      BY <3>1, DecisionsOfPlan
    <3>3. <<k, path[k]>> \in Carriages(plan)
      BY <3>1, <3>2 DEF Carriages
    <3>4. <<k, path[k]>> \in T
      BY <3>1, <3>3 DEF CarriagesFrom, Booked, Departure
    <3>5. g[<<k, path[k]>>] = Owned(k)
      BY <3>3 DEF OwnOf, Owned
    <3> QED  BY <3>1, <3>2, <3>4, <3>5 DEF OwnedOf
  <2>3. \A x, y \in S : m[x] = m[y] => x = y
    OBVIOUS
  <2>4. ASSUME NEW c \in T, \A k \in S : m[k] # c PROVE g[c] = 0
    <3>1. /\ c[1] \in Bookings /\ c[2] \in PathsOf(plan, c[1]) /\ c = <<c[1], c[2]>>
          /\ data.bookings[c[1]].origin = p /\ data.bookings[c[1]].type = t
          /\ data.legs[c[2].first].departure = n /\ c \in Carriages(plan)
      BY <1>0, CarriagesAreFinite DEF CarriagesFrom
    <3>2. g[c] = plan.booked[c[1]][c[2]].own /\ g[c] \in Nat
      BY <1>0, <3>1, PlanShape DEF OwnOf
    <3>3. ASSUME g[c] # 0 PROVE FALSE
      <4>1. c[2] \in Used(plan, c[1])
        BY <1>0, <3>1, <3>2, <3>3, PlanShape DEF Used
      <4>2. path[c[1]] = c[2] /\ path[c[1]] # None
        BY <3>1, <4>1, OnlyPathUsed
      <4>3. c[1] \in S
        BY <3>1, <4>2 DEF SailingFrom, Sails, Departure, Booked
      <4> QED  BY <2>4, <3>1, <4>2, <4>3
    <3> QED  BY <3>3
  <2>5. m \in [S -> T]
    BY <2>2
  <2> HIDE DEF S, T, m, f, g
  <2>6. SumFunctionOnSet(f, S) = SumFunctionOnSet(g, T)
    BY <2>1, <2>2, <2>3, <2>4, <2>5, SumRenamed
  <2>7. LadenOut(p, t, n) = SumFunctionOnSet(f, S)
    BY FlowsAreSums DEF f, S
  <2> QED  BY <2>6, <2>7 DEF g, T
<1>3. EmptiesOut(p, t, n) \in Int /\ LadenOut(p, t, n) \in Int
  BY FlowsAreSums
<1> QED  BY <1>0, <1>1, <1>2, <1>3, PlannedFlows

\* What comes back to a port on the next day is what the plan has come back.
LEMMA InflowAsPlanned ==
    ASSUME FollowInv, Executable, NEW p \in Ports, NEW t \in Types, NEW n, n = day + 1
    PROVE  Devanned(p, t, n) + EmptiesIn(p, t, n) = Inflow(data, plan, p, t, n)
<1>0. /\ data \in Datasets /\ plan \in Plans(data, MaxEmpties) /\ BoxesInv
      /\ day \in Int /\ n \in Int
      /\ devanning = {EntryOf(k) : k \in Unpacking(day)}
  BY FiniteParts DEF FollowInv, BoxesInv, StatusInv, Days
<1>1. EmptiesIn(p, t, n) = SumFunctionOnSet(SentAs(data, plan, t), LegsTo(data, p, n))
  <2>1. EmptiesOf(t) = SentAs(data, plan, t) /\ ArrivingAt(p, n) = LegsTo(data, p, n)
    BY DEF EmptiesOf, SentAs, ArrivingAt, LegsTo
  <2>2. EmptiesIn(p, t, n) = SumFunctionOnSet(EmptiesOf(t), ArrivingAt(p, n))
    BY <1>0, FlowsAreSums, Zenon
  <2> QED  BY <2>1, <2>2, Zenon
<1>2. Devanned(p, t, n) = SumFunctionOnSet(OwnOf(plan), CarriagesTo(data, plan, p, t, n))
  <2> DEFINE S == DevannedAt(p, t, n)
             T == CarriagesTo(data, plan, p, t, n)
             m == [e \in S |-> <<e.booking, path[e.booking]>>]
             f == QuantityIn(devanning)
             g == OwnOf(plan)
  <2>1. IsFiniteSet(S) /\ IsFiniteSet(T)
    <3>1. S \subseteq devanning /\ T \subseteq Carriages(plan)
      BY DEF DevannedAt, CarriagesTo
    <3> QED  BY <1>0, <3>1, FiniteParts, CarriagesAreFinite, FS_Subset
  <2>2. ASSUME NEW e \in S
        PROVE  /\ m[e] \in T /\ f[e] \in Int /\ g[m[e]] = f[e]
               /\ e = EntryOf(e.booking)
    <3>1. PICK k \in Unpacking(day) : e = EntryOf(k)
      BY <1>0 DEF DevannedAt
    <3>2. /\ e.booking = k /\ e.port = Booked(k).destination /\ e.type = Booked(k).type
          /\ e.day = Arrival(k) + Lead(k) /\ e.quantity = Owned(k)
      BY <3>1 DEF EntryOf
    <3>3. k \in Bookings /\ path[k] # None
      BY DEF Unpacking
    <3>4. /\ Booked(k).destination = p /\ Booked(k).type = t /\ Arrival(k) + Lead(k) = n
          /\ e \in devanning
      BY <3>2 DEF DevannedAt
    <3>5. path[k] \in PathsOf(plan, k) /\ Owned(k) \in Nat
      BY <1>0, <3>3, DecisionsOfPlan
    <3>6. <<k, path[k]>> \in Carriages(plan)
      BY <3>3, <3>5 DEF Carriages
    <3>7. <<k, path[k]>> \in T
      BY <3>4, <3>6 DEF CarriagesTo, Booked, Arrival, Lead
    <3>8. g[<<k, path[k]>>] = Owned(k)
      BY <3>6 DEF OwnOf, Owned
    <3>9. f[e] = Owned(k)
      BY <3>2, <3>4 DEF QuantityIn
    <3> QED  BY <3>1, <3>2, <3>5, <3>7, <3>8, <3>9
  <2>3. \A x, y \in S : m[x] = m[y] => x = y
    <3> SUFFICES ASSUME NEW x \in S, NEW y \in S, m[x] = m[y] PROVE x = y
      OBVIOUS
    <3>1. x.booking = y.booking
      OBVIOUS
    <3> HIDE DEF S
    <3> QED  BY <2>2, <3>1
  <2>4. ASSUME NEW c \in T, \A e \in S : m[e] # c PROVE g[c] = 0
    <3>1. /\ c[1] \in Bookings /\ c[2] \in PathsOf(plan, c[1]) /\ c = <<c[1], c[2]>>
          /\ data.bookings[c[1]].destination = p /\ data.bookings[c[1]].type = t
          /\ data.legs[c[2].last].arrival + data.ports[p].lead = n /\ c \in Carriages(plan)
      BY <1>0, CarriagesAreFinite DEF CarriagesTo
    <3>2. g[c] = plan.booked[c[1]][c[2]].own /\ g[c] \in Nat
      BY <1>0, <3>1, PlanShape DEF OwnOf
    <3>3. ASSUME g[c] # 0 PROVE FALSE
      <4> DEFINE k == c[1]
                 e == EntryOf(k)
      <4>1. c[2] \in Used(plan, k)
        BY <1>0, <3>1, <3>2, <3>3, PlanShape DEF Used
      <4>2. path[k] = c[2] /\ path[k] # None
        BY <1>0, <3>1, <4>1, OnlyPathUsed
      <4>3. /\ Booked(k).destination = p /\ Booked(k).type = t
            /\ Arrival(k) + Lead(k) = n /\ Owned(k) = g[c] /\ Owned(k) > 0
        BY <3>1, <3>2, <3>3, <4>2 DEF Booked, Arrival, Lead, Owned
      <4>4. Arrival(k) \in Int /\ Lead(k) \in Int /\ Lead(k) > 0
        BY <1>0, <3>1, <4>2, LeadIsInt, VoyageOfBooking
      <4>5. k \in Unpacking(day)
        BY <1>0, <3>1, <4>2, <4>3, <4>4 DEF Unpacking
      <4>6. e \in devanning /\ e.port = p /\ e.type = t /\ e.day = n /\ e.booking = k
        BY <1>0, <4>3, <4>5 DEF EntryOf
      <4>7. e \in S
        BY <4>6 DEF DevannedAt
      <4>8. m[e] = c
        BY <3>1, <4>2, <4>6, <4>7
      <4> QED  BY <2>4, <4>7, <4>8
    <3> QED  BY <3>3
  <2>5. m \in [S -> T]
    BY <2>2
  <2> HIDE DEF S, T, m, f, g
  <2>6. SumFunctionOnSet(f, S) = SumFunctionOnSet(g, T)
    BY <2>1, <2>2, <2>3, <2>4, <2>5, SumRenamed
  <2>7. Devanned(p, t, n) = SumFunctionOnSet(f, S)
    BY <1>0, FlowsAreSums DEF f, S
  <2> QED  BY <2>6, <2>7 DEF g, T
<1>3. EmptiesIn(p, t, n) \in Int /\ Devanned(p, t, n) \in Int
  BY <1>0, FlowsAreSums
<1> QED  BY <1>0, <1>1, <1>2, <1>3, PlannedFlows

LEMMA InitFollow == Init => FollowInv
<1> SUFFICES ASSUME Init PROVE FollowInv
  OBVIOUS
<1>1. BoxesInv /\ day = 0 /\ devanning = {} /\ stock = data.stock
  BY InitBoxes DEF Init
<1>2. ASSUME Executable PROVE devanning = {EntryOf(k) : k \in Unpacking(day)}
  <2>1. \A k \in Bookings : path[k] # None => Arrival(k) > 0 /\ Arrival(k) \in Int
    BY <1>1, <1>2, LeadIsInt, VoyageOfBooking
  <2>2. Unpacking(day) = {}
    BY <1>1, <2>1 DEF Unpacking
  <2> QED  BY <1>1, <2>2
<1>3. ASSUME Executable, NEW p \in Ports, NEW t \in Types
      PROVE  stock[p][t] = Planned(data, plan, p, t)[day]
  <2>0. /\ data \in Datasets /\ plan \in Plans(data, MaxEmpties) /\ 0 \in Days
        /\ data.stock[p][t] \in Int
    BY <1>1, FiniteParts, LegsOf, HorizonAssumption DEF Days
  <2>1. LegsTo(data, p, 0) = {} /\ LegsFrom(data, p, 0) = {}
    BY <1>3, <2>0, LegsOf DEF LegsTo, LegsFrom, Executable
  <2>2. \A c \in Carriages(plan) : c[2].first \in DOMAIN data.legs
                                   /\ c[2].last \in DOMAIN data.legs
    BY <2>0, CarriagesAreFinite, PlanHasTheNetwork, EndsOfPath
  <2>3. /\ \A c \in Carriages(plan) : data.legs[c[2].last].arrival + data.ports[p].lead # 0
        /\ \A c \in Carriages(plan) : data.legs[c[2].first].departure # 0
    <3>1. /\ data.ports[p].lead > 0 /\ data.ports[p].lead \in Int
          /\ \A i \in DOMAIN data.legs :
                /\ data.legs[i].departure > 0 /\ data.legs[i].departure \in Int
                /\ data.legs[i].arrival > 0 /\ data.legs[i].arrival \in Int
      BY <1>3, <2>0, LegsOf DEF Executable
    <3> QED  BY <2>2, <3>1
  <2>4. CarriagesTo(data, plan, p, t, 0) = {} /\ CarriagesFrom(data, plan, p, t, 0) = {}
    BY <2>3 DEF CarriagesTo, CarriagesFrom
  <2>5. Inflow(data, plan, p, t, 0) = 0 /\ Outflow(data, plan, p, t, 0) = 0
    BY <2>0, <2>1, <2>4, PlannedFlows, SumOfNothing
  <2>6. Planned(data, plan, p, t)[0]
          = data.stock[p][t] + Inflow(data, plan, p, t, 0) - Outflow(data, plan, p, t, 0)
    BY <2>0, PlannedDayByDay
  <2> QED  BY <1>1, <2>0, <2>5, <2>6
<1> QED  BY <1>1, <1>2, <1>3 DEF FollowInv, StockFollowsPlan

LEMMA StepFollow == FollowInv /\ Step => FollowInv'
<1> SUFFICES ASSUME FollowInv, Step PROVE FollowInv'
  OBVIOUS
<1>1. BoxesInv /\ BoxesInv'
  BY StepBoxes DEF FollowInv
<1>2. /\ data' = data /\ plan' = plan /\ path' = path
      /\ day' = day + 1 /\ day \in Nat /\ day' \in Days /\ day \in Days
      /\ stock' = StockAfter(day') /\ devanning' = QueueAfter(day')
  BY <1>1, HorizonAssumption DEF BoxesInv, StatusInv, Step, fixed, Days
<1>3. Executable' = Executable
  BY <1>2 DEF Executable
<1>4. ASSUME Executable PROVE devanning' = {EntryOf(k) : k \in Unpacking(day')}
  <2>1. devanning = {EntryOf(k) : k \in Unpacking(day)}
    BY <1>4 DEF FollowInv
  <2>2. \A k \in Bookings : path[k] # None =>
           Arrival(k) \in Int /\ Lead(k) \in Int /\ Lead(k) > 0
    BY <1>1, <1>4, LeadIsInt, VoyageOfBooking
  <2>3. Queued(day') = {EntryOf(k) : k \in {k \in Bookings : Lands(k, day') /\ Owned(k) > 0}}
    <3>1. \A k \in Bookings : Lands(k, day') =>
             EntryOf(k) = [booking |-> k, port |-> Booked(k).destination,
                           type |-> Booked(k).type,
                           day |-> day' + data.ports[Booked(k).destination].lead,
                           quantity |-> Owned(k)]
      BY DEF EntryOf, Lead, Lands
    <3> QED  BY <3>1 DEF Queued
  <2>4. {e \in devanning : e.day # day'}
          = {EntryOf(k) : k \in {k \in Unpacking(day) : Arrival(k) + Lead(k) # day'}}
    <3>1. \A k \in Bookings : EntryOf(k).day = Arrival(k) + Lead(k)
      BY DEF EntryOf
    <3>2. Unpacking(day) \subseteq Bookings
      BY DEF Unpacking
    <3> QED  BY <2>1, <3>1, <3>2
  <2>5. Unpacking(day')
          = {k \in Unpacking(day) : Arrival(k) + Lead(k) # day'}
            \union {k \in Bookings : Lands(k, day') /\ Owned(k) > 0}
    BY <1>2, <2>2 DEF Unpacking, Lands
  <2> QED  BY <1>2, <2>3, <2>4, <2>5 DEF QueueAfter
<1>5. ASSUME Executable
      PROVE  {EntryOf(k) : k \in Unpacking(day)}' = {EntryOf(k) : k \in Unpacking(day')}
  <2>1. \A k \in Bookings : EntryOf(k)' = EntryOf(k)
    BY <1>2 DEF EntryOf, Booked, Arrival, Lead, Owned
  <2>2. Unpacking(day)' = Unpacking(day')
    BY <1>2 DEF Unpacking, Arrival, Booked, Lead, Owned
  <2>3. Unpacking(day') \subseteq Bookings
    BY DEF Unpacking
  <2> QED  BY <2>1, <2>2, <2>3
<1>6. ASSUME Executable, NEW p \in Ports, NEW t \in Types
      PROVE  stock'[p][t] = Planned(data, plan, p, t)[day']
  <2> DEFINE P == Planned(data, plan, p, t)
             n == day'
  <2>0. data \in Datasets /\ plan \in Plans(data, MaxEmpties) /\ day' \in Int /\ n \in Int
    BY <1>1, <1>2, FiniteParts
  <2>1. stock[p][t] = P[day] /\ stock[p][t] \in Int
    BY <1>1, <1>6 DEF FollowInv, StockFollowsPlan, BoxesInv
  <2>2. LadenOut(p, t, n) + EmptiesOut(p, t, n) = Outflow(data, plan, p, t, n)
    BY <1>1, <1>6, <2>0, OutflowAsPlanned
  <2>3. Devanned(p, t, n) + EmptiesIn(p, t, n) = Inflow(data, plan, p, t, n)
    BY <1>2, <1>6, InflowAsPlanned
  <2>4. stock'[p][t] = stock[p][t] + Devanned(p, t, n) - EmptiesOut(p, t, n)
                       + EmptiesIn(p, t, n) - LadenOut(p, t, n)
    BY <1>2 DEF StockAfter
  <2>5. /\ EmptiesOut(p, t, n) \in Int /\ EmptiesIn(p, t, n) \in Int
        /\ LadenOut(p, t, n) \in Int /\ Devanned(p, t, n) \in Int
    BY <1>1, <2>0, FlowsAreSums
  <2>6. P[n] = P[day] + Inflow(data, plan, p, t, n) - Outflow(data, plan, p, t, n)
    <3>1. P[n] = (IF n = 0 THEN data.stock[p][t] ELSE P[n - 1])
                 + Inflow(data, plan, p, t, n) - Outflow(data, plan, p, t, n)
      BY <1>2, <2>0, PlannedDayByDay
    <3>2. n # 0 /\ n - 1 = day
      BY <1>2
    <3> QED  BY <3>1, <3>2
  <2> HIDE DEF P, n
  <2>7. stock'[p][t] = P[n]
    BY <2>1, <2>2, <2>3, <2>4, <2>5, <2>6
  <2> QED  BY <2>7 DEF P, n
<1>7. ASSUME Executable PROVE StockFollowsPlan'
  BY <1>2, <1>6, <1>7 DEF StockFollowsPlan
<1> QED  BY <1>1, <1>3, <1>4, <1>5, <1>7 DEF FollowInv

LEMMA StutterFollow == FollowInv /\ UNCHANGED vars => FollowInv'
<1> SUFFICES ASSUME FollowInv, UNCHANGED vars PROVE FollowInv'
  OBVIOUS
<1>1. BoxesInv'
  BY StutterBoxes DEF FollowInv
<1>2. data' = data /\ plan' = plan /\ path' = path /\ day' = day /\ stock' = stock
      /\ devanning' = devanning
  BY DEF vars
<1>3. Executable' = Executable /\ StockFollowsPlan' = StockFollowsPlan
  BY <1>2 DEF Executable, StockFollowsPlan
<1>4. {EntryOf(k) : k \in Unpacking(day)}' = {EntryOf(k) : k \in Unpacking(day)}
  BY <1>2 DEF EntryOf, Unpacking, Booked, Arrival, Lead, Owned
<1> QED  BY <1>1, <1>2, <1>3, <1>4 DEF FollowInv

\* On every day of every run the engine has in every port the stock the plan was
\* made for, for any plan that splits no booking.
THEOREM StockIsAsPlanned == Spec => []StockFollowsPlan
<1>1. FollowInv /\ [Next]_vars => FollowInv'
  BY StepFollow, StutterFollow DEF Next
<1>2. FollowInv => StockFollowsPlan
  BY DEF FollowInv, StockFollowsPlan
<1> QED  BY InitFollow, <1>1, <1>2, PTL DEF Spec
=============================================================================
