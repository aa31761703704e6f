----------------------------- MODULE Decisions -----------------------------
(***************************************************************************)
(* What becomes of a decision: from an optimization run of the API service *)
(* (optimization/service.py) over Kafka (kafka/producer.py) to the world   *)
(* of the simulation service (kafka/consumer.py, repositioning_model.py,   *)
(* leasing_model.py).                                                      *)
(*                                                                         *)
(* A request is a thread of the API process with a database session of its *)
(* own; it is cut at its commits, the reads after them and at each message *)
(* it publishes. status and stored are rows of the database and survive    *)
(* the process; stage and remaining are the request's own. Messages are    *)
(* lost, late, reordered or delivered again. The consumer applies one      *)
(* message without an await, to whatever world is published.               *)
(*                                                                         *)
(* Scenarios are run by the same code with the same producer on a database *)
(* of their own, which may be wiped while they run.                        *)
(*                                                                         *)
(* What the solver finds is any member of Results. Costs, durations and    *)
(* the destination of a move, which nothing reads again, are left out.     *)
(***************************************************************************)
EXTENDS Integers, FiniteSets, FiniteSetsExt

CONSTANTS
    Runs,            \* requests to optimize, one run each
    Scenarios,       \* those on the test database (api/v1/scenarios.py)
    Legs,            \* rows of voyage_legs
    Locations,       \* rows of locations: the API's names of places
    Types,           \* the API's names of equipment types
    From,            \* from_port_call.port_id of each leg
    Quantities,      \* quantities in a plan
    Results,         \* plans the solver may return
    Ports,           \* UN/LOCODEs: the simulation's names of places
    EquipmentTypes,  \* the simulation's names of equipment types
    PortOf,          \* the port each location is
    EquipmentOf,     \* the equipment type each type is
    Stock,           \* boxes available where the world is seeded
    MaxDeliveries    \* bound: messages the consumer applies to one world

\* One line of a plan. Messages carry the same fields.
Reposition == [kind : {"REPOSITIONING_DISPATCHED"}, place : Legs,
               type : Types, quantity : Quantities]
Lease == [kind : {"LEASE_ORDERED"}, place : Locations,
          type : Types, quantity : Quantities]
Directive == Reposition \union Lease
Message == [run : Runs, directive : Directive]

\* The runs of the carrier's own database.
Production == Runs \ Scenarios

\* Where balances are kept: WorldState.equipment under either service's names.
Pools == (Locations \union Ports) \X (Types \union EquipmentTypes)

ASSUME DecisionAssumption ==
    /\ Scenarios \subseteq Runs
    /\ From \in [Legs -> Locations]
    /\ Quantities \subseteq Nat
    /\ Results \subseteq SUBSET Directive
    /\ PortOf \in [Locations -> Ports]
    /\ EquipmentOf \in [Types -> EquipmentTypes]
    /\ Stock \in [Ports \X EquipmentTypes -> Nat]
    /\ Legs \intersect Locations = {}
    /\ MaxDeliveries \in Nat

VARIABLES
    status,      \* OptimizationRun.status; "NONE": no row
    stored,      \* rows of optimization_repositions and optimization_leases
    stage,       \* where the request is
    remaining,   \* what it has still to publish
    topic,       \* messages the broker has for the consumer
    world,       \* TRUE while a world is published
    pool,        \* WorldState.equipment
    orders,      \* WorldState.repositioning_orders made by messages, by id
    leases,      \* WorldState.leases made by messages, by id
    deliveries   \* messages applied to the world

database == <<status, stored>>
request == <<stage, remaining>>
simulation == <<world, pool, orders, leases, deliveries>>
decisionVars == <<database, request, topic, simulation>>

Statuses == {"NONE", "RUNNING", "COMPLETED", "FAILED"}
Ends == {"answered", "raised", "lost"}
Stages == {"none", "begun", "solving", "stored", "publishing"} \union Ends

\* get_equipment: a pool nobody has touched is empty. The seeded ones have
\* what stands in the port; what is in transit is counted from there.
Seeded == [k \in Pools |->
             [available |-> IF k \in Ports \X EquipmentTypes THEN Stock[k] ELSE 0,
              inTransit |-> 0]]

DecisionInit ==
    /\ status = [r \in Runs |-> "NONE"]
    /\ stored = [r \in Runs |-> {}]
    /\ stage = [r \in Runs |-> "none"]
    /\ remaining = [r \in Runs |-> {}]
    /\ topic = {}
    /\ world = FALSE
    /\ pool = Seeded
    /\ orders = [id \in Runs \X Legs |-> {}]
    /\ leases = [id \in Runs \X Locations |-> {}]
    /\ deliveries = 0

----------------------------------------------------------------------------
(* The request: OptimizationService.run_optimization.                      *)

\* The row of the run is there: what would change it or read it back raises
\* otherwise.
OnRecord(r) == status[r] # "NONE"

Goes(r, from, to) == stage[r] = from /\ stage' = [stage EXCEPT ![r] = to]

\* The run is added and committed as RUNNING. A commit that fails leaves no
\* trace of the request.
Begin(r) ==
    /\ Goes(r, "none", "begun")
    /\ status' = [status EXCEPT ![r] = "RUNNING"]
    /\ UNCHANGED <<stored, remaining, topic, simulation>>

\* The new row is read back. This is before the try: what raises here leaves
\* the run RUNNING.
ReadBack(r) ==
    /\ \/ OnRecord(r) /\ Goes(r, "begun", "solving")
       \/ Goes(r, "begun", "raised")
    /\ UNCHANGED <<database, remaining, topic, simulation>>

\* Fault: the leases of the plan are not added to the session.
RepositionRowsOf(plan) == plan \intersect Reposition

\* The rows a plan is stored as.
RowsOf(plan) == plan

\* Inputs are gathered and solved; the plan and the status are committed
\* together.
Store(r) ==
    /\ OnRecord(r)
    /\ Goes(r, "solving", "stored")
    /\ \E plan \in Results :
          /\ stored' = [stored EXCEPT ![r] = RowsOf(plan)]
          /\ remaining' = [remaining EXCEPT ![r] = plan]
    /\ status' = [status EXCEPT ![r] = "COMPLETED"]
    /\ UNCHANGED <<topic, simulation>>

\* The completed run is read back.
StartPublishing(r) ==
    /\ OnRecord(r)
    /\ Goes(r, "stored", "publishing")
    /\ UNCHANGED <<database, remaining, topic, simulation>>

\* Where the block in try may raise. Not while it publishes: _publish catches
\* all.
MayRaise(s) == s \in {"solving", "stored"}

\* except: the run is set FAILED and committed, which may raise too, as it
\* does after a flush that failed; then the row stays as it is.
Fail(r) ==
    /\ MayRaise(stage[r])
    /\ stage' = [stage EXCEPT ![r] = "raised"]
    /\ \/ OnRecord(r) /\ status' = [status EXCEPT ![r] = "FAILED"]
       \/ UNCHANGED status
    /\ remaining' = [remaining EXCEPT ![r] = {}]
    /\ UNCHANGED <<stored, topic, simulation>>

\* One message is handed to the producer, the moves before the leases. It
\* comes to the broker or is lost: not produced, or still in the producer's
\* buffer when the process ends, which nobody flushes.
Publish(r) ==
    /\ stage[r] = "publishing"
    /\ \E d \in remaining[r] :
          /\ d \in Lease => remaining[r] \intersect Reposition = {}
          /\ remaining' = [remaining EXCEPT ![r] = @ \ {d}]
          /\ topic' \in {topic, topic \union {[run |-> r, directive |-> d]}}
    /\ UNCHANGED <<database, stage, simulation>>

Return(r) ==
    /\ remaining[r] = {}
    /\ Goes(r, "publishing", "answered")
    /\ UNCHANGED <<database, remaining, topic, simulation>>

\* The API process ends, with every request in it.
ApiStops ==
    /\ \E r \in Runs : stage[r] \notin Ends \union {"none"}
    /\ stage' = [r \in Runs |-> IF stage[r] \in Ends \union {"none"}
                                THEN stage[r] ELSE "lost"]
    /\ remaining' = [r \in Runs |-> {}]
    /\ UNCHANGED <<database, topic, simulation>>

\* The test database is dropped and made anew (reset_test_scenario), or the
\* schedule is, and the moves with it (generate_and_assign_fleet_schedule).
WipeTestDatabase ==
    /\ \/ /\ status' = [r \in Runs |-> IF r \in Scenarios THEN "NONE" ELSE status[r]]
          /\ stored' = [r \in Runs |-> IF r \in Scenarios THEN {} ELSE stored[r]]
       \/ /\ UNCHANGED status
          /\ stored' = [r \in Runs |-> IF r \in Scenarios THEN stored[r] \ Reposition
                                       ELSE stored[r]]
    /\ UNCHANGED <<request, topic, simulation>>

RequestStep(r) ==
    \/ Begin(r) \/ ReadBack(r) \/ Store(r) \/ StartPublishing(r)
    \/ Fail(r) \/ Publish(r) \/ Return(r)

----------------------------------------------------------------------------
(* The simulation service.                                                 *)

\* Fault: the id is the leg's or the location's alone.
IdOfPlace(m) == <<CHOOSE r \in Production : TRUE, m.directive.place>>

\* The id a decision is kept under, RP-<run>-<leg> or LS-<run>-<location>: the
\* solver names no lease, and no id has the type in it.
IdOf(m) == <<m.run, m.directive.place>>

\* dispatch_repositioning: what leaves the stock, and what is then on its way.
TakenFrom(available, quantity) ==
    IF available < quantity THEN 0 ELSE available - quantity

\* Fault: only what was there is put in transit, the order says more.
PutWhatWasThere(balance, quantity) ==
    balance.inTransit +
    (IF balance.available < quantity THEN balance.available ELSE quantity)

PutInTransit(balance, quantity) == balance.inTransit + quantity

Dispatch(m) ==
    LET d == m.directive
        k == <<From[d.place], d.type>>
    IN  /\ pool' = [pool EXCEPT ![k] =
                      [available |-> TakenFrom(pool[k].available, d.quantity),
                       inTransit |-> PutInTransit(pool[k], d.quantity)]]
        /\ orders' = [orders EXCEPT ![IdOf(m)] = {d}]
        /\ UNCHANGED leases

\* order_lease: noted as PENDING; nothing comes into the pool.
OrderLease(m) ==
    /\ leases' = [leases EXCEPT ![IdOf(m)] = {m.directive}]
    /\ UNCHANGED <<pool, orders>>

Apply(m) ==
    \/ m.directive \in Reposition /\ Dispatch(m)
    \/ m.directive \in Lease /\ OrderLease(m)

\* The consumer takes a message; the broker may deliver it again. Without a
\* world it is dropped.
Deliver(m) ==
    /\ m \in topic
    /\ topic' \in {topic, topic \ {m}}
    /\ \/ /\ world /\ deliveries < MaxDeliveries
          /\ deliveries' = deliveries + 1
          /\ Apply(m)
       \/ ~world /\ UNCHANGED <<pool, orders, leases, deliveries>>
    /\ UNCHANGED <<database, request, world>>

\* A message expires, or the consumer was not subscribed when it came.
Expire(m) ==
    /\ m \in topic
    /\ topic' = topic \ {m}
    /\ UNCHANGED <<database, request, simulation>>

\* start() publishes a world made from a baseline; reset() and the end of the
\* process drop it.
NewWorld(published) ==
    /\ world' = published
    /\ pool' = Seeded
    /\ orders' = [id \in Runs \X Legs |-> {}]
    /\ leases' = [id \in Runs \X Locations |-> {}]
    /\ deliveries' = 0
    /\ UNCHANGED <<database, request, topic>>

DecisionNext ==
    \/ \E r \in Runs : RequestStep(r)
    \/ ApiStops
    \/ WipeTestDatabase
    \/ \E m \in topic : Deliver(m) \/ Expire(m)
    \/ NewWorld(TRUE)
    \/ world /\ NewWorld(FALSE)

DecisionSpec == DecisionInit /\ [][DecisionNext]_decisionVars

----------------------------------------------------------------------------
(* What is promised.                                                       *)

\* Rows, messages and the world's tables have their shape; no balance is
\* negative.
DecisionTypeOK ==
    /\ status \in [Runs -> Statuses]
    /\ stored \in [Runs -> SUBSET Directive]
    /\ stage \in [Runs -> Stages]
    /\ remaining \in [Runs -> SUBSET Directive]
    /\ topic \subseteq Message
    /\ world \in BOOLEAN
    /\ pool \in [Pools -> [available : Nat, inTransit : Nat]]
    /\ orders \in [Runs \X Legs -> SUBSET Reposition]
    /\ leases \in [Runs \X Locations -> SUBSET Lease]
    /\ deliveries \in 0..MaxDeliveries

\* "Publishing happens AFTER the DB commit so decisions are durable before they
\* are sent downstream" (service.py): whatever fails and whoever dies, a
\* message the broker has stands in the database.
DurableBeforeSent ==
    \A m \in topic : m.run \in Production => m.directive \in stored[m.run]

\* A message, an order or a lease of the run is about.
Acts(r) ==
    \/ \E m \in topic : m.run = r
    \/ \E l \in Legs : orders[<<r, l>>] # {}
    \/ \E p \in Locations : leases[<<r, p>>] # {}

\* Nobody is sent a decision of a run that the database shows as RUNNING or
\* FAILED, and no world acts on one.
OnlyCompletedRunsAct ==
    \A r \in Production : Acts(r) => status[r] = "COMPLETED"

\* The world acts on nothing but what a plan says: its orders and leases stand
\* in the database under the run, the leg or location they name, however
\* messages were lost, repeated, reordered or mixed with those of other runs
\* and however often worlds were started.
OrdersWereDecided ==
    /\ \A r \in Production, l \in Legs : \A d \in orders[<<r, l>>] :
          d.place = l /\ d \in stored[r]
    /\ \A r \in Production, p \in Locations : \A d \in leases[<<r, p>>] :
          d.place = p /\ d \in stored[r]

\* The orders in transit from a pool.
UnderWay(k) ==
    {id \in Runs \X Legs :
        \E d \in orders[id] : From[d.place] = k[1] /\ d.type = k[2]}

QuantityOf(id) == (CHOOSE d \in orders[id] : TRUE).quantity

\* A pool has at least as much in transit as the orders from it say: an order
\* that a repeated or another message overwrites takes nothing back, and a
\* stock too small for an order does not make the order smaller.
InTransitCoversOrders ==
    \A k \in Pools :
        pool[k].inTransit >= SumFunction([id \in UnderWay(k) |-> QuantityOf(id)])

=============================================================================
