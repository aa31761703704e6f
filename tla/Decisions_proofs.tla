-------------------------- MODULE Decisions_proofs --------------------------
(***************************************************************************)
(* What holds of a decision on its way from the API database to a simulated *)
(* world (module Decisions) and of the allocations of that world and their *)
(* seven-day lock (module Allocations), for any runs, plans, containers,   *)
(* bookings and times, any traffic and any plan a solver may return.       *)
(***************************************************************************)
EXTENDS Decisions, Allocations, Sums

-----------------------------------------------------------------------------
(***************************************************************************)
(* Decisions                                                               *)
(***************************************************************************)

\* Until it publishes, a request of the carrier has sent nothing; what it has still to
\* publish is stored, and from its commit on its run is COMPLETED.
RequestInv ==
    /\ \A r \in Production : remaining[r] \subseteq stored[r]
    /\ \A r \in Production :
          stage[r] \in {"stored", "publishing"} => status[r] = "COMPLETED"
    /\ \A r \in Production :
          stage[r] \in {"none", "begun", "solving", "stored"} => ~Acts(r)

DecisionInv == DecisionTypeOK /\ RequestInv /\ DurableBeforeSent
               /\ OnlyCompletedRunsAct /\ OrdersWereDecided

\* A move is no lease and a leg is no location.
LEMMA Kinds ==
    /\ \A d \in Reposition : d.place \in Legs /\ d.type \in Types
                             /\ d.quantity \in Nat /\ d \in Directive
    /\ \A d \in Lease : d.place \in Locations /\ d \in Directive
    /\ \A m \in Message : m.run \in Runs /\ m.directive \in Directive
BY DecisionAssumption DEF Reposition, Lease, Directive, Message

\* The pools of a new world.
LEMMA SeededPools == Seeded \in [Pools -> [available : Nat, inTransit : Nat]]
BY DecisionAssumption DEF Seeded

LEMMA InitDecision == DecisionInit => DecisionInv
<1> SUFFICES ASSUME DecisionInit PROVE DecisionInv
  OBVIOUS
<1>1. DecisionTypeOK
  <2>1. status \in [Runs -> Statuses] /\ stage \in [Runs -> Stages]
    BY DEF DecisionInit, Statuses, Stages
  <2>2. stored \in [Runs -> SUBSET Directive] /\ remaining \in [Runs -> SUBSET Directive]
    BY DEF DecisionInit
  <2>3. topic \subseteq Message /\ deliveries \in 0..MaxDeliveries
    BY DecisionAssumption DEF DecisionInit
  <2>4. world \in BOOLEAN
    BY DEF DecisionInit
  <2>5. pool \in [Pools -> [available : Nat, inTransit : Nat]]
    BY SeededPools DEF DecisionInit
  <2>6. orders \in [Runs \X Legs -> SUBSET Reposition]
    BY DEF DecisionInit
  <2>7. leases \in [Runs \X Locations -> SUBSET Lease]
    BY DEF DecisionInit
  <2>8. QED
    BY <2>1, <2>2, <2>3, <2>4, <2>5, <2>6, <2>7 DEF DecisionTypeOK
<1>2. \A r \in Runs : ~Acts(r)
  BY DEF DecisionInit, Acts
<1>3. QED
  <2>p. Production \subseteq Runs
    BY DEF Production
  <2>1. RequestInv
    BY <1>2, <2>p DEF RequestInv, DecisionInit
  <2>2. DurableBeforeSent /\ OnlyCompletedRunsAct /\ OrdersWereDecided
    BY <1>2, <2>p DEF DurableBeforeSent, OnlyCompletedRunsAct, OrdersWereDecided, DecisionInit
  <2>3. QED
    BY <1>1, <2>1, <2>2 DEF DecisionInv

\* What a delivered move does to the pools.
LEMMA DispatchTypes ==
    ASSUME DecisionTypeOK, NEW m \in Message, m.directive \in Reposition, Dispatch(m)
    PROVE  /\ pool' \in [Pools -> [available : Nat, inTransit : Nat]]
           /\ orders' = [orders EXCEPT ![<<m.run, m.directive.place>>] = {m.directive}]
           /\ leases' = leases
<1> DEFINE d == m.directive
<1> DEFINE k == <<From[d.place], d.type>>
<1>1. d.place \in Legs /\ d.type \in Types /\ d.quantity \in Nat
  BY Kinds
<1>2. k \in Pools
  BY <1>1, DecisionAssumption DEF Pools
<1>3. pool[k] \in [available : Nat, inTransit : Nat]
  BY <1>2 DEF DecisionTypeOK
<1>4. TakenFrom(pool[k].available, d.quantity) \in Nat
  BY <1>1, <1>3 DEF TakenFrom
<1>5. PutInTransit(pool[k], d.quantity) \in Nat
  BY <1>1, <1>3 DEF PutInTransit
<1>6. pool' = [pool EXCEPT ![k] =
                 [available |-> TakenFrom(pool[k].available, d.quantity),
                  inTransit |-> PutInTransit(pool[k], d.quantity)]]
  BY DEF Dispatch
<1>7. pool \in [Pools -> [available : Nat, inTransit : Nat]]
  BY DEF DecisionTypeOK
<1>8. pool' \in [Pools -> [available : Nat, inTransit : Nat]]
  BY <1>2, <1>4, <1>5, <1>6, <1>7
<1>9. QED
  BY <1>8 DEF Dispatch, IdOf

\* The types after a step of a request.
LEMMA RequestTypes ==
    ASSUME DecisionTypeOK, NEW r \in Runs, RequestStep(r)
    PROVE  DecisionTypeOK'
<1>0. /\ status \in [Runs -> Statuses] /\ stored \in [Runs -> SUBSET Directive]
      /\ stage \in [Runs -> Stages] /\ remaining \in [Runs -> SUBSET Directive]
      /\ topic \subseteq Message
  BY DEF DecisionTypeOK
<1>1. UNCHANGED simulation
  BY DEF RequestStep, Begin, ReadBack, Store, StartPublishing, Fail, Publish, Return
<1>2. status' \in [Runs -> Statuses]
  BY <1>0 DEF RequestStep, Begin, ReadBack, Store, StartPublishing, Fail, Publish,
     Return, database, Statuses
<1>3. stage' \in [Runs -> Stages]
  BY <1>0 DEF RequestStep, Begin, ReadBack, Store, StartPublishing, Fail, Publish,
     Return, Goes, Stages, Ends
<1>4. stored' \in [Runs -> SUBSET Directive]
  <2>1. CASE Store(r)
    BY <1>0, <2>1, DecisionAssumption DEF Store, RowsOf
  <2>2. CASE ~Store(r)
    BY <1>0, <2>2 DEF RequestStep, Begin, ReadBack, StartPublishing, Fail, Publish,
       Return, database
  <2>3. QED
    BY <2>1, <2>2
<1>5. remaining' \in [Runs -> SUBSET Directive]
  <2>1. CASE Store(r)
    BY <1>0, <2>1, DecisionAssumption DEF Store
  <2>2. CASE ~Store(r)
    BY <1>0, <2>2 DEF RequestStep, Begin, ReadBack, StartPublishing, Fail, Publish,
       Return
  <2>3. QED
    BY <2>1, <2>2
<1>6. topic' \subseteq Message
  <2>1. CASE Publish(r)
    <3>1. PICK d \in remaining[r] :
             topic' \in {topic, topic \union {[run |-> r, directive |-> d]}}
      BY <2>1 DEF Publish
    <3>2. [run |-> r, directive |-> d] \in Message
      BY <1>0 DEF Message
    <3>3. QED
      BY <1>0, <3>1, <3>2
  <2>2. CASE ~Publish(r)
    BY <1>0, <2>2 DEF RequestStep, Begin, ReadBack, Store, StartPublishing, Fail, Return
  <2>3. QED
    BY <2>1, <2>2
<1>7. QED
  BY <1>1, <1>2, <1>3, <1>4, <1>5, <1>6 DEF DecisionTypeOK, simulation

\* The types after a message is delivered.
LEMMA DeliverTypes ==
    ASSUME DecisionTypeOK, NEW m \in topic, Deliver(m)
    PROVE  DecisionTypeOK'
<1>0. m \in Message /\ topic \subseteq Message
  BY DEF DecisionTypeOK
<1>1. topic' \subseteq Message
  BY <1>0 DEF Deliver
<1>2. deliveries' \in 0..MaxDeliveries
  BY DecisionAssumption DEF DecisionTypeOK, Deliver
<1>3. UNCHANGED <<status, stored, stage, remaining, world>>
  BY DEF Deliver, database, request
<1>4. CASE Apply(m) /\ m.directive \in Reposition /\ Dispatch(m)
  <2>1. <<m.run, m.directive.place>> \in Runs \X Legs
    BY <1>0, <1>4, Kinds
  <2>2. /\ pool' \in [Pools -> [available : Nat, inTransit : Nat]]
        /\ orders' = [orders EXCEPT ![<<m.run, m.directive.place>>] = {m.directive}]
        /\ leases' = leases
    BY <1>0, <1>4, DispatchTypes
  <2>3. orders \in [Runs \X Legs -> SUBSET Reposition]
    BY DEF DecisionTypeOK
  <2>4. orders' \in [Runs \X Legs -> SUBSET Reposition]
    BY <1>4, <2>1, <2>2, <2>3
  <2>5. QED
    BY <1>1, <1>2, <1>3, <2>2, <2>4 DEF DecisionTypeOK
<1>5. CASE m.directive \in Lease /\ OrderLease(m)
  <2>1. <<m.run, m.directive.place>> \in Runs \X Locations
    BY <1>0, <1>5, Kinds
  <2>2. leases' \in [Runs \X Locations -> SUBSET Lease]
    BY <1>5, <2>1 DEF DecisionTypeOK, OrderLease, IdOf
  <2>3. UNCHANGED <<pool, orders>>
    BY <1>5 DEF OrderLease
  <2>4. QED
    BY <1>1, <1>2, <1>3, <2>2, <2>3 DEF DecisionTypeOK
<1>6. CASE UNCHANGED <<pool, orders, leases>>
  BY <1>1, <1>2, <1>3, <1>6 DEF DecisionTypeOK
<1>7. QED
  BY <1>4, <1>5, <1>6 DEF Deliver, Apply

\* Every step keeps the types.
LEMMA DecisionStepTypes == DecisionTypeOK /\ [DecisionNext]_decisionVars => DecisionTypeOK'
<1> SUFFICES ASSUME DecisionTypeOK, [DecisionNext]_decisionVars PROVE DecisionTypeOK'
  OBVIOUS
<1>1. ASSUME NEW r \in Runs, RequestStep(r) PROVE DecisionTypeOK'
  BY <1>1, RequestTypes
<1>2. CASE ApiStops
  BY <1>2 DEF ApiStops, DecisionTypeOK, database, simulation, Stages, Ends
<1>w. CASE WipeTestDatabase
  <2>1. UNCHANGED <<stage, remaining, topic, world, pool, orders, leases, deliveries>>
    BY <1>w DEF WipeTestDatabase, request, simulation
  <2>2. status \in [Runs -> Statuses] /\ stored \in [Runs -> SUBSET Directive]
    BY DEF DecisionTypeOK
  <2>3. status' \in [Runs -> Statuses]
    BY <1>w, <2>2 DEF WipeTestDatabase, Statuses
  <2>4. stored' \in [Runs -> SUBSET Directive]
    BY <1>w, <2>2 DEF WipeTestDatabase
  <2>5. QED
    BY <2>1, <2>3, <2>4 DEF DecisionTypeOK
<1>3. ASSUME NEW m \in topic, Deliver(m) PROVE DecisionTypeOK'
  BY <1>3, DeliverTypes
<1>4. ASSUME NEW m \in topic, Expire(m) PROVE DecisionTypeOK'
  BY <1>4 DEF Expire, DecisionTypeOK, database, request, simulation
<1>5. ASSUME NEW published \in BOOLEAN, NewWorld(published) PROVE DecisionTypeOK'
  <2>1. UNCHANGED <<status, stored, stage, remaining, topic>>
    BY <1>5 DEF NewWorld, database, request
  <2>2. world' \in BOOLEAN
    BY <1>5 DEF NewWorld
  <2>3. /\ pool' = Seeded /\ deliveries' = 0
        /\ orders' = [id \in Runs \X Legs |-> {}]
        /\ leases' = [id \in Runs \X Locations |-> {}]
    BY <1>5 DEF NewWorld
  <2>4. QED
    BY <2>1, <2>2, <2>3, SeededPools, DecisionAssumption DEF DecisionTypeOK
<1>6. CASE UNCHANGED decisionVars
  BY <1>6 DEF decisionVars, DecisionTypeOK, database, request, simulation
<1>7. QED
  BY <1>1, <1>2, <1>w, <1>3, <1>4, <1>5, <1>6 DEF DecisionNext

\* What a step does to a request's own state and to its rows.
LEMMA RequestMoves ==
    ASSUME DecisionTypeOK, NEW r \in Runs, RequestStep(r)
    PROVE  /\ UNCHANGED simulation
           /\ \A q \in Runs \ {r} :
                 /\ status'[q] = status[q] /\ stored'[q] = stored[q]
                 /\ stage'[q] = stage[q] /\ remaining'[q] = remaining[q]
<1>0. /\ status \in [Runs -> Statuses] /\ stored \in [Runs -> SUBSET Directive]
      /\ stage \in [Runs -> Stages] /\ remaining \in [Runs -> SUBSET Directive]
  BY DEF DecisionTypeOK
<1>1. UNCHANGED simulation
  BY DEF RequestStep, Begin, ReadBack, Store, StartPublishing, Fail, Publish, Return
<1>2. ASSUME NEW q \in Runs \ {r}
      PROVE  status'[q] = status[q] /\ stage'[q] = stage[q]
  BY <1>0, <1>2 DEF RequestStep, Begin, ReadBack, Store, StartPublishing, Fail, Publish,
     Return, Goes, database
<1>3. ASSUME NEW q \in Runs \ {r}
      PROVE  stored'[q] = stored[q] /\ remaining'[q] = remaining[q]
  <2>1. CASE Store(r)
    BY <1>0, <1>3, <2>1 DEF Store
  <2>2. CASE ~Store(r)
    BY <1>0, <1>3, <2>2 DEF RequestStep, Begin, ReadBack, StartPublishing, Fail, Publish,
       Return, database
  <2>3. QED
    BY <2>1, <2>2
<1>4. QED
  BY <1>1, <1>2, <1>3

\* What is acted on only depends on the messages and on what the world keeps.
LEMMA SameActs ==
    ASSUME NEW r \in Runs, topic' \subseteq topic, UNCHANGED <<orders, leases>>, Acts(r)'
    PROVE  Acts(r)
BY DEF Acts

\* A step of a request that sends nothing: either nobody acts on the run, or
\* its rows stay as they are.
LEMMA SilentStep ==
    ASSUME DecisionInv, NEW r \in Runs, UNCHANGED <<topic, orders, leases>>,
           \A q \in Runs \ {r} :
              /\ status'[q] = status[q] /\ stored'[q] = stored[q]
              /\ stage'[q] = stage[q] /\ remaining'[q] = remaining[q],
           r \in Production =>
              /\ ~Acts(r) \/ (status'[r] = status[r] /\ stored'[r] = stored[r])
              /\ remaining'[r] \subseteq stored'[r]
              /\ stage'[r] \in {"stored", "publishing"} => status'[r] = "COMPLETED"
              /\ stage'[r] \in {"none", "begun", "solving", "stored"} => ~Acts(r)
    PROVE  /\ RequestInv' /\ DurableBeforeSent'
           /\ OnlyCompletedRunsAct' /\ OrdersWereDecided'
<1>0. DecisionTypeOK /\ RequestInv /\ DurableBeforeSent /\ OnlyCompletedRunsAct /\ OrdersWereDecided
  BY DEF DecisionInv
<1>1. \A q \in Runs : Acts(q)' <=> Acts(q)
  BY DEF Acts
<1>p. Production \subseteq Runs
  BY DEF Production
<1>2. RequestInv'
  BY <1>0, <1>1, <1>p DEF RequestInv
<1>3. DurableBeforeSent'
  <2> SUFFICES ASSUME NEW m \in topic, m.run \in Production
               PROVE  m.directive \in stored'[m.run]
    BY DEF DurableBeforeSent
  <2>1. m.run \in Runs /\ m.directive \in stored[m.run]
    BY <1>0, Kinds DEF DecisionTypeOK, DurableBeforeSent
  <2>2. CASE m.run = r
    BY <2>1, <2>2 DEF Acts
  <2>3. CASE m.run # r
    BY <2>1, <2>3
  <2>4. QED
    BY <2>2, <2>3
<1>4. OnlyCompletedRunsAct'
  BY <1>0, <1>1, <1>p DEF OnlyCompletedRunsAct
<1>5. OrdersWereDecided'
  <2>1. ASSUME NEW q \in Production, NEW l \in Legs, NEW d \in orders[<<q, l>>]
        PROVE  d.place = l /\ d \in stored'[q]
    <3>1. d.place = l /\ d \in stored[q]
      BY <1>0 DEF OrdersWereDecided
    <3>2. Acts(q)
      BY DEF Acts
    <3>3. QED
      BY <1>p, <3>1, <3>2
  <2>2. ASSUME NEW q \in Production, NEW p \in Locations, NEW d \in leases[<<q, p>>]
        PROVE  d.place = p /\ d \in stored'[q]
    <3>1. d.place = p /\ d \in stored[q]
      BY <1>0 DEF OrdersWereDecided
    <3>2. Acts(q)
      BY DEF Acts
    <3>3. QED
      BY <1>p, <3>1, <3>2
  <2>3. QED
    BY <2>1, <2>2 DEF OrdersWereDecided
<1>6. QED
  BY <1>2, <1>3, <1>4, <1>5

\* A step of a request.
LEMMA RequestKeeps ==
    ASSUME DecisionInv, NEW r \in Runs, RequestStep(r)
    PROVE  /\ RequestInv' /\ DurableBeforeSent'
           /\ OnlyCompletedRunsAct' /\ OrdersWereDecided'
<1>0. DecisionTypeOK /\ RequestInv /\ DurableBeforeSent /\ OnlyCompletedRunsAct /\ OrdersWereDecided
  BY DEF DecisionInv
<1>t. /\ status \in [Runs -> Statuses] /\ stored \in [Runs -> SUBSET Directive]
      /\ stage \in [Runs -> Stages] /\ remaining \in [Runs -> SUBSET Directive]
  BY <1>0 DEF DecisionTypeOK
<1>o. /\ UNCHANGED <<orders, leases>>
      /\ \A q \in Runs \ {r} :
            /\ status'[q] = status[q] /\ stored'[q] = stored[q]
            /\ stage'[q] = stage[q] /\ remaining'[q] = remaining[q]
  BY <1>0, RequestMoves DEF simulation
<1>i. r \in Production =>
         /\ remaining[r] \subseteq stored[r]
         /\ stage[r] \in {"stored", "publishing"} => status[r] = "COMPLETED"
         /\ stage[r] \in {"none", "begun", "solving", "stored"} => ~Acts(r)
  BY <1>0 DEF RequestInv
<1>1. CASE Begin(r)
  <2>1. /\ stage[r] = "none" /\ stage'[r] = "begun" /\ UNCHANGED topic
        /\ stored' = stored /\ remaining' = remaining
    BY <1>t, <1>1 DEF Begin, Goes
  <2>2. QED
    BY <1>o, <1>i, <2>1, SilentStep
<1>2. CASE ReadBack(r)
  <2>1. /\ stage[r] = "begun" /\ stage'[r] \in {"solving", "raised"} /\ UNCHANGED topic
        /\ status' = status /\ stored' = stored /\ remaining' = remaining
    BY <1>t, <1>2 DEF ReadBack, Goes, database
  <2>2. QED
    BY <1>o, <1>i, <2>1, SilentStep
<1>3. CASE Store(r)
  <2>1. /\ stage[r] = "solving" /\ stage'[r] = "stored" /\ UNCHANGED topic
        /\ status'[r] = "COMPLETED"
    BY <1>t, <1>3 DEF Store, Goes
  <2>2. PICK plan \in Results :
           /\ stored' = [stored EXCEPT ![r] = RowsOf(plan)]
           /\ remaining' = [remaining EXCEPT ![r] = plan]
    BY <1>3 DEF Store
  <2>3. remaining'[r] \subseteq stored'[r]
    BY <1>t, <2>2 DEF RowsOf
  <2>4. QED
    BY <1>o, <1>i, <2>1, <2>3, SilentStep
<1>4. CASE StartPublishing(r)
  <2>1. /\ stage[r] = "stored" /\ stage'[r] = "publishing" /\ UNCHANGED topic
        /\ status' = status /\ stored' = stored /\ remaining' = remaining
    BY <1>t, <1>4 DEF StartPublishing, Goes, database
  <2>2. QED
    BY <1>o, <1>i, <2>1, SilentStep
<1>5. CASE Fail(r)
  <2>1. /\ stage[r] \in {"solving", "stored"} /\ stage'[r] = "raised"
        /\ UNCHANGED topic /\ stored' = stored /\ remaining'[r] = {}
    BY <1>t, <1>5 DEF Fail, MayRaise
  <2>2. QED
    BY <1>o, <1>i, <2>1, SilentStep
<1>6. CASE Publish(r)
  <2>1. PICK d \in remaining[r] :
           /\ remaining' = [remaining EXCEPT ![r] = @ \ {d}]
           /\ topic' \in {topic, topic \union {[run |-> r, directive |-> d]}}
    BY <1>6 DEF Publish
  <2>2. /\ stage[r] = "publishing" /\ status' = status /\ stored' = stored /\ stage' = stage
    BY <1>6 DEF Publish, database
  <2>p. Production \subseteq Runs
    BY DEF Production
  <2>3. \A q \in Runs : Acts(q)' => Acts(q) \/ q = r
    <3>1. \A m \in topic' : m \in topic \/ m.run = r
      BY <2>1
    <3>2. QED
      BY <1>o, <3>1 DEF Acts
  <2>4. \A q \in Runs : remaining'[q] \subseteq remaining[q]
    BY <1>t, <2>1
  <2>5. RequestInv'
    BY <1>0, <2>2, <2>3, <2>4, <2>p DEF RequestInv
  <2>6. DurableBeforeSent'
    BY <1>0, <1>i, <2>1, <2>2 DEF DurableBeforeSent
  <2>7. OnlyCompletedRunsAct'
    BY <1>0, <1>i, <2>2, <2>3, <2>p DEF OnlyCompletedRunsAct
  <2>8. OrdersWereDecided'
    BY <1>0, <1>o, <2>2 DEF OrdersWereDecided
  <2>9. QED
    BY <2>5, <2>6, <2>7, <2>8
<1>7. CASE Return(r)
  <2>1. /\ stage'[r] = "answered" /\ UNCHANGED topic
        /\ status' = status /\ stored' = stored /\ remaining' = remaining
    BY <1>t, <1>7 DEF Return, Goes, database
  <2>2. QED
    BY <1>o, <1>i, <2>1, SilentStep
<1>8. QED
  BY <1>1, <1>2, <1>3, <1>4, <1>5, <1>6, <1>7 DEF RequestStep

\* A step of anybody else: no rows of the carrier change, requests are at most
\* cut off, the broker gets nothing new and nobody new acts.
LEMMA OtherStep ==
    ASSUME DecisionInv, topic' \subseteq topic,
           \A r \in Production : status'[r] = status[r] /\ stored'[r] = stored[r],
           \A r \in Runs : stage'[r] \in {stage[r], "lost"},
           \A r \in Runs : remaining'[r] \subseteq remaining[r],
           \A r \in Runs : Acts(r)' => Acts(r)
    PROVE  RequestInv' /\ DurableBeforeSent' /\ OnlyCompletedRunsAct'
<1>p. Production \subseteq Runs
  BY DEF Production
<1>1. RequestInv'
  BY <1>p DEF DecisionInv, RequestInv
<1>2. DurableBeforeSent'
  BY DEF DecisionInv, DurableBeforeSent
<1>3. OnlyCompletedRunsAct'
  BY <1>p DEF DecisionInv, OnlyCompletedRunsAct
<1>4. QED
  BY <1>1, <1>2, <1>3

\* The consumer applies a message of the broker, which stands in the database.
LEMMA DeliverKeeps ==
    ASSUME DecisionInv, NEW m \in topic, Deliver(m)
    PROVE  /\ \A r \in Runs : Acts(r)' => Acts(r)
           /\ OrdersWereDecided'
<1>0. DecisionTypeOK /\ OrdersWereDecided /\ DurableBeforeSent /\ m \in Message
  BY DEF DecisionInv, DecisionTypeOK
<1>p. Production \subseteq Runs
  BY DEF Production
<1>1. /\ m.run \in Runs /\ Acts(m.run)
      /\ m.run \in Production => m.directive \in stored[m.run]
      /\ topic' \subseteq topic /\ stored' = stored
  BY <1>0, Kinds DEF DurableBeforeSent, Acts, Deliver, database
<1>2. CASE m.directive \in Reposition /\ Dispatch(m)
  <2>1. m.directive.place \in Legs /\ orders \in [Runs \X Legs -> SUBSET Reposition]
    BY <1>0, <1>2, Kinds DEF DecisionTypeOK
  <2>2. /\ orders' = [orders EXCEPT ![<<m.run, m.directive.place>>] = {m.directive}]
        /\ leases' = leases
    BY <1>0, <1>2, DispatchTypes
  <2>3. \A r \in Runs, l \in Legs :
           \/ orders'[<<r, l>>] = orders[<<r, l>>]
           \/ r = m.run /\ l = m.directive.place /\ orders'[<<r, l>>] = {m.directive}
    BY <2>1, <2>2
  <2>4. \A r \in Runs : Acts(r)' => Acts(r)
    BY <1>1, <2>2, <2>3 DEF Acts
  <2>5. OrdersWereDecided'
    BY <1>0, <1>1, <1>p, <2>2, <2>3 DEF OrdersWereDecided
  <2>6. QED
    BY <2>4, <2>5
<1>3. CASE m.directive \in Lease /\ OrderLease(m)
  <2>1. m.directive.place \in Locations /\ leases \in [Runs \X Locations -> SUBSET Lease]
    BY <1>0, <1>3, Kinds DEF DecisionTypeOK
  <2>2. /\ leases' = [leases EXCEPT ![<<m.run, m.directive.place>>] = {m.directive}]
        /\ orders' = orders
    BY <1>3 DEF OrderLease, IdOf
  <2>3. \A r \in Runs, p \in Locations :
           \/ leases'[<<r, p>>] = leases[<<r, p>>]
           \/ r = m.run /\ p = m.directive.place /\ leases'[<<r, p>>] = {m.directive}
    BY <2>1, <2>2
  <2>4. \A r \in Runs : Acts(r)' => Acts(r)
    BY <1>1, <2>2, <2>3 DEF Acts
  <2>5. OrdersWereDecided'
    BY <1>0, <1>1, <1>p, <2>2, <2>3 DEF OrdersWereDecided
  <2>6. QED
    BY <2>4, <2>5
<1>4. CASE UNCHANGED <<orders, leases>>
  <2>1. \A r \in Runs : Acts(r)' => Acts(r)
    BY <1>1, <1>4 DEF Acts
  <2>2. OrdersWereDecided'
    BY <1>0, <1>1, <1>4 DEF OrdersWereDecided
  <2>3. QED
    BY <2>1, <2>2
<1>5. QED
  BY <1>2, <1>3, <1>4 DEF Deliver, Apply

LEMMA StepDecision == DecisionInv /\ [DecisionNext]_decisionVars => DecisionInv'
<1> SUFFICES ASSUME DecisionInv, [DecisionNext]_decisionVars PROVE DecisionInv'
  OBVIOUS
<1>0. DecisionTypeOK /\ OrdersWereDecided /\ DecisionTypeOK'
  BY DecisionStepTypes DEF DecisionInv
<1>1. ASSUME NEW r \in Runs, RequestStep(r) PROVE DecisionInv'
  BY <1>0, <1>1, RequestKeeps DEF DecisionInv
<1>2. CASE ApiStops
  <2>1. UNCHANGED <<status, stored, topic, orders, leases>>
    BY <1>2 DEF ApiStops, database, simulation
  <2>2. /\ \A r \in Runs : stage'[r] \in {stage[r], "lost"}
        /\ \A r \in Runs : remaining'[r] \subseteq remaining[r]
    BY <1>2 DEF ApiStops
  <2>3. \A r \in Runs : Acts(r)' => Acts(r)
    BY <2>1 DEF Acts
  <2>4. OrdersWereDecided'
    BY <1>0, <2>1 DEF OrdersWereDecided
  <2>5. QED
    BY <1>0, <2>1, <2>2, <2>3, <2>4, OtherStep DEF DecisionInv
<1>w. CASE WipeTestDatabase
  <2>1. UNCHANGED <<stage, remaining, topic, orders, leases>>
    BY <1>w DEF WipeTestDatabase, request, simulation
  <2>2. \A r \in Production : status'[r] = status[r] /\ stored'[r] = stored[r]
    BY <1>w DEF WipeTestDatabase, Production
  <2>3. \A r \in Runs : Acts(r)' => Acts(r)
    BY <2>1 DEF Acts
  <2>4. OrdersWereDecided'
    BY <1>0, <2>1, <2>2 DEF OrdersWereDecided
  <2>5. QED
    BY <1>0, <2>1, <2>2, <2>3, <2>4, OtherStep DEF DecisionInv
<1>3. ASSUME NEW m \in topic, Deliver(m) PROVE DecisionInv'
  <2>1. UNCHANGED <<status, stored, stage, remaining>> /\ topic' \subseteq topic
    BY <1>3 DEF Deliver, database, request
  <2>2. QED
    BY <1>0, <1>3, <2>1, DeliverKeeps, OtherStep DEF DecisionInv
<1>4. ASSUME NEW m \in topic, Expire(m) PROVE DecisionInv'
  <2>1. /\ UNCHANGED <<status, stored, stage, remaining, orders, leases>>
        /\ topic' \subseteq topic
    BY <1>4 DEF Expire, database, request, simulation
  <2>2. \A r \in Runs : Acts(r)' => Acts(r)
    BY <2>1, SameActs
  <2>3. OrdersWereDecided'
    BY <1>0, <2>1 DEF OrdersWereDecided
  <2>4. QED
    BY <1>0, <2>1, <2>2, <2>3, OtherStep DEF DecisionInv
<1>5. ASSUME NEW published \in BOOLEAN, NewWorld(published) PROVE DecisionInv'
  <2>1. UNCHANGED <<status, stored, stage, remaining, topic>>
    BY <1>5 DEF NewWorld, database, request
  <2>2. /\ \A r \in Runs, l \in Legs : orders'[<<r, l>>] = {}
        /\ \A r \in Runs, p \in Locations : leases'[<<r, p>>] = {}
    BY <1>5 DEF NewWorld
  <2>3. \A r \in Runs : Acts(r)' => Acts(r)
    BY <2>1, <2>2 DEF Acts
  <2>4. OrdersWereDecided'
    BY <2>2 DEF OrdersWereDecided, Production
  <2>5. QED
    BY <1>0, <2>1, <2>3, <2>4, OtherStep DEF DecisionInv
<1>6. CASE UNCHANGED decisionVars
  <2>1. UNCHANGED <<status, stored, stage, remaining, topic, orders, leases>>
    BY <1>6 DEF decisionVars, database, request, simulation
  <2>2. \A r \in Runs : Acts(r)' => Acts(r)
    BY <2>1 DEF Acts
  <2>3. OrdersWereDecided'
    BY <1>0, <2>1 DEF OrdersWereDecided
  <2>4. QED
    BY <1>0, <2>1, <2>2, <2>3, OtherStep DEF DecisionInv
<1>7. QED
  BY <1>1, <1>2, <1>w, <1>3, <1>4, <1>5, <1>6 DEF DecisionNext

LEMMA Decided == DecisionSpec => []DecisionInv
<1>1. QED
  BY InitDecision, StepDecision, PTL DEF DecisionSpec

\* Rows, messages and the tables of the world keep their shape, and the
\* balances of dispatch_repositioning never go below zero.
THEOREM DecisionsTypeCorrect == DecisionSpec => []DecisionTypeOK
<1>1. DecisionInv => DecisionTypeOK
  BY DEF DecisionInv
<1>2. QED
  BY <1>1, Decided, PTL

\* What the broker has of run_optimization's decisions is in the database,
\* whatever fails and whichever process ends.
THEOREM SentIsDurable == DecisionSpec => []DurableBeforeSent
<1>1. DecisionInv => DurableBeforeSent
  BY DEF DecisionInv
<1>2. QED
  BY <1>1, Decided, PTL

\* No message, order or lease is about a run whose row says RUNNING or FAILED:
\* every except of run_optimization is entered before the first message.
THEOREM FailedRunsSendNothing == DecisionSpec => []OnlyCompletedRunsAct
<1>1. DecisionInv => OnlyCompletedRunsAct
  BY DEF DecisionInv
<1>2. QED
  BY <1>1, Decided, PTL

\* The consumer's orders and leases are rows of the plans of the runs they
\* name, for any number of runs, worlds, and repeated or lost messages.
THEOREM WorldActsOnDecisions == DecisionSpec => []OrdersWereDecided
<1>1. DecisionInv => OrdersWereDecided
  BY DEF DecisionInv
<1>2. QED
  BY <1>1, Decided, PTL

----------------------------------------------------------------------------
(* Balances and orders. What is summed are the orders there are, which are *)
(* finitely many: each was brought by a message.                           *)

Ordered == {id \in Runs \X Legs : orders[id] # {}}

InTransitInv == DecisionTypeOK /\ IsFiniteSet(Ordered) /\ InTransitCoversOrders

\* The quantities summed are numbers.
LEMMA QuantitiesAreNumbers ==
    ASSUME DecisionTypeOK, NEW k, NEW id \in UnderWay(k)
    PROVE  id \in Ordered /\ QuantityOf(id) \in Nat
<1>1. id \in Runs \X Legs /\ orders[id] # {}
  BY DEF UnderWay
<1>2. orders[id] \subseteq Reposition
  BY <1>1 DEF DecisionTypeOK
<1>3. (CHOOSE d \in orders[id] : TRUE) \in Reposition
  BY <1>1, <1>2
<1>4. QED
  BY <1>1, <1>3, Kinds DEF QuantityOf, Ordered

\* Orders that are there before and after, as they were, need no more in
\* transit.
LEMMA FewerOrders ==
    ASSUME InTransitInv, DecisionTypeOK', NEW k, UnderWay(k)' \subseteq UnderWay(k),
           \A id \in UnderWay(k)' : orders'[id] = orders[id]
    PROVE  SumFunction([id \in UnderWay(k) |-> QuantityOf(id)])'
             <= SumFunction([id \in UnderWay(k) |-> QuantityOf(id)])
<1> DEFINE S == UnderWay(k)'
           T == UnderWay(k)
           f == [id \in S |-> QuantityOf(id)']
           g == [id \in T |-> QuantityOf(id)]
<1>1. S \in SUBSET T /\ T \subseteq Ordered
  BY QuantitiesAreNumbers DEF InTransitInv
<1>2. IsFiniteSet(T)
  BY <1>1, FS_Subset DEF InTransitInv
<1>3. g \in [T -> Nat]
  BY QuantitiesAreNumbers DEF InTransitInv
<1>4. \A id \in S : QuantityOf(id)' = QuantityOf(id)
  BY DEF QuantityOf
<1>5. f \in [S -> Nat] /\ \A id \in S : f[id] <= g[id]
  BY <1>1, <1>3, <1>4
<1> HIDE DEF S, T, f, g
<1>6. SumFunction(f) <= SumFunction(g)
  BY <1>1, <1>2, <1>3, <1>5, TotalIsMonotone
<1>7. QED
  BY <1>6 DEF f, g, S, T

\* One order more, or one in place of another, needs as many more as it says.
LEMMA OneOrder ==
    ASSUME InTransitInv, DecisionTypeOK', NEW k, NEW i, i \in UnderWay(k)',
           UnderWay(k)' \subseteq UnderWay(k) \union {i},
           \A id \in UnderWay(k)' \ {i} : orders'[id] = orders[id]
    PROVE  SumFunction([id \in UnderWay(k) |-> QuantityOf(id)])'
             <= SumFunction([id \in UnderWay(k) |-> QuantityOf(id)]) + QuantityOf(i)'
<1> DEFINE S == UnderWay(k)'
           T == UnderWay(k)
           R == S \ {i}
           f == [id \in S |-> QuantityOf(id)']
           g == [id \in T |-> QuantityOf(id)]
           h == [id \in R |-> QuantityOf(id)']
<1>1. R \in SUBSET T /\ T \subseteq Ordered /\ i \notin R /\ R \union {i} = S
  BY QuantitiesAreNumbers DEF InTransitInv
<1>2. IsFiniteSet(T) /\ IsFiniteSet(R)
  BY <1>1, FS_Subset DEF InTransitInv
<1>3. g \in [T -> Nat]
  BY QuantitiesAreNumbers DEF InTransitInv
<1>4. \A id \in R : QuantityOf(id)' = QuantityOf(id)
  BY DEF QuantityOf
<1>5. QuantityOf(i)' \in Nat
  <2>1. orders'[i] # {} /\ i \in Runs \X Legs
    BY DEF UnderWay
  <2>2. orders'[i] \subseteq Reposition
    BY <2>1 DEF DecisionTypeOK
  <2>3. (CHOOSE d \in orders'[i] : TRUE) \in Reposition
    BY <2>1, <2>2
  <2>4. QED
    BY <2>3, Kinds DEF QuantityOf
<1>6. h \in [R -> Nat] /\ \A id \in R : h[id] <= g[id] /\ h[id] = f[id]
  BY <1>1, <1>3, <1>4
<1>7. f[i] = QuantityOf(i)' /\ DOMAIN f = S /\ DOMAIN h = R
  OBVIOUS
<1> HIDE DEF S, T, R, f, g, h
<1>8. SumFunction(h) <= SumFunction(g) /\ SumFunction(h) \in Nat /\ SumFunction(g) \in Nat
  BY <1>1, <1>2, <1>3, <1>6, TotalIsMonotone, TotalIsNat
<1>9. SumFunctionOnSet(f, R) = SumFunctionOnSet(h, R)
  BY <1>2, <1>6, SumsAgree
<1>10. SumFunctionOnSet(f, R \union {i}) = SumFunctionOnSet(f, R) + f[i]
  BY <1>1, <1>2, <1>5, <1>6, <1>7, SumGrows
<1>11. SumFunction(f) = SumFunction(h) + QuantityOf(i)'
  BY <1>1, <1>7, <1>9, <1>10, TotalIsSum
<1>12. SumFunction(f) <= SumFunction(g) + QuantityOf(i)'
  BY <1>5, <1>8, <1>11
<1>13. QED
  BY <1>12 DEF f, g, S, T

LEMMA InitInTransit == DecisionInit => InTransitInv
<1> SUFFICES ASSUME DecisionInit PROVE InTransitInv
  OBVIOUS
<1>1. DecisionTypeOK
  BY InitDecision DEF DecisionInv
<1>2. \A id \in Runs \X Legs : orders[id] = {}
  BY DEF DecisionInit
<1>3. Ordered = {}
  BY <1>2 DEF Ordered
<1>4. ASSUME NEW k \in Pools
      PROVE  pool[k].inTransit >= SumFunction([id \in UnderWay(k) |-> QuantityOf(id)])
  <2>1. UnderWay(k) = {}
    BY <1>2 DEF UnderWay
  <2>2. SumFunction([id \in UnderWay(k) |-> QuantityOf(id)]) = 0
    BY <2>1, TotalOfNothing
  <2>3. pool[k].inTransit = 0
    BY DEF DecisionInit, Seeded
  <2>4. QED
    BY <2>2, <2>3
<1>5. QED
  BY <1>1, <1>3, <1>4, FS_EmptySet DEF InTransitInv, InTransitCoversOrders

\* A step that leaves the orders and the pools alone
LEMMA OrdersStay ==
    ASSUME InTransitInv, DecisionTypeOK', UNCHANGED <<pool, orders>>
    PROVE  InTransitInv'
<1>1. \A k : UnderWay(k)' = UnderWay(k)
  BY DEF UnderWay
<1>2. \A id : QuantityOf(id)' = QuantityOf(id)
  BY DEF QuantityOf
<1>3. InTransitCoversOrders'
  BY <1>1, <1>2 DEF InTransitInv, InTransitCoversOrders
<1> QED
  BY <1>3 DEF InTransitInv, Ordered

\* The consumer dispatches.
LEMMA DispatchCovers ==
    ASSUME InTransitInv, DecisionTypeOK', NEW m \in Message, m.directive \in Reposition,
           Dispatch(m)
    PROVE  InTransitInv'
<1> DEFINE d == m.directive
           k == <<From[d.place], d.type>>
           i == <<m.run, d.place>>
<1>1. /\ d.place \in Legs /\ d.type \in Types /\ d.quantity \in Nat
      /\ i \in Runs \X Legs /\ k \in Pools
  BY Kinds, DecisionAssumption DEF Pools
<1>2. /\ DecisionTypeOK /\ pool \in [Pools -> [available : Nat, inTransit : Nat]]
      /\ orders \in [Runs \X Legs -> SUBSET Reposition]
  BY DEF InTransitInv, DecisionTypeOK
<1>3. orders' = [orders EXCEPT ![i] = {d}]
  BY <1>2, DispatchTypes
<1>4. /\ orders'[i] = {d}
      /\ \A id \in (Runs \X Legs) \ {i} : orders'[id] = orders[id]
  BY <1>1, <1>2, <1>3
<1>5. pool' = [pool EXCEPT ![k] =
                 [available |-> TakenFrom(pool[k].available, d.quantity),
                  inTransit |-> PutInTransit(pool[k], d.quantity)]]
  BY DEF Dispatch
<1>6. /\ pool'[k].inTransit = pool[k].inTransit + d.quantity
      /\ \A j \in Pools \ {k} : pool'[j] = pool[j]
  BY <1>1, <1>2, <1>5 DEF PutInTransit
<1>7. IsFiniteSet(Ordered')
  <2>1. Ordered' \subseteq Ordered \union {i}
    BY <1>4 DEF Ordered
  <2>2. IsFiniteSet(Ordered \union {i})
    BY FS_AddElement DEF InTransitInv
  <2>3. QED
    BY <2>1, <2>2, FS_Subset
<1>8. \A j : \A id \in UnderWay(j)' \ {i} : id \in UnderWay(j) /\ orders'[id] = orders[id]
  BY <1>4 DEF UnderWay
<1>9. \A j : i \in UnderWay(j)' <=> i \in Runs \X Legs
                                     /\ From[d.place] = j[1] /\ d.type = j[2]
  BY <1>4 DEF UnderWay
<1>10. QuantityOf(i)' = d.quantity
  BY <1>4 DEF QuantityOf
<1>q. \A j \in Pools : pool[j].inTransit \in Nat
  BY <1>2
<1>s. \A j \in Pools :
         pool[j].inTransit >= SumFunction([id \in UnderWay(j) |-> QuantityOf(id)])
  BY DEF InTransitInv, InTransitCoversOrders
<1>i. \A j \in Pools : j = <<j[1], j[2]>>
  BY DEF Pools
<1> HIDE DEF i, k, d
<1>n. \A j : SumFunction([id \in UnderWay(j) |-> QuantityOf(id)]) \in Nat
  <2> SUFFICES ASSUME NEW j
               PROVE SumFunction([id \in UnderWay(j) |-> QuantityOf(id)]) \in Nat
    OBVIOUS
  <2>1. IsFiniteSet(UnderWay(j))
    <3>1. UnderWay(j) \subseteq Ordered
      BY <1>2, QuantitiesAreNumbers
    <3>2. QED
      BY <3>1, FS_Subset DEF InTransitInv
  <2>2. [id \in UnderWay(j) |-> QuantityOf(id)] \in [UnderWay(j) -> Nat]
    BY <1>2, QuantitiesAreNumbers
  <2>3. QED
    BY <2>1, <2>2, TotalIsNat
<1>m. \A j : SumFunction([id \in UnderWay(j) |-> QuantityOf(id)])' \in Int
  <2> SUFFICES ASSUME NEW j
               PROVE SumFunction([id \in UnderWay(j) |-> QuantityOf(id)])' \in Int
    OBVIOUS
  <2> DEFINE S == UnderWay(j)'
             f == [id \in S |-> QuantityOf(id)']
  <2>1. IsFiniteSet(S)
    <3>1. S \subseteq Ordered'
      BY DEF UnderWay, Ordered
    <3>2. QED
      BY <1>7, <3>1, FS_Subset
  <2>2. \A id \in S : QuantityOf(id)' \in Nat
    <3> SUFFICES ASSUME NEW id \in S PROVE QuantityOf(id)' \in Nat
      OBVIOUS
    <3>1. orders'[id] # {} /\ orders'[id] \subseteq Reposition
      BY DEF UnderWay, DecisionTypeOK
    <3>2. (CHOOSE e \in orders'[id] : TRUE) \in Reposition
      BY <3>1
    <3>3. QED
      BY <3>2, Kinds DEF QuantityOf
  <2>3. f \in [S -> Nat]
    BY <2>2
  <2> HIDE DEF S, f
  <2>4. SumFunction(f) \in Nat
    BY <2>1, <2>3, TotalIsNat
  <2>5. QED
    BY <2>4 DEF S, f
<1>11. ASSUME NEW j \in Pools
       PROVE  pool'[j].inTransit >= SumFunction([id \in UnderWay(j) |-> QuantityOf(id)])'
  <2>1. CASE j = k
    <3>1. i \in UnderWay(j)'
      BY <1>1, <1>9, <2>1 DEF k
    <3>2. UnderWay(j)' \subseteq UnderWay(j) \union {i}
      BY <1>8
    <3>3. \A id \in UnderWay(j)' \ {i} : orders'[id] = orders[id]
      BY <1>8
    <3>4. SumFunction([id \in UnderWay(j) |-> QuantityOf(id)])'
             <= SumFunction([id \in UnderWay(j) |-> QuantityOf(id)]) + QuantityOf(i)'
      BY <3>1, <3>2, <3>3, OneOrder
    <3>5. pool'[j].inTransit = pool[j].inTransit + d.quantity
      BY <1>6, <2>1
    <3>6. QED
      BY <1>1, <1>10, <1>q, <1>s, <1>n, <1>m, <3>4, <3>5
  <2>2. CASE j # k
    <3>1. i \notin UnderWay(j)'
      BY <1>9, <1>i, <2>2 DEF k
    <3>2. UnderWay(j)' \subseteq UnderWay(j)
      BY <1>8, <3>1
    <3>3. \A id \in UnderWay(j)' : orders'[id] = orders[id]
      BY <1>8, <3>1
    <3>4. SumFunction([id \in UnderWay(j) |-> QuantityOf(id)])'
             <= SumFunction([id \in UnderWay(j) |-> QuantityOf(id)])
      BY <3>2, <3>3, FewerOrders
    <3>5. pool'[j] = pool[j]
      BY <1>6, <2>2
    <3>6. QED
      BY <1>q, <1>s, <1>n, <1>m, <3>4, <3>5
  <2>3. QED
    BY <2>1, <2>2
<1>12. InTransitCoversOrders'
  BY <1>11 DEF InTransitCoversOrders
<1>13. QED
  BY <1>7, <1>12 DEF InTransitInv

LEMMA StepInTransit == InTransitInv /\ [DecisionNext]_decisionVars => InTransitInv'
<1> SUFFICES ASSUME InTransitInv, [DecisionNext]_decisionVars PROVE InTransitInv'
  OBVIOUS
<1>0. DecisionTypeOK /\ DecisionTypeOK'
  BY DecisionStepTypes DEF InTransitInv
<1>1. ASSUME NEW r \in Runs, RequestStep(r) PROVE InTransitInv'
  BY <1>0, <1>1, RequestMoves, OrdersStay DEF simulation
<1>2. CASE ApiStops
  BY <1>0, <1>2, OrdersStay DEF ApiStops, simulation
<1>3. CASE WipeTestDatabase
  BY <1>0, <1>3, OrdersStay DEF WipeTestDatabase, simulation
<1>4. ASSUME NEW m \in topic, Deliver(m) PROVE InTransitInv'
  <2>1. m \in Message
    BY <1>0 DEF DecisionTypeOK
  <2>2. CASE m.directive \in Reposition /\ Dispatch(m)
    BY <1>0, <2>1, <2>2, DispatchCovers
  <2>3. CASE UNCHANGED <<pool, orders>>
    BY <1>0, <2>3, OrdersStay
  <2>4. QED
    BY <1>4, <2>2, <2>3 DEF Deliver, Apply, OrderLease
<1>5. ASSUME NEW m \in topic, Expire(m) PROVE InTransitInv'
  BY <1>0, <1>5, OrdersStay DEF Expire, simulation
<1>6. ASSUME NEW published \in BOOLEAN, NewWorld(published) PROVE InTransitInv'
  <2>1. /\ \A id \in Runs \X Legs : orders'[id] = {}
        /\ \A k \in Pools : pool'[k].inTransit = 0
    BY <1>6 DEF NewWorld, Seeded
  <2>2. IsFiniteSet(Ordered')
    <3>1. Ordered' = {}
      BY <2>1 DEF Ordered
    <3>2. QED
      BY <3>1, FS_EmptySet
  <2>3. ASSUME NEW k \in Pools
        PROVE  pool'[k].inTransit >= SumFunction([id \in UnderWay(k) |-> QuantityOf(id)])'
    <3> DEFINE f == [id \in UnderWay(k)' |-> QuantityOf(id)']
    <3>1. UnderWay(k)' = {}
      BY <2>1 DEF UnderWay
    <3>2. SumFunction(f) = 0
      BY <3>1, TotalOfNothing
    <3>3. QED
      BY <2>1, <3>2
  <2>4. InTransitCoversOrders'
    BY <2>3 DEF InTransitCoversOrders
  <2>5. QED
    BY <1>0, <2>2, <2>4 DEF InTransitInv
<1>7. CASE UNCHANGED decisionVars
  BY <1>0, <1>7, OrdersStay DEF decisionVars, simulation
<1>8. QED
  BY <1>1, <1>2, <1>3, <1>4, <1>5, <1>6, <1>7 DEF DecisionNext

\* A pool has as much in transit as the orders from it say, though orders are
\* overwritten by repeated and other messages, and though dispatch_repositioning
\* takes no more from the stock than there is.
THEOREM OrdersStayCovered == DecisionSpec => []InTransitCoversOrders
<1>1. InTransitInv => InTransitCoversOrders
  BY DEF InTransitInv
<1>2. QED
  BY <1>1, InitInTransit, StepInTransit, PTL DEF DecisionSpec

-----------------------------------------------------------------------------
(***************************************************************************)
(* Allocations                                                             *)
(***************************************************************************)

\* The allocations of a ledger once an advance has set their flags.
Reflagged(ledger, crossed) ==
    {[a EXCEPT !.locked = Flagged(a, crossed)] : a \in ledger}

\* The bookings an advance by d locks.
Crossed(d) == {b \in Bookings \ locked : IsAllocationLocked(Cutoff[b], TimeAfter(d))}

\* The bookings a plan serves, and the allocations it adds.
Served(plan) == {b \in Optimizable : plan[b][1] # NoVoyage}
Planned(plan) ==
    UNION {{[booking |-> b, container |-> c, voyage |-> plan[b][1],
             locked |-> FALSE] : c \in plan[b][2]} : b \in Served(plan)}

\* optimize() with a given plan.
OptimizeBy(plan) ==
    /\ planned' = planned \union Planned(plan)
    /\ holder' = [c \in Containers |->
          IF \E b \in Served(plan) : c \in plan[b][2]
          THEN CHOOSE b \in Served(plan) : c \in plan[b][2] ELSE holder[c]]
    /\ voyage' = [b \in Bookings |->
          IF b \in Served(plan) THEN plan[b][1] ELSE voyage[b]]
    /\ source' = [b \in Bookings |->
          IF b \in Served(plan) THEN "ALLOC-SET" ELSE source[b]]
    /\ UNCHANGED <<now, locked, observed>>

-----------------------------------------------------------------------------

\* Setting a flag changes nothing else of an allocation.
LEMMA FlagSet ==
    ASSUME NEW a \in Allocation, NEW crossed
    PROVE  LET n == [a EXCEPT !.locked = Flagged(a, crossed)]
           IN  /\ n \in Allocation
               /\ n.booking = a.booking /\ n.container = a.container
               /\ n.voyage = a.voyage
               /\ n.locked = Flagged(a, crossed)
<1>1. Flagged(a, crossed) \in BOOLEAN
  BY Zenon DEF Flagged
<1>2. ASSUME NEW f \in BOOLEAN
      PROVE  LET n == [a EXCEPT !.locked = f]
             IN  /\ n \in Allocation
                 /\ n.booking = a.booking /\ n.container = a.container
                 /\ n.voyage = a.voyage
                 /\ n.locked = f
  BY DEF Allocation
<1>3. QED
  BY <1>1, <1>2

\* What a step of each kind does, with the helpers above.
LEMMA StepCases ==
    ASSUME [Next]_vars
    PROVE  \/ \E d \in 1..Day :
                 /\ now' = TimeAfter(d)
                 /\ locked' = locked \union Crossed(d)
                 /\ planned' = Reflagged(planned, Crossed(d))
                 /\ observed' = Reflagged(observed, Crossed(d))
                 /\ UNCHANGED <<voyage, source, holder>>
           \/ \E b \in Bookings, c \in Containers, v \in Voyages : Observe(b, c, v)
           \/ \E plan \in Plans : OptimizeBy(plan)
           \/ UNCHANGED vars
<1>1. ASSUME NEW d \in 1..Day, Advance(d)
      PROVE  /\ now' = TimeAfter(d)
             /\ locked' = locked \union Crossed(d)
             /\ planned' = Reflagged(planned, Crossed(d))
             /\ observed' = Reflagged(observed, Crossed(d))
             /\ UNCHANGED <<voyage, source, holder>>
  BY <1>1 DEF Advance, Crossed, Reflagged
<1>2. ASSUME Optimize PROVE \E plan \in Plans : OptimizeBy(plan)
  BY <1>2 DEF Optimize, OptimizeBy, Served, Planned
<1>3. QED
  BY <1>1, <1>2 DEF Next

\* What the constraints leave of a solution: containers nobody holds, none
\* given twice, voyages for whoever is served.
LEMMA PlanShapes ==
    ASSUME NEW plan \in Plans
    PROVE  /\ Served(plan) \subseteq Optimizable
           /\ Optimizable \subseteq Bookings
           /\ \A b \in Served(plan) : /\ plan[b][1] \in Voyages \union {NoVoyage}
                                      /\ plan[b][2] \subseteq Empty
           /\ \A b, c \in Served(plan) :
                 b # c => plan[b][2] \intersect plan[c][2] = {}
BY DEF Plans, Served, Optimizable

\* An allocation the plan adds.
LEMMA PlannedShapes ==
    ASSUME NEW plan \in Plans, NEW a \in Planned(plan)
    PROVE  /\ a \in Allocation
           /\ a.booking \in Served(plan)
           /\ a.container \in plan[a.booking][2]
           /\ a.container \in Empty
           /\ a = [booking |-> a.booking, container |-> a.container,
                   voyage |-> plan[a.booking][1], locked |-> FALSE]
           /\ a.locked = FALSE
<1>0. PICK b \in Served(plan) : \E c \in plan[b][2] :
         a = [booking |-> b, container |-> c, voyage |-> plan[b][1], locked |-> FALSE]
  BY DEF Planned
<1>1. PICK c \in plan[b][2] :
         a = [booking |-> b, container |-> c, voyage |-> plan[b][1], locked |-> FALSE]
  BY <1>0
<1>2. /\ b \in Bookings /\ c \in Empty /\ c \in Containers
      /\ plan[b][1] \in Voyages \union {NoVoyage}
  BY PlanShapes DEF Empty
<1>3. QED
  BY <1>1, <1>2 DEF Allocation

-----------------------------------------------------------------------------

\* The seeded ledger has the shape it keeps.
LEMMA InitTypes == Init => TypeOK
<1> SUFFICES ASSUME Init PROVE TypeOK
  OBVIOUS
<1>1. planned \subseteq Allocation
  <2> SUFFICES ASSUME NEW c \in Containers, holder[c] # Nobody
               PROVE  [booking |-> holder[c], container |-> c,
                       voyage |-> voyage[holder[c]],
                       locked |-> holder[c] \in SeedLocked] \in Allocation
    BY DEF Init
  <2>1. /\ holder[c] \in Bookings
        /\ voyage[holder[c]] \in Voyages \union {NoVoyage}
    BY AllocationAssumption DEF Init
  <2>2. (holder[c] \in SeedLocked) \in BOOLEAN
    OBVIOUS
  <2>3. QED
    BY <2>1, <2>2 DEF Allocation
<1>2. source \in [Bookings -> Reference]
  BY DEF Init, Reference
<1>3. QED
  BY <1>1, <1>2, AllocationAssumption DEF Init, TypeOK

\* Every step keeps the types.
LEMMA StepTypes == TypeOK /\ [Next]_vars => TypeOK'
<1> SUFFICES ASSUME TypeOK, [Next]_vars PROVE TypeOK'
  OBVIOUS
<1>0. /\ now \in Nat /\ locked \subseteq Bookings
      /\ voyage \in [Bookings -> Voyages \union {NoVoyage}]
      /\ source \in [Bookings -> Reference]
      /\ planned \subseteq Allocation /\ observed \subseteq Allocation
      /\ holder \in [Containers -> Bookings \union {Nobody}]
  BY DEF TypeOK
<1>1. ASSUME NEW d \in 1..Day,
             now' = TimeAfter(d), locked' = locked \union Crossed(d),
             planned' = Reflagged(planned, Crossed(d)),
             observed' = Reflagged(observed, Crossed(d)),
             UNCHANGED <<voyage, source, holder>>
      PROVE  TypeOK'
  <2>1. \A ledger : ledger \subseteq Allocation =>
                       Reflagged(ledger, Crossed(d)) \subseteq Allocation
    BY FlagSet DEF Reflagged
  <2>2. now' \in Nat
    BY <1>0, <1>1, AllocationAssumption DEF TimeAfter
  <2>3. Crossed(d) \subseteq Bookings
    BY DEF Crossed
  <2>4. QED
    BY <1>0, <1>1, <2>1, <2>2, <2>3 DEF TypeOK
<1>2. ASSUME NEW b \in Bookings, NEW c \in Containers, NEW v \in Voyages,
             Observe(b, c, v)
      PROVE  TypeOK'
  <2>1. [booking |-> b, container |-> c, voyage |-> v, locked |-> FALSE] \in Allocation
    BY DEF Allocation
  <2>2. source' \in [Bookings -> Reference]
    BY <1>0, <1>2 DEF Observe, Reference
  <2>3. QED
    BY <1>0, <1>2, <2>1, <2>2 DEF Observe, TypeOK
<1>3. ASSUME NEW plan \in Plans, OptimizeBy(plan)
      PROVE  TypeOK'
  <2>1. planned' \subseteq Allocation
    BY <1>0, <1>3, PlannedShapes DEF OptimizeBy
  <2>2. voyage' \in [Bookings -> Voyages \union {NoVoyage}]
    BY <1>0, <1>3, PlanShapes DEF OptimizeBy
  <2>3. source' \in [Bookings -> Reference]
    BY <1>0, <1>3 DEF OptimizeBy, Reference
  <2>4. holder' \in [Containers -> Bookings \union {Nobody}]
    <3>1. Served(plan) \subseteq Bookings
      BY PlanShapes
    <3>2. ASSUME NEW c \in Containers, \E b \in Served(plan) : c \in plan[b][2]
          PROVE  (CHOOSE b \in Served(plan) : c \in plan[b][2]) \in Bookings
      BY <3>1, <3>2
    <3>3. QED
      BY <1>0, <1>3, <3>2 DEF OptimizeBy
  <2>5. QED
    BY <1>0, <1>3, <2>1, <2>2, <2>3, <2>4 DEF OptimizeBy, TypeOK
<1>4. CASE UNCHANGED vars
  BY <1>0, <1>4 DEF vars, TypeOK
<1>5. QED
  BY <1>1, <1>2, <1>3, <1>4, StepCases

\* Bookings, ledger and containers keep their shape, whatever the messages and
\* the solver bring.
THEOREM AllocationsTypeCorrect == Spec => []TypeOK
<1>1. QED
  BY InitTypes, StepTypes, PTL DEF Spec

-----------------------------------------------------------------------------

\* Every booking at or past its cutoff is locked at the end of every advance,
\* however long the advances are: no cutoff falls between two of them.
THEOREM LocksComeOnTime == Spec => []LocksAreTimely
<1>1. Init => LocksAreTimely
  BY DEF Init, LocksAreTimely
<1>2. TypeOK /\ LocksAreTimely /\ [Next]_vars => LocksAreTimely'
  <2> SUFFICES ASSUME TypeOK, LocksAreTimely, [Next]_vars PROVE LocksAreTimely'
    OBVIOUS
  <2>1. ASSUME NEW d \in 1..Day, now' = TimeAfter(d),
               locked' = locked \union Crossed(d)
        PROVE  LocksAreTimely'
    BY <2>1, AllocationAssumption
       DEF LocksAreTimely, Crossed, IsAllocationLocked
  <2>2. ASSUME UNCHANGED <<now, locked>> PROVE LocksAreTimely'
    BY <2>2 DEF LocksAreTimely
  <2>3. QED
    BY <2>1, <2>2, StepCases DEF Observe, OptimizeBy, vars
<1>3. QED
  BY <1>1, <1>2, InitTypes, StepTypes, PTL DEF Spec

\* No allocation is flagged locked before its booking is: replanning, late
\* messages and the validator's repair included.
THEOREM FlagsNeverRunAhead == Spec => []FlagsFollowLocks
<1>1. Init => FlagsFollowLocks
  <2> SUFFICES ASSUME Init, NEW a \in Allocations, a.locked
               PROVE  a.booking \in locked
    BY DEF FlagsFollowLocks
  <2>1. PICK c \in Containers :
           a = [booking |-> holder[c], container |-> c,
                voyage |-> voyage[holder[c]],
                locked |-> holder[c] \in SeedLocked]
    BY DEF Init, Allocations
  <2>2. a.booking = holder[c]
    BY <2>1
  <2>3. holder[c] \in SeedLocked
    BY <2>1
  <2>4. QED
    BY <2>2, <2>3 DEF Init
<1>2. TypeOK /\ FlagsFollowLocks /\ [Next]_vars => FlagsFollowLocks'
  <2> SUFFICES ASSUME TypeOK, FlagsFollowLocks, [Next]_vars,
                      NEW n \in Allocations', n.locked
               PROVE  n.booking \in locked'
    BY DEF FlagsFollowLocks
  <2>0. Allocations \subseteq Allocation
    BY DEF TypeOK, Allocations
  <2>1. ASSUME NEW d \in 1..Day, locked' = locked \union Crossed(d),
               planned' = Reflagged(planned, Crossed(d)),
               observed' = Reflagged(observed, Crossed(d))
        PROVE  n.booking \in locked'
    <3>1. PICK a \in Allocations : n = [a EXCEPT !.locked = Flagged(a, Crossed(d))]
      BY <2>1 DEF Allocations, Reflagged
    <3>2. n.booking = a.booking /\ Flagged(a, Crossed(d))
      BY <2>0, <3>1, FlagSet
    <3>3. a.locked => a.booking \in locked
      BY DEF FlagsFollowLocks
    <3>4. QED
      BY <2>1, <3>2, <3>3 DEF Flagged
  <2>2. ASSUME NEW b \in Bookings, NEW c \in Containers, NEW v \in Voyages,
               Observe(b, c, v)
        PROVE  n.booking \in locked'
    BY <2>2 DEF Observe, Allocations, FlagsFollowLocks
  <2>3. ASSUME NEW plan \in Plans, OptimizeBy(plan)
        PROVE  n.booking \in locked'
    BY <2>3, PlannedShapes DEF OptimizeBy, Allocations, FlagsFollowLocks
  <2>4. CASE UNCHANGED vars
    BY <2>4 DEF vars, Allocations, FlagsFollowLocks
  <2>5. QED
    BY <2>1, <2>2, <2>3, <2>4, StepCases
<1>3. QED
  BY <1>1, <1>2, InitTypes, StepTypes, PTL DEF Spec

-----------------------------------------------------------------------------

\* The holder map after a plan: who the plan serves holds what it gets, and
\* everything else stays with whoever had it.
LEMMA HolderAfterPlan ==
    ASSUME TypeOK, NEW plan \in Plans, OptimizeBy(plan), NEW c \in Containers
    PROVE  /\ \A b \in Served(plan) : c \in plan[b][2] => holder'[c] = b
           /\ c \notin Empty => holder'[c] = holder[c]
<1>1. ASSUME NEW b \in Served(plan), c \in plan[b][2]
      PROVE  holder'[c] = b
  <2>1. \A x \in Served(plan) : c \in plan[x][2] => x = b
    BY <1>1, PlanShapes
  <2>2. (CHOOSE x \in Served(plan) : c \in plan[x][2]) = b
    BY <1>1, <2>1
  <2>3. QED
    BY <1>1, <2>2 DEF OptimizeBy
<1>2. ASSUME c \notin Empty
      PROVE  holder'[c] = holder[c]
  BY <1>2, PlanShapes DEF OptimizeBy
<1>3. QED
  BY <1>1, <1>2

\* However often the engine runs, and whatever plan the solver finds, no
\* container gets a second allocation, and each knows its booking.
THEOREM EngineNeverAllocatesTwice == Spec => []EngineAllocatesOnce
<1>1. Init => EngineAllocatesOnce
  <2> SUFFICES ASSUME Init PROVE EngineAllocatesOnce
    OBVIOUS
  <2>1. ASSUME NEW a \in planned
        PROVE  /\ a.container \in Containers
               /\ holder[a.container] = a.booking
               /\ a = [booking |-> holder[a.container],
                       container |-> a.container,
                       voyage |-> voyage[holder[a.container]],
                       locked |-> holder[a.container] \in SeedLocked]
    BY DEF Init
  <2>2. QED
    BY <2>1 DEF EngineAllocatesOnce
<1>2. TypeOK /\ EngineAllocatesOnce /\ [Next]_vars => EngineAllocatesOnce'
  <2> SUFFICES ASSUME TypeOK, EngineAllocatesOnce, [Next]_vars
               PROVE  EngineAllocatesOnce'
    OBVIOUS
  <2>0. planned \subseteq Allocation
    BY DEF TypeOK
  <2>1. ASSUME NEW d \in 1..Day, planned' = Reflagged(planned, Crossed(d)),
               UNCHANGED holder
        PROVE  EngineAllocatesOnce'
    <3>1. ASSUME NEW n \in planned'
          PROVE  \E a \in planned : /\ n = [a EXCEPT !.locked = Flagged(a, Crossed(d))]
                                    /\ n.container = a.container
                                    /\ n.booking = a.booking
      <4>1. PICK a \in planned : n = [a EXCEPT !.locked = Flagged(a, Crossed(d))]
        BY <2>1 DEF Reflagged
      <4>2. QED
        BY <2>0, <4>1, FlagSet
    <3>2. QED
      BY <2>1, <3>1 DEF EngineAllocatesOnce
  <2>2. ASSUME NEW plan \in Plans, OptimizeBy(plan)
        PROVE  EngineAllocatesOnce'
    <3>1. planned' = planned \union Planned(plan)
      BY <2>2 DEF OptimizeBy
    <3>2. ASSUME NEW a \in planned
          PROVE  /\ a.container \in Containers
                 /\ a.container \notin Empty
                 /\ holder'[a.container] = a.booking
      <4>1. a.container \in Containers /\ a.booking \in Bookings
        BY <2>0 DEF Allocation
      <4>2. holder[a.container] = a.booking
        BY DEF EngineAllocatesOnce
      <4>3. a.container \notin Empty
        BY <4>1, <4>2, AllocationAssumption DEF Empty
      <4>4. QED
        BY <2>2, <4>1, <4>2, <4>3, HolderAfterPlan
    <3>3. ASSUME NEW a \in Planned(plan)
          PROVE  /\ a.container \in Empty
                 /\ a.container \in Containers
                 /\ holder'[a.container] = a.booking
      <4>1. a.container \in Empty /\ a.container \in Containers
        BY PlannedShapes DEF Empty
      <4>2. a.booking \in Served(plan) /\ a.container \in plan[a.booking][2]
        BY PlannedShapes
      <4>3. holder'[a.container] = a.booking
        BY <2>2, <4>1, <4>2, HolderAfterPlan
      <4>4. QED
        BY <4>1, <4>3
    <3>4. ASSUME NEW a \in planned', NEW b \in planned', a.container = b.container
          PROVE  a = b
      <4>1. CASE a \in planned /\ b \in planned
        BY <3>4, <4>1 DEF EngineAllocatesOnce
      <4>2. CASE a \in Planned(plan) /\ b \in Planned(plan)
        <5>1. a.booking = b.booking
          BY <3>3, <3>4, <4>2
        <5>2. QED
          BY <3>4, <4>2, <5>1, PlannedShapes
      <4>3. QED
        BY <3>1, <3>2, <3>3, <3>4, <4>1, <4>2
    <3>5. QED
      BY <3>1, <3>2, <3>3, <3>4 DEF EngineAllocatesOnce
  <2>3. ASSUME UNCHANGED <<planned, holder>> PROVE EngineAllocatesOnce'
    BY <2>3 DEF EngineAllocatesOnce
  <2>4. QED
    BY <2>1, <2>2, <2>3, StepCases DEF Observe, vars
<1>3. QED
  BY <1>1, <1>2, InitTypes, StepTypes, PTL DEF Spec

\* A locked booking inside the window keeps its voyage and its containers in
\* every step: messages are refused, the engine looks away, flags only change.
THEOREM WindowIsFrozen == Spec => FrozenInsideWindow
<1>1. TypeOK /\ [Next]_vars =>
         [\A b \in locked : InsideWindow(b) => Commitments(b)' = Commitments(b)]_vars
  <2> SUFFICES ASSUME TypeOK, [Next]_vars, NEW b \in locked, InsideWindow(b)
               PROVE  Commitments(b)' = Commitments(b)
    OBVIOUS
  <2>0. b \in Bookings /\ Allocations \subseteq Allocation
    BY DEF TypeOK, Allocations
  <2>1. ASSUME NEW d \in 1..Day, planned' = Reflagged(planned, Crossed(d)),
               observed' = Reflagged(observed, Crossed(d)), UNCHANGED voyage
        PROVE  Commitments(b)' = Commitments(b)
    <3> DEFINE Set(a) == [a EXCEPT !.locked = Flagged(a, Crossed(d))]
    <3>1. Allocations' = {Set(a) : a \in Allocations}
      BY <2>1 DEF Allocations, Reflagged
    <3>2. \A a \in Allocations : /\ Set(a).booking = a.booking
                                 /\ Set(a).container = a.container
                                 /\ Set(a).voyage = a.voyage
      BY <2>0, FlagSet
    <3> HIDE DEF Set
    <3>3. {<<a.container, a.voyage>> : a \in {x \in Allocations' : x.booking = b}}
          = {<<a.container, a.voyage>> : a \in {x \in Allocations : x.booking = b}}
      BY <3>1, <3>2
    <3>4. QED
      BY <2>1, <3>3 DEF Commitments, AllocationsOf
  <2>2. ASSUME NEW c \in Bookings, NEW k \in Containers, NEW v \in Voyages,
               Observe(c, k, v)
        PROVE  Commitments(b)' = Commitments(b)
    <3>1. c # b
      BY <2>2 DEF Observe, Modifiable
    <3>2. {x \in Allocations' : x.booking = b} = {x \in Allocations : x.booking = b}
      BY <2>2, <3>1 DEF Observe, Allocations
    <3>3. QED
      BY <2>2, <3>2 DEF Observe, Commitments, AllocationsOf
  <2>3. ASSUME NEW plan \in Plans, OptimizeBy(plan)
        PROVE  Commitments(b)' = Commitments(b)
    <3>1. b \notin Served(plan)
      BY PlanShapes DEF Optimizable
    <3>2. \A a \in Planned(plan) : a.booking # b
      BY <3>1, PlannedShapes
    <3>3. {x \in Allocations' : x.booking = b} = {x \in Allocations : x.booking = b}
      BY <2>3, <3>2 DEF OptimizeBy, Allocations
    <3>4. voyage'[b] = voyage[b]
      BY <2>0, <2>3, <3>1 DEF OptimizeBy
    <3>5. QED
      BY <3>3, <3>4 DEF Commitments, AllocationsOf
  <2>4. CASE UNCHANGED vars
    BY <2>4 DEF vars, Commitments, AllocationsOf, Allocations
  <2>5. QED
    BY <2>1, <2>2, <2>3, <2>4, StepCases
<1>2. QED
  BY <1>1, InitTypes, StepTypes, PTL DEF Spec, FrozenInsideWindow

=============================================================================
