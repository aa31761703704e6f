-------------------------- MODULE SimKernel_proofs --------------------------
(***************************************************************************)
(* Proofs about the kernel, for any event types, priorities, delays and    *)
(* bounds: its types, the order and timeliness of the agenda, how far the  *)
(* clock may be from kernel time, that every event is in exactly one place *)
(* at any time, and that the kernel implements the agenda.                 *)
(***************************************************************************)
EXTENDS SimKernel, SequenceTheorems, FiniteSetTheorems, TLAPS

\* The agenda's sequence numbers have all been issued, so the next one sorts
\* after every equal (time, priority).
SequencesIssued == \A i \in DOMAIN queue : queue[i].sequence < counter

\* While a step runs, time has not passed its target, and the clock is as far
\* from the target as the step is long (closer only after an earlier failure).
StepOnCourse ==
    phase \in {"loop", "handler"} =>
        /\ env <= target
        /\ clock + delta <= target
        /\ ~failed => clock + delta = target

\* Between the end of the loop and the hand-over, the clock shows the end of
\* the step.
StepClosed == phase = "validate" /\ ~failed => clock = env

\* The inductive invariant.
KernelInv ==
    /\ TypeOK
    /\ SequencesIssued
    /\ AgendaOrdered
    /\ NothingOverdue
    /\ ClockNotAhead
    /\ StepOnCourse
    /\ StepClosed

-----------------------------------------------------------------------------

\* What schedule() does to the agenda, whoever calls it: types, order and the
\* lower bounds of times and sequence numbers survive.
LEMMA EnqueueKeepsAgenda ==
    ASSUME TypeOK, SequencesIssued, AgendaOrdered, NothingOverdue,
           NEW type \in EventTypes, NEW at \in Nat, at >= env,
           Enqueue(type, at)
    PROVE  /\ queue' \in Seq(ScheduledEvent)
           /\ counter' \in Nat
           /\ SequencesIssued'
           /\ \A i, j \in DOMAIN queue' : i < j => Precedes(queue'[i], queue'[j])
           /\ \A i \in DOMAIN queue' : queue'[i].time >= env
<1> DEFINE e == [time |-> at, priority |-> Priority[type], sequence |-> counter,
                 type |-> type, run |-> run]
<1>1. e \in ScheduledEvent
  BY KernelAssumption DEF TypeOK, ScheduledEvent
<1>0. e.time = at /\ e.sequence = counter
  OBVIOUS
<1> HIDE DEF e
<1>2. counter' = counter + 1 /\ counter \in Nat /\ env \in Nat
      /\ queue \in Seq(ScheduledEvent)
  BY DEF Enqueue, TypeOK
<1>3. PICK p \in 0..Len(queue) :
         /\ \A i \in 1..p : Precedes(queue[i], e)
         /\ \A i \in (p + 1)..Len(queue) : Precedes(e, queue[i])
         /\ queue' = InsertAfter(queue, p, e)
  BY DEF Enqueue, e
<1>4. /\ queue' \in Seq(ScheduledEvent)
      /\ Len(queue') = Len(queue) + 1
      /\ \A i \in 1..(Len(queue) + 1) :
            queue'[i] = IF i <= p THEN queue[i]
                        ELSE IF i = p + 1 THEN e ELSE queue[i - 1]
  BY <1>1, <1>2, <1>3 DEF InsertAfter
<1>5. DOMAIN queue = 1..Len(queue) /\ DOMAIN queue' = 1..(Len(queue) + 1)
      /\ Len(queue) \in Nat
  BY <1>2, <1>4
<1>6. ASSUME NEW i \in DOMAIN queue'
      PROVE  \/ i \in DOMAIN queue /\ queue'[i] = queue[i]
             \/ queue'[i] = e
             \/ i - 1 \in DOMAIN queue /\ queue'[i] = queue[i - 1]
  BY <1>4, <1>5, <1>6
<1>7. SequencesIssued'
  <2> SUFFICES ASSUME NEW i \in DOMAIN queue'
               PROVE  queue'[i].sequence < counter'
    BY DEF SequencesIssued
  <2>1. \A k \in DOMAIN queue : queue[k].sequence \in Nat
    <3>1. \A k \in DOMAIN queue : queue[k] \in ScheduledEvent
      BY <1>2, <1>5
    <3>2. QED
      BY <3>1 DEF ScheduledEvent
  <2>2. QED
    BY <2>1, <1>0, <1>2, <1>6 DEF SequencesIssued
<1>8. \A i \in DOMAIN queue' : queue'[i].time >= env
  BY <1>0, <1>6 DEF NothingOverdue
<1>9. ASSUME NEW i \in DOMAIN queue', NEW j \in DOMAIN queue', i < j
      PROVE  Precedes(queue'[i], queue'[j])
  <2>1. CASE i <= p /\ j <= p
    BY <2>1, <1>4, <1>5, <1>9 DEF AgendaOrdered
  <2>2. CASE i <= p /\ j = p + 1
    BY <2>2, <1>3, <1>4, <1>5, <1>9
  <2>3. CASE i <= p /\ j > p + 1
    BY <2>3, <1>4, <1>5, <1>9 DEF AgendaOrdered
  <2>4. CASE i = p + 1
    <3>1. j - 1 \in (p + 1)..Len(queue)
      BY <2>4, <1>5, <1>9
    <3>2. QED
      BY <3>1, <2>4, <1>3, <1>4, <1>5, <1>9
  <2>5. CASE i > p + 1
    <3>1. i - 1 \in DOMAIN queue /\ j - 1 \in DOMAIN queue /\ i - 1 < j - 1
      BY <2>5, <1>5, <1>9
    <3>2. queue'[i] = queue[i - 1] /\ queue'[j] = queue[j - 1]
      BY <2>5, <1>4, <1>5, <1>9
    <3>3. QED
      BY <3>1, <3>2 DEF AgendaOrdered
  <2>6. QED
    BY <2>1, <2>2, <2>3, <2>4, <2>5, <1>5, <1>9
<1>10. QED
  BY <1>2, <1>4, <1>7, <1>8, <1>9

\* The order and the bounds of the agenda do not change when the agenda, the
\* counter and the time do not.
LEMMA AgendaFrame ==
    ASSUME SequencesIssued, AgendaOrdered, NothingOverdue,
           UNCHANGED <<queue, counter, env>>
    PROVE  SequencesIssued' /\ AgendaOrdered' /\ NothingOverdue'
BY DEF SequencesIssued, AgendaOrdered, NothingOverdue

\* The empty list is an agenda, and has no places.
LEMMA EmptyAgenda == <<>> \in Seq(ScheduledEvent) /\ DOMAIN <<>> = {}
OBVIOUS

\* Initially the agenda is empty and both times are zero.
LEMMA KernelInvInit == Init => KernelInv
<1> SUFFICES ASSUME Init
             PROVE  KernelInv
  OBVIOUS
<1>1. failed \in BOOLEAN
  BY Zenon DEF Init
<1>2. TypeOK
  BY <1>1, EmptyAgenda DEF Init, TypeOK
<1>3. SequencesIssued /\ AgendaOrdered /\ NothingOverdue
  BY EmptyAgenda DEF Init, SequencesIssued, AgendaOrdered, NothingOverdue
<1>4. ClockNotAhead /\ StepOnCourse /\ StepClosed
  BY DEF Init, ClockNotAhead, StepOnCourse, StepClosed
<1>5. QED
  BY <1>2, <1>3, <1>4 DEF KernelInv

\* Every step of the kernel keeps the inductive invariant.
LEMMA KernelInvStep == KernelInv /\ [Next]_vars => KernelInv'
<1> SUFFICES ASSUME KernelInv, [Next]_vars
             PROVE  KernelInv'
  OBVIOUS
<1> USE DEF KernelInv
<1>1. ASSUME NEW type \in EventTypes, NEW d \in Delays, Schedule(type, d)
      PROVE  KernelInv'
  <2>1. d \in Nat /\ env \in Nat /\ env + d \in Nat /\ env + d >= env
    BY KernelAssumption DEF TypeOK
  <2>2. Enqueue(type, env + d)
    BY <1>1 DEF Schedule
  <2>3. /\ queue' \in Seq(ScheduledEvent)
        /\ counter' \in Nat
        /\ SequencesIssued'
        /\ \A i, j \in DOMAIN queue' : i < j => Precedes(queue'[i], queue'[j])
        /\ \A i \in DOMAIN queue' : queue'[i].time >= env
    BY <2>1, <2>2, EnqueueKeepsAgenda
  <2>4. TypeOK'
    BY <1>1, <2>3 DEF Schedule, TypeOK
  <2>5. AgendaOrdered' /\ NothingOverdue'
    BY <1>1, <2>3 DEF Schedule, AgendaOrdered, NothingOverdue
  <2>6. ClockNotAhead' /\ StepOnCourse' /\ StepClosed'
    BY <1>1 DEF Schedule, ClockNotAhead, StepOnCourse, StepClosed
  <2>7. QED
    BY <2>3, <2>4, <2>5, <2>6
<1>2. ASSUME NEW d \in 1..MaxDelta, BeginAdvance(d)
      PROVE  KernelInv'
  <2>1. TypeOK'
    BY <1>2, KernelAssumption DEF BeginAdvance, TypeOK
  <2>2. SequencesIssued' /\ AgendaOrdered' /\ NothingOverdue'
    BY <1>2, AgendaFrame DEF BeginAdvance
  <2>3. ClockNotAhead' /\ StepOnCourse' /\ StepClosed'
    BY <1>2, KernelAssumption
    DEF BeginAdvance, TypeOK, ClockNotAhead, StepOnCourse, StepClosed
  <2>4. QED
    BY <2>1, <2>2, <2>3
<1>3. CASE PopNext
  <2>1. /\ queue \in Seq(ScheduledEvent)
        /\ Len(queue) \in Nat \ {0}
        /\ Head(queue) = queue[1]
        /\ queue[1] \in ScheduledEvent
        /\ queue[1].time \in Nat
        /\ queue[1].time <= target
        /\ queue[1].time >= env
    <3>1. queue \in Seq(ScheduledEvent) /\ queue # <<>> /\ Head(queue).time <= target
      BY <1>3 DEF PopNext, Due, TypeOK
    <3>2. 1 \in DOMAIN queue /\ Head(queue) = queue[1] /\ queue[1] \in ScheduledEvent
      BY <3>1
    <3>3. QED
      BY <3>1, <3>2 DEF ScheduledEvent, NothingOverdue
  <2>2. /\ queue' \in Seq(ScheduledEvent)
        /\ DOMAIN queue' = 1..(Len(queue) - 1)
        /\ \A i \in 1..(Len(queue) - 1) : queue'[i] = queue[i + 1]
    BY <1>3, <2>1 DEF PopNext
  <2>3. \A i \in DOMAIN queue' : i + 1 \in DOMAIN queue /\ 1 \in DOMAIN queue /\ 1 < i + 1
    BY <2>1, <2>2
  <2>4. SequencesIssued'
    BY <1>3, <2>2, <2>3 DEF PopNext, SequencesIssued
  <2>5. AgendaOrdered'
    <3> SUFFICES ASSUME NEW i \in DOMAIN queue', NEW j \in DOMAIN queue', i < j
                 PROVE  Precedes(queue'[i], queue'[j])
      BY DEF AgendaOrdered
    <3>1. /\ i + 1 \in DOMAIN queue
          /\ j + 1 \in DOMAIN queue
          /\ i + 1 < j + 1
          /\ queue'[i] = queue[i + 1]
          /\ queue'[j] = queue[j + 1]
      BY <2>1, <2>2, <2>3
    <3>2. QED
      BY <3>1 DEF AgendaOrdered
  <2>6. NothingOverdue'
    <3> SUFFICES ASSUME NEW i \in DOMAIN queue'
                 PROVE  queue'[i].time >= env'
      BY DEF NothingOverdue
    <3>1. Precedes(queue[1], queue[i + 1]) /\ queue'[i] = queue[i + 1]
      BY <2>2, <2>3 DEF AgendaOrdered
    <3>2. queue[i + 1] \in ScheduledEvent
      BY <2>1, <2>3
    <3>3. queue[i + 1].time \in Nat
      BY <3>2 DEF ScheduledEvent
    <3>4. queue[i + 1].time >= queue[1].time
      BY <2>1, <3>1, <3>3 DEF Precedes
    <3>5. QED
      BY <1>3, <2>1, <3>1, <3>4 DEF PopNext
  <2>7. TypeOK'
    BY <1>3, <2>1, <2>2 DEF PopNext, TypeOK
  <2>8. ClockNotAhead' /\ StepOnCourse' /\ StepClosed'
    BY <1>3, <2>1 DEF PopNext, TypeOK, ClockNotAhead, StepOnCourse, StepClosed
  <2>9. QED
    BY <2>4, <2>5, <2>6, <2>7, <2>8
<1>4. ASSUME NEW type \in EventTypes, NEW d \in Delays, HandlerSchedules(type, d)
      PROVE  KernelInv'
  <2>1. d \in Nat /\ env \in Nat /\ env + d \in Nat /\ env + d >= env
    BY KernelAssumption DEF TypeOK
  <2>2. Enqueue(type, env + d)
    BY <1>4 DEF HandlerSchedules
  <2>3. /\ queue' \in Seq(ScheduledEvent)
        /\ counter' \in Nat
        /\ SequencesIssued'
        /\ \A i, j \in DOMAIN queue' : i < j => Precedes(queue'[i], queue'[j])
        /\ \A i \in DOMAIN queue' : queue'[i].time >= env
    BY <2>1, <2>2, EnqueueKeepsAgenda
  <2>4. TypeOK'
    BY <1>4, <2>3 DEF HandlerSchedules, TypeOK
  <2>5. AgendaOrdered' /\ NothingOverdue'
    BY <1>4, <2>3 DEF HandlerSchedules, AgendaOrdered, NothingOverdue
  <2>6. ClockNotAhead' /\ StepOnCourse' /\ StepClosed'
    BY <1>4 DEF HandlerSchedules, ClockNotAhead, StepOnCourse, StepClosed
  <2>7. QED
    BY <2>3, <2>4, <2>5, <2>6
<1>5. CASE HandlerRaises \/ HandlerReturns \/ EventInvalid
  <2>1. current[1] \in ScheduledEvent /\ current[1].sequence \in Nat
    <3>1. current \in Seq(ScheduledEvent) /\ Len(current) = 1
      BY <1>5 DEF HandlerRaises, HandlerReturns, EventInvalid, TypeOK
    <3>2. current[1] \in ScheduledEvent
      BY <3>1
    <3>3. QED
      BY <3>2 DEF ScheduledEvent
  <2>2. log' \in Seq(ScheduledEvent)
    <3>1. log' = log \/ log' = Append(log, current[1])
      BY <1>5 DEF HandlerRaises, HandlerReturns, EventInvalid
    <3>2. log \in Seq(ScheduledEvent)
      BY DEF TypeOK
    <3>3. QED
      BY <2>1, <3>1, <3>2
  <2>3. failed' \in BOOLEAN
    BY <1>5, Zenon DEF HandlerRaises, HandlerReturns, EventInvalid, TypeOK
  <2>4. lost' \subseteq Nat
    BY <1>5, <2>1 DEF HandlerRaises, HandlerReturns, EventInvalid, TypeOK
  <2>5. /\ current' = <<>>
        /\ phase' \in {"idle", "loop"}
        /\ target' \in Nat
        /\ delta' \in Nat
    BY <1>5 DEF HandlerRaises, HandlerReturns, EventInvalid, LeaveAdvance, TypeOK
  <2>6. TypeOK'
    BY <1>5, <2>2, <2>3, <2>4, <2>5, EmptyAgenda
    DEF HandlerRaises, HandlerReturns, EventInvalid, TypeOK
  <2>7. SequencesIssued' /\ AgendaOrdered' /\ NothingOverdue'
    BY <1>5, AgendaFrame DEF HandlerRaises, HandlerReturns, EventInvalid
  <2>8. ClockNotAhead' /\ StepOnCourse' /\ StepClosed'
    BY <1>5 DEF HandlerRaises, HandlerReturns, EventInvalid, LeaveAdvance,
                ClockNotAhead, StepOnCourse, StepClosed
  <2>9. QED
    BY <2>6, <2>7, <2>8
<1>6. CASE EndLoop
  <2>1. TypeOK'
    BY <1>6 DEF EndLoop, ClockAdvanced, TypeOK
  <2>2. SequencesIssued' /\ AgendaOrdered'
    BY <1>6 DEF EndLoop, SequencesIssued, AgendaOrdered
  <2>3. NothingOverdue'
    <3> SUFFICES ASSUME NEW i \in DOMAIN queue
                 PROVE  queue[i].time >= target
      BY <1>6 DEF EndLoop, NothingOverdue
    <3>1. /\ queue \in Seq(ScheduledEvent)
          /\ DOMAIN queue = 1..Len(queue)
          /\ queue # <<>>
          /\ 1 \in DOMAIN queue
          /\ Head(queue) = queue[1]
      BY DEF TypeOK
    <3>2. queue[i] \in ScheduledEvent /\ queue[1] \in ScheduledEvent
      BY <3>1
    <3>3. /\ queue[i].time \in Nat
          /\ queue[1].time \in Nat
          /\ target \in Nat
      BY <3>2 DEF ScheduledEvent, TypeOK
    <3>4. queue[1].time > target
      BY <1>6, <3>1, <3>3 DEF EndLoop, Due
    <3>5. queue[i].time >= queue[1].time
      <4>1. CASE i = 1
        BY <4>1, <3>3
      <4>2. CASE i # 1
        <5>1. Precedes(queue[1], queue[i])
          BY <4>2, <3>1 DEF AgendaOrdered
        <5>2. QED
          BY <5>1, <3>3 DEF Precedes
      <4>3. QED
        BY <4>1, <4>2
    <3>6. QED
      BY <3>3, <3>4, <3>5
  <2>4. ClockNotAhead' /\ StepOnCourse' /\ StepClosed'
    BY <1>6 DEF EndLoop, ClockAdvanced, TypeOK, ClockNotAhead, StepOnCourse, StepClosed
  <2>5. QED
    BY <2>1, <2>2, <2>3, <2>4
<1>7. CASE Flush \/ StateInvalid
  <2>1. Logged \subseteq Nat
    <3>1. \A i \in DOMAIN log : log[i] \in ScheduledEvent
      BY DEF TypeOK
    <3>2. QED
      BY <3>1 DEF Logged, ScheduledEvent
  <2>2. failed' \in BOOLEAN
    BY <1>7, Zenon DEF Flush, StateInvalid, TypeOK
  <2>3. log' \in Seq(ScheduledEvent)
    BY <1>7, EmptyAgenda DEF Flush, StateInvalid, TypeOK
  <2>4. current' = <<>> /\ phase' = "idle" /\ target' = 0 /\ delta' = 0
    BY <1>7 DEF Flush, StateInvalid, LeaveAdvance
  <2>5. TypeOK'
    BY <1>7, <2>1, <2>2, <2>3, <2>4, EmptyAgenda DEF Flush, StateInvalid, TypeOK
  <2>6. SequencesIssued' /\ AgendaOrdered' /\ NothingOverdue'
    BY <1>7, AgendaFrame DEF Flush, StateInvalid
  <2>7. ClockNotAhead' /\ StepOnCourse' /\ StepClosed'
    BY <1>7 DEF Flush, StateInvalid, LeaveAdvance, ClockNotAhead,
                StepOnCourse, StepClosed
  <2>8. QED
    BY <2>5, <2>6, <2>7
<1>8. CASE Reset
  <2>1. failed' \in BOOLEAN
    BY <1>8, Zenon DEF Reset
  <2>2. TypeOK'
    BY <1>8, <2>1, EmptyAgenda DEF Reset, TypeOK
  <2>3. SequencesIssued' /\ AgendaOrdered' /\ NothingOverdue'
    BY <1>8, EmptyAgenda DEF Reset, SequencesIssued, AgendaOrdered, NothingOverdue
  <2>4. ClockNotAhead' /\ StepOnCourse' /\ StepClosed'
    BY <1>8 DEF Reset, ClockNotAhead, StepOnCourse, StepClosed
  <2>5. QED
    BY <2>2, <2>3, <2>4
<1>9. CASE UNCHANGED vars
  BY <1>9 DEF vars, TypeOK, SequencesIssued, AgendaOrdered, NothingOverdue,
              ClockNotAhead, StepOnCourse, StepClosed
<1>10. QED
  BY <1>1, <1>2, <1>3, <1>4, <1>5, <1>6, <1>7, <1>8, <1>9 DEF Next

-----------------------------------------------------------------------------

\* The inductive invariant holds in every reachable state.
THEOREM KernelInvariant == Spec => []KernelInv
<1>1. QED
  BY KernelInvInit, KernelInvStep, PTL DEF Spec

\* The kernel's state always has its types.
THEOREM KernelTypeCorrect == Spec => []TypeOK
<1>1. KernelInv => TypeOK
  BY DEF KernelInv
<1>2. QED
  BY <1>1, KernelInvariant, PTL

\* bisect.insort and pop(0) keep the agenda in (time, priority, sequence)
\* order for any handlers, and no failure leaves an event behind the time.
THEOREM AgendaOrderedAndTimely == Spec => [](AgendaOrdered /\ NothingOverdue)
<1>1. KernelInv => AgendaOrdered /\ NothingOverdue
  BY DEF KernelInv
<1>2. QED
  BY <1>1, KernelInvariant, PTL

\* The clock never passes kernel time, and agrees with it between the steps of
\* a run in which no step raised.
THEOREM ClockFollowsKernel == Spec => []ClockNotAhead
<1>1. KernelInv => ClockNotAhead
  BY DEF KernelInv
<1>2. QED
  BY <1>1, KernelInvariant, PTL

\* Neither kernel time nor the clock goes back within a run.
THEOREM TimeIsMonotone == Spec => TimeNeverRunsBack
<1>1. KernelInv /\ [Next]_vars => [run' = run => env' >= env /\ clock' >= clock]_vars
  <2> SUFFICES ASSUME KernelInv, Next, run' = run
               PROVE  env' >= env /\ clock' >= clock
    BY DEF vars
  <2>0. env \in Nat /\ clock \in Nat /\ target \in Nat /\ delta \in Nat /\ run \in Nat
    BY DEF KernelInv, TypeOK
  <2>1. CASE PopNext
    <3>1. queue \in Seq(ScheduledEvent) /\ queue # <<>>
      BY <2>1 DEF PopNext, Due, KernelInv, TypeOK
    <3>2. 1 \in DOMAIN queue /\ Head(queue) = queue[1]
      BY <3>1
    <3>3. QED
      BY <2>0, <2>1, <3>2 DEF PopNext, KernelInv, NothingOverdue
  <2>2. CASE EndLoop
    BY <2>0, <2>2 DEF EndLoop, ClockAdvanced, KernelInv, StepOnCourse
  <2>3. CASE Reset
    BY <2>0, <2>3 DEF Reset
  <2>4. CASE env' = env /\ clock' = clock
    BY <2>0, <2>4
  <2>5. QED
    BY <2>1, <2>2, <2>3, <2>4
    DEF Next, Schedule, BeginAdvance, HandlerSchedules, HandlerRaises,
        HandlerReturns, EventInvalid, Flush, StateInvalid
<1>2. QED
  BY <1>1, KernelInvariant, PTL DEF Spec, TimeNeverRunsBack

-----------------------------------------------------------------------------
(***************************************************************************)
(* Exactly once                                                            *)
(***************************************************************************)

\* The numbers of the events that have left the agenda.
Taken == InHand \union Logged \union published \union lost

\* An event is in one place at a time.
OnePlaceEach ==
    /\ Queued \intersect Taken = {}
    /\ InHand \intersect (Logged \union published \union lost) = {}
    /\ Logged \intersect (published \union lost) = {}
    /\ published \intersect lost = {}

\* The agenda holds events of this run, each once; the log may hold some of
\* earlier runs and none of later ones.
EventsOfThisRun ==
    /\ \A i \in DOMAIN queue : queue[i].run = run
    /\ \A i, j \in DOMAIN queue : queue[i].sequence = queue[j].sequence => i = j
    /\ \A i \in DOMAIN log : log[i].run <= run
    /\ phase = "handler" => current[1].run = run

\* The inductive invariant.
OnceInv ==
    /\ EventsOfThisRun
    /\ 0..(counter - 1) = Queued \union Taken
    /\ OnePlaceEach

\* Where schedule() puts the new event, and that it moves no other.
LEMMA EnqueueShape ==
    ASSUME TypeOK, NEW type \in EventTypes, NEW at \in Nat, Enqueue(type, at)
    PROVE  \E e \in ScheduledEvent, p \in 0..Len(queue) :
              /\ e.sequence = counter /\ e.time = at /\ e.run = run
              /\ DOMAIN queue = 1..Len(queue) /\ DOMAIN queue' = 1..(Len(queue) + 1)
              /\ \A i \in 1..(Len(queue) + 1) :
                    queue'[i] = IF i <= p THEN queue[i]
                                ELSE IF i = p + 1 THEN e ELSE queue[i - 1]
<1> DEFINE e == [time |-> at, priority |-> Priority[type], sequence |-> counter,
                 type |-> type, run |-> run]
<1>1. e \in ScheduledEvent /\ e.sequence = counter /\ e.time = at /\ e.run = run
  BY KernelAssumption DEF TypeOK, ScheduledEvent
<1>2. PICK p \in 0..Len(queue) : queue' = InsertAfter(queue, p, e)
  BY DEF Enqueue
<1> HIDE DEF e
<1>3. Len(queue) \in Nat /\ DOMAIN queue = 1..Len(queue)
  BY DEF TypeOK
<1>4. QED
  BY <1>1, <1>2, <1>3 DEF InsertAfter

\* schedule() puts one event of this run on the agenda, with the next number.
LEMMA EnqueueAdds ==
    ASSUME TypeOK, EventsOfThisRun, SequencesIssued,
           NEW type \in EventTypes, NEW at \in Nat, Enqueue(type, at), run' = run
    PROVE  /\ \E e \in ScheduledEvent :
                 /\ e.sequence = counter /\ e.time = at
                 /\ {queue'[i] : i \in DOMAIN queue'}
                        = {queue[i] : i \in DOMAIN queue} \union {e}
           /\ Queued' = Queued \union {counter}
           /\ \A i \in DOMAIN queue' : queue'[i].run = run'
           /\ \A i, j \in DOMAIN queue' :
                 queue'[i].sequence = queue'[j].sequence => i = j
<1>1. PICK e \in ScheduledEvent, p \in 0..Len(queue) :
              /\ e.sequence = counter /\ e.time = at /\ e.run = run
              /\ DOMAIN queue = 1..Len(queue) /\ DOMAIN queue' = 1..(Len(queue) + 1)
              /\ \A i \in 1..(Len(queue) + 1) :
                    queue'[i] = IF i <= p THEN queue[i]
                                ELSE IF i = p + 1 THEN e ELSE queue[i - 1]
  BY EnqueueShape
<1>2. Len(queue) \in Nat /\ p \in Nat /\ p <= Len(queue)
  BY <1>1 DEF TypeOK
<1>3. ASSUME NEW i \in DOMAIN queue'
      PROVE  \/ i <= p /\ i \in DOMAIN queue /\ queue'[i] = queue[i]
             \/ i = p + 1 /\ queue'[i] = e
             \/ i > p + 1 /\ i - 1 \in DOMAIN queue /\ queue'[i] = queue[i - 1]
  BY <1>1, <1>2, <1>3
<1>4. ASSUME NEW k \in DOMAIN queue
      PROVE  \E i \in DOMAIN queue' : queue'[i] = queue[k]
  <2>1. CASE k <= p
    BY <1>1, <1>2, <2>1
  <2>2. CASE k > p
    <3>1. k + 1 \in DOMAIN queue' /\ k + 1 > p + 1 /\ (k + 1) - 1 = k
      BY <1>1, <1>2, <2>2
    <3>2. queue'[k + 1] = queue[k]
      BY <1>1, <1>2, <3>1
    <3>3. QED
      BY <3>1, <3>2
  <2>3. QED
    BY <1>1, <1>2, <2>1, <2>2
<1>5. p + 1 \in DOMAIN queue' /\ queue'[p + 1] = e
  BY <1>1, <1>2
<1>6. {queue'[i] : i \in DOMAIN queue'} = {queue[i] : i \in DOMAIN queue} \union {e}
  BY <1>3, <1>4, <1>5
<1>7. Queued' = Queued \union {counter}
  <2>1. Queued' = {x.sequence : x \in {queue'[i] : i \in DOMAIN queue'}}
    BY DEF Queued
  <2>2. Queued = {x.sequence : x \in {queue[i] : i \in DOMAIN queue}}
    BY DEF Queued
  <2>3. QED
    BY <1>1, <1>6, <2>1, <2>2
<1>8. \A i \in DOMAIN queue' : queue'[i].run = run'
  BY <1>1, <1>3 DEF EventsOfThisRun
<1>9. ASSUME NEW i \in DOMAIN queue', NEW j \in DOMAIN queue',
             queue'[i].sequence = queue'[j].sequence
      PROVE  i = j
  <2>1. \A k \in DOMAIN queue : queue[k].sequence # counter
    <3>1. \A k \in DOMAIN queue : queue[k] \in ScheduledEvent
      BY DEF TypeOK
    <3>2. \A k \in DOMAIN queue : queue[k].sequence \in Nat
      BY <3>1 DEF ScheduledEvent
    <3>3. QED
      BY <3>2 DEF SequencesIssued, TypeOK
  <2>2. i \in Int /\ j \in Int
    BY <1>1, <1>2
  <2>3. CASE i = p + 1 \/ j = p + 1
    BY <1>1, <1>3, <1>9, <2>1, <2>3
  <2>4. CASE i # p + 1 /\ j # p + 1
    <3> DEFINE Old(k) == IF k <= p THEN k ELSE k - 1
    <3>1. /\ Old(i) \in DOMAIN queue /\ queue'[i] = queue[Old(i)]
          /\ Old(j) \in DOMAIN queue /\ queue'[j] = queue[Old(j)]
      BY <1>2, <1>3, <2>2, <2>4
    <3>2. Old(i) = Old(j)
      <4> HIDE DEF Old
      <4>1. QED
        BY <1>9, <3>1 DEF EventsOfThisRun
    <3>3. QED
      BY <1>2, <2>2, <2>4, <3>2
  <2>5. QED
    BY <2>3, <2>4
<1>10. QED
  BY <1>1, <1>6, <1>7, <1>8, <1>9

\* pop(0) takes the first event off the agenda and no other.
LEMMA PopRemoves ==
    ASSUME TypeOK, EventsOfThisRun, queue # <<>>, queue' = Tail(queue), run' = run
    PROVE  /\ 1 \in DOMAIN queue /\ Head(queue) = queue[1]
           /\ queue[1] \in ScheduledEvent
           /\ {queue'[i] : i \in DOMAIN queue'}
                  = {queue[i] : i \in DOMAIN queue} \ {queue[1]}
           /\ Queued' = Queued \ {queue[1].sequence}
           /\ queue[1].sequence \in Queued
           /\ \A i \in DOMAIN queue' : queue'[i].run = run'
           /\ \A i, j \in DOMAIN queue' :
                 queue'[i].sequence = queue'[j].sequence => i = j
<1>1. /\ queue \in Seq(ScheduledEvent) /\ Len(queue) \in Nat \ {0}
      /\ DOMAIN queue = 1..Len(queue)
      /\ 1 \in DOMAIN queue /\ Head(queue) = queue[1]
      /\ queue[1] \in ScheduledEvent
  BY DEF TypeOK
<1>2. /\ DOMAIN queue' = 1..(Len(queue) - 1)
      /\ \A i \in 1..(Len(queue) - 1) : queue'[i] = queue[i + 1]
  BY <1>1
<1>3. \A i \in DOMAIN queue' : i + 1 \in DOMAIN queue /\ i + 1 # 1
                               /\ queue'[i] = queue[i + 1]
  BY <1>1, <1>2
<1>4. \A k \in DOMAIN queue : k # 1 => k - 1 \in DOMAIN queue' /\ queue'[k - 1] = queue[k]
  <2> SUFFICES ASSUME NEW k \in DOMAIN queue, k # 1
               PROVE  k - 1 \in DOMAIN queue' /\ queue'[k - 1] = queue[k]
    OBVIOUS
  <2>1. k - 1 \in 1..(Len(queue) - 1) /\ (k - 1) + 1 = k
    BY <1>1
  <2>2. QED
    BY <1>2, <2>1
<1>5. \A k \in DOMAIN queue : queue[k].sequence = queue[1].sequence => k = 1
  BY <1>1 DEF EventsOfThisRun
<1>6. {queue'[i] : i \in DOMAIN queue'} = {queue[i] : i \in DOMAIN queue} \ {queue[1]}
  BY <1>1, <1>3, <1>4, <1>5
<1>7. Queued' = Queued \ {queue[1].sequence} /\ queue[1].sequence \in Queued
  <2>1. ASSUME NEW n \in Queued, n # queue[1].sequence
        PROVE  n \in Queued'
    <3>1. PICK k \in DOMAIN queue : n = queue[k].sequence
      BY DEF Queued
    <3>2. k - 1 \in DOMAIN queue' /\ queue'[k - 1] = queue[k]
      BY <1>4, <2>1, <3>1
    <3>3. QED
      BY <3>1, <3>2 DEF Queued
  <2>2. ASSUME NEW n \in Queued'
        PROVE  n \in Queued /\ n # queue[1].sequence
    <3>1. PICK i \in DOMAIN queue' : n = queue'[i].sequence
      BY DEF Queued
    <3>2. QED
      BY <1>1, <1>3, <1>5, <3>1 DEF Queued
  <2>3. queue[1].sequence \in Queued
    BY <1>1 DEF Queued
  <2>4. QED
    BY <2>1, <2>2, <2>3
<1>8. \A i \in DOMAIN queue' : queue'[i].run = run'
  BY <1>3 DEF EventsOfThisRun
<1>9. ASSUME NEW i \in DOMAIN queue', NEW j \in DOMAIN queue',
             queue'[i].sequence = queue'[j].sequence
      PROVE  i = j
  <2>1. i + 1 = j + 1 /\ i \in Int /\ j \in Int
    BY <1>1, <1>2, <1>3, <1>9 DEF EventsOfThisRun
  <2>2. QED
    BY <2>1
<1>10. QED
  BY <1>1, <1>6, <1>7, <1>8, <1>9

\* The bus appends an event to the log.
LEMMA AppendLogs ==
    ASSUME TypeOK, NEW e \in ScheduledEvent, log' = Append(log, e), run' = run,
           e.run = run, \A i \in DOMAIN log : log[i].run <= run
    PROVE  /\ Logged' = Logged \union {e.sequence}
           /\ \A i \in DOMAIN log' : log'[i].run <= run'
<1>1. /\ log \in Seq(ScheduledEvent) /\ Len(log) \in Nat /\ run \in Nat
      /\ DOMAIN log = 1..Len(log)
  BY DEF TypeOK
<1>2. /\ DOMAIN log' = 1..(Len(log) + 1)
      /\ \A i \in 1..Len(log) : log'[i] = log[i]
      /\ log'[Len(log) + 1] = e
  BY <1>1
<1>3. \A i \in DOMAIN log' : i \in DOMAIN log \/ i = Len(log) + 1
  BY <1>1, <1>2
<1>4. Len(log) + 1 \in DOMAIN log' /\ DOMAIN log \subseteq DOMAIN log'
  BY <1>1, <1>2
<1>5. QED
  BY <1>1, <1>2, <1>3, <1>4 DEF Logged

\* The sets of places do not depend on anything else.
LEMMA PlacesFrame ==
    /\ UNCHANGED queue => Queued' = Queued
    /\ UNCHANGED <<phase, current>> => InHand' = InHand
    /\ phase # "handler" /\ phase' # "handler" => InHand' = InHand
    /\ phase = "handler" => InHand = {current[1].sequence}
    /\ phase # "handler" => InHand = {}
    /\ phase' # "handler" => InHand' = {}
    /\ UNCHANGED <<log, run>> => Logged' = Logged
BY DEF Queued, InHand, Logged

\* An event is scheduled, from outside or by a handler.
LEMMA SchedulingStep ==
    ASSUME KernelInv, OnceInv,
           \E type \in EventTypes, d \in Delays :
              Schedule(type, d) \/ HandlerSchedules(type, d)
    PROVE  /\ \E e \in ScheduledEvent :
                 /\ e.sequence = counter /\ e.time >= env
                 /\ {queue'[i] : i \in DOMAIN queue'}
                        = {queue[i] : i \in DOMAIN queue} \union {e}
           /\ counter' = counter + 1 /\ UNCHANGED <<env, lost, published>>
           /\ InHand' = InHand /\ Logged' = Logged
           /\ OnceInv'
<1>1. PICK type \in EventTypes, d \in Delays :
          Schedule(type, d) \/ HandlerSchedules(type, d)
  OBVIOUS
<1>2. d \in Nat /\ env \in Nat /\ env + d \in Nat /\ env + d >= env
  BY KernelAssumption DEF KernelInv, TypeOK
<1>3. /\ Enqueue(type, env + d) /\ counter' = counter + 1
      /\ UNCHANGED <<env, phase, current, log, run, lost, published>>
  BY <1>1 DEF Schedule, HandlerSchedules, Enqueue
<1>4. TypeOK /\ EventsOfThisRun /\ SequencesIssued /\ counter \in Nat /\ run' = run
  BY <1>3 DEF KernelInv, OnceInv, TypeOK
<1>5. /\ \E e \in ScheduledEvent :
            /\ e.sequence = counter /\ e.time = env + d
            /\ {queue'[i] : i \in DOMAIN queue'}
                   = {queue[i] : i \in DOMAIN queue} \union {e}
      /\ Queued' = Queued \union {counter}
      /\ \A i \in DOMAIN queue' : queue'[i].run = run'
      /\ \A i, j \in DOMAIN queue' :
            queue'[i].sequence = queue'[j].sequence => i = j
  BY <1>2, <1>3, <1>4, EnqueueAdds
<1>6. InHand' = InHand /\ Logged' = Logged /\ Taken' = Taken
  BY <1>3, PlacesFrame DEF Taken
<1>7. EventsOfThisRun'
  BY <1>3, <1>5 DEF EventsOfThisRun, OnceInv
<1>8. 0..(counter' - 1) = Queued' \union Taken'
  <2>1. 0..(counter' - 1) = (0..(counter - 1)) \union {counter}
    BY <1>3, <1>4
  <2>2. QED
    BY <2>1, <1>5, <1>6 DEF OnceInv
<1>9. OnePlaceEach'
  <2>1. counter \notin Taken
    BY <1>4 DEF OnceInv
  <2>2. QED
    BY <2>1, <1>3, <1>5, <1>6 DEF OnceInv, OnePlaceEach
<1>10. QED
  BY <1>2, <1>3, <1>5, <1>6, <1>7, <1>8, <1>9 DEF OnceInv

\* The first event of the agenda is popped and in its handler's hand.
LEMMA PoppingStep ==
    ASSUME KernelInv, OnceInv, PopNext
    PROVE  /\ 1 \in DOMAIN queue /\ queue[1] \in ScheduledEvent
           /\ {queue'[i] : i \in DOMAIN queue'}
                  = {queue[i] : i \in DOMAIN queue} \ {queue[1]}
           /\ env' = queue[1].time /\ queue[1].sequence \notin Taken
           /\ Taken' = Taken \union {queue[1].sequence}
           /\ OnceInv'
<1>1. /\ queue # <<>> /\ queue' = Tail(queue) /\ current' = <<Head(queue)>>
      /\ env' = Head(queue).time /\ phase = "loop" /\ phase' = "handler"
      /\ UNCHANGED <<counter, log, run, lost, published>>
  BY DEF PopNext, Due
<1>2. TypeOK /\ EventsOfThisRun
  BY DEF KernelInv, OnceInv
<1>3. /\ 1 \in DOMAIN queue /\ Head(queue) = queue[1]
      /\ queue[1] \in ScheduledEvent
      /\ {queue'[i] : i \in DOMAIN queue'}
             = {queue[i] : i \in DOMAIN queue} \ {queue[1]}
      /\ Queued' = Queued \ {queue[1].sequence}
      /\ queue[1].sequence \in Queued
      /\ \A i \in DOMAIN queue' : queue'[i].run = run'
      /\ \A i, j \in DOMAIN queue' :
            queue'[i].sequence = queue'[j].sequence => i = j
  BY <1>1, <1>2, PopRemoves
<1>4. current'[1] = queue[1]
  BY <1>1, <1>3
<1>5. InHand = {} /\ InHand' = {queue[1].sequence} /\ Logged' = Logged
  BY <1>1, <1>4, PlacesFrame DEF InHand
<1>6. Taken' = Taken \union {queue[1].sequence} /\ queue[1].sequence \notin Taken
  BY <1>1, <1>3, <1>5 DEF Taken, OnceInv, OnePlaceEach
<1>7. EventsOfThisRun'
  BY <1>1, <1>2, <1>3, <1>4 DEF EventsOfThisRun
<1>8. 0..(counter' - 1) = Queued' \union Taken'
  BY <1>1, <1>3, <1>6 DEF OnceInv
<1>9. OnePlaceEach'
  BY <1>1, <1>3, <1>5, <1>6 DEF OnceInv, OnePlaceEach, Taken
<1>10. QED
  BY <1>1, <1>3, <1>6, <1>7, <1>8, <1>9 DEF OnceInv

\* A handler ends, by raising or by returning: its event is lost or logged.
LEMMA HandledStep ==
    ASSUME KernelInv, OnceInv, HandlerRaises \/ HandlerReturns \/ EventInvalid
    PROVE  /\ UNCHANGED <<queue, counter, env>>
           /\ Taken' = Taken
           /\ OnceInv'
<1>1. /\ phase = "handler" /\ phase' # "handler"
      /\ UNCHANGED <<queue, counter, env, run, published>>
  BY DEF HandlerRaises, HandlerReturns, EventInvalid, LeaveAdvance
<1>2. TypeOK /\ EventsOfThisRun
  BY DEF KernelInv, OnceInv
<1>3. current[1] \in ScheduledEvent /\ current[1].run = run
  <2>1. current \in Seq(ScheduledEvent) /\ Len(current) = 1
    BY <1>1, <1>2 DEF TypeOK
  <2>2. current[1] \in ScheduledEvent
    BY <2>1
  <2>3. QED
    BY <2>2, <1>1, <1>2 DEF EventsOfThisRun
<1>4. InHand = {current[1].sequence} /\ InHand' = {} /\ Queued' = Queued
  BY <1>1, PlacesFrame
<1>5. /\ \/ lost' = lost \union InHand /\ Logged' = Logged
         \/ lost' = lost /\ Logged' = Logged \union InHand
      /\ \A i \in DOMAIN log' : log'[i].run <= run'
  <2>1. CASE HandlerRaises
    BY <2>1, <1>1, <1>2, <1>4, PlacesFrame DEF HandlerRaises, EventsOfThisRun
  <2>2. CASE HandlerReturns \/ EventInvalid
    <3>1. log' = Append(log, current[1]) /\ lost' = lost
      BY <2>2 DEF HandlerReturns, EventInvalid
    <3>2. QED
      BY <3>1, <1>1, <1>2, <1>3, <1>4, AppendLogs DEF EventsOfThisRun
  <2>3. QED
    BY <2>1, <2>2
<1>6. Taken' = Taken
  BY <1>1, <1>4, <1>5 DEF Taken
<1>7. EventsOfThisRun'
  BY <1>1, <1>2, <1>5 DEF EventsOfThisRun
<1>8. OnePlaceEach'
  BY <1>1, <1>4, <1>5, <1>6 DEF OnceInv, OnePlaceEach
<1>9. QED
  BY <1>1, <1>4, <1>6, <1>7, <1>8 DEF OnceInv

\* A step begins or ends, or stops in between: no event moves, or all that are
\* logged are published.
LEMMA BoundaryStep ==
    ASSUME KernelInv, OnceInv,
           \/ \E d \in 1..MaxDelta : BeginAdvance(d)
           \/ EndLoop \/ Flush \/ StateInvalid \/ UNCHANGED vars
    PROVE  /\ UNCHANGED <<queue, counter>>
           /\ Taken' = Taken
           /\ OnceInv'
<1>1. /\ UNCHANGED <<queue, counter, run, lost>>
      /\ phase = "handler" => phase' = phase /\ UNCHANGED <<current, log, published>>
      /\ phase # "handler" => phase' # "handler"
      /\ \/ UNCHANGED <<log, published>>
         \/ log' = <<>> /\ published' = published \union Logged
  BY DEF BeginAdvance, EndLoop, Flush, StateInvalid, LeaveAdvance, vars
<1>2. UNCHANGED current \/ phase' # "handler"
  BY <1>1
<1>3. Queued' = Queued /\ InHand' = InHand
  BY <1>1, PlacesFrame
<1>4. \/ UNCHANGED <<log, published>> /\ Logged' = Logged
      \/ log' = <<>> /\ published' = published \union Logged /\ Logged' = {}
  <2>1. CASE UNCHANGED <<log, published>>
    BY <2>1, <1>1, PlacesFrame
  <2>2. CASE log' = <<>> /\ published' = published \union Logged
    <3>1. DOMAIN log' = {}
      BY <2>2, EmptyAgenda
    <3>2. Logged' = {}
      BY <3>1 DEF Logged
    <3>3. QED
      BY <2>2, <3>2
  <2>3. QED
    BY <1>1, <2>1, <2>2
<1>5. Taken' = Taken
  BY <1>1, <1>3, <1>4 DEF Taken
<1>6. EventsOfThisRun'
  BY <1>1, <1>2, <1>4, EmptyAgenda DEF EventsOfThisRun, OnceInv
<1>7. OnePlaceEach'
  BY <1>1, <1>3, <1>4, <1>5 DEF OnceInv, OnePlaceEach
<1>8. QED
  BY <1>1, <1>3, <1>5, <1>6, <1>7 DEF OnceInv

\* A run ends with reset(): what its log still holds is no event of the next.
LEMMA ResetStep ==
    ASSUME KernelInv, OnceInv, Reset
    PROVE  /\ queue' = <<>> /\ counter' = 0 /\ env' = 0
           /\ Taken' = {}
           /\ OnceInv'
<1>1. /\ queue' = <<>> /\ counter' = 0 /\ env' = 0 /\ lost' = {} /\ published' = {}
      /\ phase' # "handler" /\ log' = log /\ run' = run + 1 /\ run \in Nat
  BY DEF Reset, KernelInv, TypeOK
<1>2. \A i \in DOMAIN log : log[i].run < run' /\ log[i].run <= run'
  <2>1. \A i \in DOMAIN log : log[i] \in ScheduledEvent
    BY DEF KernelInv, TypeOK
  <2>2. \A i \in DOMAIN log : log[i].run \in Nat
    BY <2>1 DEF ScheduledEvent
  <2>3. QED
    BY <2>2, <1>1 DEF OnceInv, EventsOfThisRun
<1>3. DOMAIN queue' = {}
  BY <1>1, EmptyAgenda
<1>4. Queued' = {} /\ InHand' = {} /\ Logged' = {}
  <2>1. {j \in DOMAIN log : log[j].run = run'} = {}
    <3>1. \A j \in DOMAIN log : log[j] \in ScheduledEvent
      BY DEF KernelInv, TypeOK
    <3>2. \A j \in DOMAIN log : log[j].run \in Nat
      BY <3>1 DEF ScheduledEvent
    <3>3. QED
      BY <3>2, <1>1, <1>2
  <2>2. QED
    BY <2>1, <1>1, <1>3, PlacesFrame DEF Queued, Logged
<1>5. Taken' = {} /\ 0..(counter' - 1) = {}
  BY <1>1, <1>4 DEF Taken
<1>6. EventsOfThisRun'
  BY <1>1, <1>2, <1>3 DEF EventsOfThisRun
<1>7. QED
  BY <1>1, <1>4, <1>5, <1>6 DEF OnceInv, OnePlaceEach

\* Every step of the kernel keeps every event in one place.
LEMMA OnceInvStep == KernelInv /\ OnceInv /\ [Next]_vars => OnceInv'
<1> SUFFICES ASSUME KernelInv, OnceInv, [Next]_vars
             PROVE  OnceInv'
  OBVIOUS
<1>1. CASE \E type \in EventTypes, d \in Delays :
              Schedule(type, d) \/ HandlerSchedules(type, d)
  BY <1>1, SchedulingStep
<1>2. CASE PopNext
  BY <1>2, PoppingStep
<1>3. CASE HandlerRaises \/ HandlerReturns \/ EventInvalid
  BY <1>3, HandledStep
<1>4. CASE \/ \E d \in 1..MaxDelta : BeginAdvance(d)
           \/ EndLoop \/ Flush \/ StateInvalid \/ UNCHANGED vars
  BY <1>4, BoundaryStep
<1>5. CASE Reset
  BY <1>5, ResetStep
<1>6. QED
  BY <1>1, <1>2, <1>3, <1>4, <1>5 DEF Next

\* No event has been scheduled yet.
LEMMA OnceInvInit == Init => OnceInv
<1> SUFFICES ASSUME Init
             PROVE  OnceInv
  OBVIOUS
<1>1. DOMAIN queue = {} /\ DOMAIN log = {} /\ phase # "handler" /\ counter = 0
  BY EmptyAgenda DEF Init
<1>2. Queued = {} /\ InHand = {} /\ Logged = {} /\ published = {} /\ lost = {}
  BY <1>1 DEF Queued, InHand, Logged, Init
<1>3. 0..(counter - 1) = {}
  BY <1>1
<1>4. QED
  BY <1>1, <1>2, <1>3 DEF OnceInv, EventsOfThisRun, OnePlaceEach, Taken

\* Every event of the run is in one place, in every reachable state.
LEMMA OnceInvariant == Spec => []OnceInv
<1>1. QED
  BY OnceInvInit, OnceInvStep, KernelInvariant, PTL DEF Spec

\* A list without repetitions has as many numbers as places.
LEMMA QueuedCount ==
    ASSUME TypeOK, EventsOfThisRun
    PROVE  IsFiniteSet(Queued) /\ Cardinality(Queued) = Len(queue)
<1>1. Len(queue) \in Nat /\ DOMAIN queue = 1..Len(queue)
  BY DEF TypeOK
<1>2. IsFiniteSet(1..Len(queue)) /\ Cardinality(1..Len(queue)) = Len(queue)
  <2>1. /\ IsFiniteSet(1..Len(queue))
        /\ Cardinality(1..Len(queue)) = IF 1 > Len(queue) THEN 0 ELSE Len(queue) - 1 + 1
    BY <1>1, FS_Interval
  <2>2. QED
    BY <1>1, <2>1
<1>3. ExistsBijection(1..Len(queue), Queued)
  <2> DEFINE numbers == [i \in 1..Len(queue) |-> queue[i].sequence]
  <2>1. numbers \in [1..Len(queue) -> Queued]
    BY <1>1 DEF Queued
  <2>2. \A i, j \in 1..Len(queue) : numbers[i] = numbers[j] => i = j
    BY <1>1 DEF EventsOfThisRun
  <2>3. \A n \in Queued : \E i \in 1..Len(queue) : numbers[i] = n
    BY <1>1 DEF Queued
  <2>4. numbers \in Bijection(1..Len(queue), Queued)
    BY <2>1, <2>2, <2>3 DEF Bijection, Injection, Surjection, IsInjective
  <2>5. QED
    BY <2>4 DEF ExistsBijection
<1>4. QED
  BY <1>2, <1>3, FS_Bijection

\* The size of two sets of numbers that have none in common.
LEMMA DisjointSizes ==
    ASSUME NEW S, NEW T, IsFiniteSet(S), IsFiniteSet(T), S \intersect T = {}
    PROVE  /\ IsFiniteSet(S \union T)
           /\ Cardinality(S \union T) = Cardinality(S) + Cardinality(T)
           /\ Cardinality(S) \in Nat /\ Cardinality(T) \in Nat
<1>1. Cardinality(S) \in Nat /\ Cardinality(T) \in Nat
  BY FS_CardinalityType
<1>2. QED
  BY <1>1, FS_Union, FS_EmptySet

\* One place for each event means that the places add up.
LEMMA OnceInvCounts == KernelInv /\ OnceInv => ExactlyOnce
<1> SUFFICES ASSUME KernelInv, OnceInv
             PROVE  ExactlyOnce
  OBVIOUS
<1>1. counter \in Nat /\ TypeOK /\ EventsOfThisRun
  BY DEF KernelInv, OnceInv, TypeOK
<1>2. IsFiniteSet(0..(counter - 1)) /\ Cardinality(0..(counter - 1)) = counter
  BY <1>1, FS_Interval
<1>3. /\ IsFiniteSet(Queued) /\ IsFiniteSet(InHand) /\ IsFiniteSet(Logged)
      /\ IsFiniteSet(published) /\ IsFiniteSet(lost)
  <2>1. /\ Queued \subseteq 0..(counter - 1) /\ InHand \subseteq 0..(counter - 1)
        /\ Logged \subseteq 0..(counter - 1) /\ published \subseteq 0..(counter - 1)
        /\ lost \subseteq 0..(counter - 1)
    BY DEF OnceInv, Taken
  <2>2. QED
    BY <2>1, <1>2, FS_Subset
<1>4. /\ IsFiniteSet(published \union lost)
      /\ Cardinality(published \union lost) = Cardinality(published) + Cardinality(lost)
      /\ Cardinality(published) \in Nat /\ Cardinality(lost) \in Nat
  BY <1>3, DisjointSizes DEF OnceInv, OnePlaceEach
<1>5. /\ IsFiniteSet(Logged \union (published \union lost))
      /\ Cardinality(Logged \union (published \union lost))
            = Cardinality(Logged) + Cardinality(published \union lost)
      /\ Cardinality(Logged) \in Nat
  BY <1>3, <1>4, DisjointSizes DEF OnceInv, OnePlaceEach
<1>6. /\ IsFiniteSet(InHand \union (Logged \union (published \union lost)))
      /\ Cardinality(InHand \union (Logged \union (published \union lost)))
            = Cardinality(InHand) + Cardinality(Logged \union (published \union lost))
      /\ Cardinality(InHand) \in Nat
  <2>1. InHand \intersect (Logged \union (published \union lost)) = {}
    BY DEF OnceInv, OnePlaceEach
  <2>2. QED
    BY <2>1, <1>3, <1>5, DisjointSizes
<1>7. InHand \union (Logged \union (published \union lost)) = Taken
  BY DEF Taken
<1>8. /\ Cardinality(Queued \union Taken) = Cardinality(Queued) + Cardinality(Taken)
      /\ Cardinality(Queued) = Len(queue)
  BY <1>1, <1>3, <1>6, <1>7, QueuedCount, DisjointSizes DEF OnceInv, OnePlaceEach
<1>9. counter = Len(queue) + (Cardinality(InHand) + (Cardinality(Logged)
                    + (Cardinality(published) + Cardinality(lost))))
  BY <1>2, <1>4, <1>5, <1>6, <1>7, <1>8 DEF OnceInv
<1>10. Len(queue) \in Nat
  BY <1>1 DEF TypeOK
<1>11. 0..(counter - 1) = Queued \union InHand \union Logged \union published \union lost
  BY DEF OnceInv, Taken
<1>12. QED
  BY <1>4, <1>5, <1>6, <1>9, <1>10, <1>11 DEF ExactlyOnce

\* Whatever handlers schedule and wherever advance() raises, no event of the
\* run is dropped or repeated.
THEOREM EveryEventOnce == Spec => []ExactlyOnce
<1>1. QED
  BY KernelInvariant, OnceInvariant, OnceInvCounts, PTL

-----------------------------------------------------------------------------
(***************************************************************************)
(* The kernel implements the agenda                                        *)
(***************************************************************************)

\* The kernel starts as the agenda does: empty, at time zero.
LEMMA AgendaInit == Init => AgendaView!AInit
<1> SUFFICES ASSUME Init
             PROVE  AgendaView!AInit
  OBVIOUS
<1>1. DOMAIN queue = {} /\ DOMAIN log = {} /\ phase # "handler"
  BY EmptyAgenda DEF Init
<1>2. InHand = {} /\ Logged = {} /\ published = {} /\ lost = {}
      /\ counter = 0 /\ env = 0
  BY <1>1 DEF InHand, Logged, Init
<1>3. QED
  BY <1>1, <1>2 DEF AgendaView!AInit

\* Every step of the kernel is one of the agenda or none: schedule() puts an
\* event, a pop takes the earliest, the end of a loop lets time pass, reset()
\* restarts, and nothing else moves an event or the time.
LEMMA AgendaStep ==
    KernelInv /\ OnceInv /\ KernelInv' /\ [Next]_vars
        => [AgendaView!ANext]_(AgendaView!avars)
<1> SUFFICES ASSUME KernelInv, OnceInv, KernelInv', [Next]_vars
             PROVE  AgendaView!ANext \/ UNCHANGED AgendaView!avars
  OBVIOUS
<1>1. CASE \E type \in EventTypes, d \in Delays :
              Schedule(type, d) \/ HandlerSchedules(type, d)
  <2>1. /\ \E e \in ScheduledEvent :
              /\ e.sequence = counter /\ e.time >= env
              /\ {queue'[i] : i \in DOMAIN queue'}
                     = {queue[i] : i \in DOMAIN queue} \union {e}
        /\ counter' = counter + 1 /\ UNCHANGED <<env, lost, published>>
        /\ InHand' = InHand /\ Logged' = Logged
    BY <1>1, SchedulingStep
  <2>2. AgendaView!Put
    BY <2>1 DEF AgendaView!Put
  <2>3. QED
    BY <2>2 DEF AgendaView!ANext
<1>2. CASE PopNext
  <2>1. /\ 1 \in DOMAIN queue /\ queue[1] \in ScheduledEvent
        /\ {queue'[i] : i \in DOMAIN queue'}
               = {queue[i] : i \in DOMAIN queue} \ {queue[1]}
        /\ env' = queue[1].time /\ queue[1].sequence \notin Taken
        /\ Taken' = Taken \union {queue[1].sequence}
    BY <1>2, PoppingStep
  <2>2. counter' = counter /\ queue[1].time >= env
    BY <1>2, <2>1 DEF PopNext, KernelInv, NothingOverdue
  <2>3. \A f \in {queue[i] : i \in DOMAIN queue} \ {queue[1]} :
            AgendaView!Precedes(queue[1], f)
    <3> SUFFICES ASSUME NEW i \in DOMAIN queue, queue[i] # queue[1]
                 PROVE  Precedes(queue[1], queue[i])
      BY DEF AgendaView!Precedes, Precedes
    <3>1. DOMAIN queue = 1..Len(queue) /\ Len(queue) \in Nat
      BY DEF KernelInv, TypeOK
    <3>2. 1 < i
      BY <3>1
    <3>3. QED
      BY <2>1, <3>2 DEF KernelInv, AgendaOrdered
  <2>4. AgendaView!Take
    BY <2>1, <2>2, <2>3 DEF AgendaView!Take, Taken
  <2>5. QED
    BY <2>4 DEF AgendaView!ANext
<1>3. CASE HandlerRaises \/ HandlerReturns \/ EventInvalid
  <2>1. UNCHANGED <<queue, counter, env>> /\ Taken' = Taken
    BY <1>3, HandledStep
  <2>2. QED
    BY <2>1 DEF AgendaView!avars, Taken
<1>4. CASE \/ \E d \in 1..MaxDelta : BeginAdvance(d)
           \/ Flush \/ StateInvalid \/ UNCHANGED vars
  <2>1. UNCHANGED <<queue, counter>> /\ Taken' = Taken
    BY <1>4, BoundaryStep
  <2>2. env' = env
    BY <1>4 DEF BeginAdvance, Flush, StateInvalid, vars
  <2>3. QED
    BY <2>1, <2>2 DEF AgendaView!avars, Taken
<1>5. CASE EndLoop
  <2>1. UNCHANGED <<queue, counter>> /\ Taken' = Taken
    BY <1>5, BoundaryStep
  <2>2. env' >= env /\ \A i \in DOMAIN queue : queue[i].time >= env'
    BY <1>5, <2>1 DEF EndLoop, KernelInv, StepOnCourse, NothingOverdue
  <2>3. AgendaView!Pass
    BY <2>1, <2>2 DEF AgendaView!Pass, Taken
  <2>4. QED
    BY <2>3 DEF AgendaView!ANext
<1>6. CASE Reset
  <2>1. queue' = <<>> /\ counter' = 0 /\ env' = 0 /\ Taken' = {}
    BY <1>6, ResetStep
  <2>2. DOMAIN queue' = {}
    BY <2>1, EmptyAgenda
  <2>3. AgendaView!Restart
    BY <2>1, <2>2 DEF AgendaView!Restart, Taken
  <2>4. QED
    BY <2>3 DEF AgendaView!ANext
<1>7. QED
  BY <1>1, <1>2, <1>3, <1>4, <1>5, <1>6 DEF Next

\* The kernel implements the agenda: for any handlers and any failures, events
\* are taken each once, the earliest first, at a time that never passes one.
THEOREM KernelIsAgenda == Spec => ImplementsAgenda
<1>1. QED
  BY AgendaInit, AgendaStep, KernelInvariant, OnceInvariant, PTL
  DEF Spec, ImplementsAgenda, AgendaView!ASpec
=============================================================================
