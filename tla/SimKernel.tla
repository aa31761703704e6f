----------------------------- MODULE SimKernel -----------------------------
(***************************************************************************)
(* The discrete event kernel of the simulation service:                    *)
(* services/simulation/app/engine/simulation_kernel.py, with the virtual   *)
(* clock it moves and the event bus it emits to.                           *)
(*                                                                         *)
(* The kernel keeps one list of scheduled events ordered by (time,         *)
(* priority, insertion sequence). One call of advance() pops every event   *)
(* due within the step, runs its model handler (which may schedule         *)
(* consequences), emits it on the bus and validates; then it moves its own *)
(* time and the clock to the end of the step and hands over the step log.  *)
(* An exception anywhere leaves advance() at once: nothing is rolled back. *)
(*                                                                         *)
(* Handlers are arbitrary here: any handler may schedule anything at or    *)
(* after the current time and may raise. advance() has no await, so        *)
(* nothing outside the kernel acts while phase # "idle".                   *)
(***************************************************************************)
EXTENDS EventOrder, Sequences, FiniteSets

CONSTANTS
    EventTypes,   \* event types, the kinds of SimEvent
    Priority,     \* EVENT_PRIORITY: EventTypes -> 1..10, lower runs first
    MaxDelta,     \* largest step of one advance(), 24 hours in the code
    Delays,       \* hours ahead of now at which events get scheduled
    MaxTime,      \* bound: kernel time
    MaxEvents,    \* bound: events scheduled in one run
    MaxRuns       \* bound: runs, that is calls of reset() plus one

ASSUME KernelAssumption ==
    /\ Priority \in [EventTypes -> Nat]
    /\ MaxDelta \in Nat \ {0}
    /\ Delays \subseteq Nat
    /\ MaxTime \in Nat
    /\ MaxEvents \in Nat
    /\ MaxRuns \in Nat \ {0}

VARIABLES
    queue,      \* _event_queue: ScheduledEvents, earliest first
    counter,    \* _sequence_counter
    env,        \* _env.now, the kernel's time in hours since the run's start
    clock,      \* SimulationClock.elapsed_hours
    phase,      \* where advance() is; "idle" between calls
    target,     \* t_target_simpy of the call in progress
    delta,      \* delta_hours of the call in progress
    current,    \* the event popped last
    log,        \* EventBus._event_log
    run,        \* history: number of the run
    lost,       \* history: events of this run whose handler raised
    published,  \* history: events of this run handed over by earlier steps
    failed      \* history: a call of advance() raised in this run

vars == <<queue, counter, env, clock, phase, target, delta, current, log,
          run, lost, published, failed>>

ScheduledEvent ==
    [time : Nat, priority : Nat, sequence : Nat, type : EventTypes, run : Nat]

\* The sequence numbers of this run's events waiting in the step log.
Logged == {log[i].sequence : i \in {j \in DOMAIN log : log[j].run = run}}

\* The sequence number of the event whose handler is running.
InHand == IF phase = "handler" THEN {current[1].sequence} ELSE {}

Queued == {queue[i].sequence : i \in DOMAIN queue}

-----------------------------------------------------------------------------

Init ==
    /\ queue = <<>>
    /\ counter = 0
    /\ env = 0
    /\ clock = 0
    /\ phase = "idle"
    /\ target = 0
    /\ delta = 0
    /\ current = <<>>
    /\ log = <<>>
    /\ run = 1
    /\ lost = {}
    /\ published = {}
    /\ failed = FALSE

\* Sequence q with e put in after its first p elements.
InsertAfter(q, p, e) ==
    [i \in 1..(Len(q) + 1) |->
        IF i <= p THEN q[i] ELSE IF i = p + 1 THEN e ELSE q[i - 1]]

\* schedule(): wrap the event with the next sequence number and insert it at
\* its sorted position (bisect.insort).
Enqueue(type, at) ==
    LET e == [time |-> at, priority |-> Priority[type], sequence |-> counter,
              type |-> type, run |-> run]
    IN  /\ counter < MaxEvents
        /\ counter' = counter + 1
        /\ \E p \in 0..Len(queue) :
              /\ \A i \in 1..p : Precedes(queue[i], e)
              /\ \A i \in (p + 1)..Len(queue) : Precedes(e, queue[i])
              /\ queue' = InsertAfter(queue, p, e)

\* An event entered from outside advance(): the initial agenda of a run, or
\* schedule_now() for an injected disruption (delay 0).
Schedule(type, d) ==
    /\ phase = "idle"
    /\ env + d <= MaxTime
    /\ Enqueue(type, env + d)
    /\ UNCHANGED <<env, clock, phase, target, delta, current, log,
                   run, lost, published, failed>>

\* advance(): the guard on delta_hours and the target time.
BeginAdvance(d) ==
    /\ phase = "idle"
    /\ env + d <= MaxTime
    /\ phase' = "loop"
    /\ delta' = d
    /\ target' = env + d
    /\ UNCHANGED <<queue, counter, env, clock, current, log, run,
                   lost, published, failed>>

\* Fault: the break at the target is missing.
DueAtAnyTime == queue # <<>>

\* Is there an event left for this step?  (the break of the while loop)
Due == queue # <<>> /\ Head(queue).time <= target

\* One turn of the loop: pop the earliest event and move time to it, before
\* its handler runs.
PopNext ==
    /\ phase = "loop"
    /\ Due
    /\ current' = <<Head(queue)>>
    /\ queue' = Tail(queue)
    /\ env' = Head(queue).time
    /\ phase' = "handler"
    /\ UNCHANGED <<counter, clock, target, delta, log, run, lost,
                   published, failed>>

\* advance() is left, by return or by an exception: its locals are gone.
LeaveAdvance ==
    /\ phase' = "idle"
    /\ target' = 0
    /\ delta' = 0
    /\ current' = <<>>

\* A model handler schedules a consequence.
HandlerSchedules(type, d) ==
    /\ phase = "handler"
    /\ Enqueue(type, env + d)
    /\ UNCHANGED <<env, clock, phase, target, delta, current, log,
                   run, lost, published, failed>>

\* The handler (or a bus subscriber, called before the log append) raises.
HandlerRaises ==
    /\ phase = "handler"
    /\ LeaveAdvance
    /\ lost' = lost \union {current[1].sequence}
    /\ failed' = TRUE
    /\ UNCHANGED <<queue, counter, env, clock, log, run, published>>

\* The handler returns, the bus appends the event to the step log, and the
\* local validators accept.
HandlerReturns ==
    /\ phase = "handler"
    /\ log' = Append(log, current[1])
    /\ phase' = "loop"
    /\ current' = <<>>
    /\ UNCHANGED <<queue, counter, env, clock, target, delta, run, lost,
                   published, failed>>

\* The same, and a local validator raises.
EventInvalid ==
    /\ phase = "handler"
    /\ log' = Append(log, current[1])
    /\ LeaveAdvance
    /\ failed' = TRUE
    /\ UNCHANGED <<queue, counter, env, clock, run, lost, published>>

ClockByDay == clock + MaxDelta

\* SimulationClock.advance().
ClockAdvanced == clock + delta

\* Nothing more is due: time and clock move to the end of the step.
EndLoop ==
    /\ phase = "loop"
    /\ ~Due
    /\ env' = target
    /\ clock' = ClockAdvanced
    /\ phase' = "validate"
    /\ UNCHANGED <<queue, counter, target, delta, current, log, run, lost,
                   published, failed>>

\* Fault: the log is copied and not cleared.
FlushWithoutClear ==
    /\ phase = "validate"
    /\ published' = published \union Logged
    /\ LeaveAdvance
    /\ UNCHANGED <<queue, counter, env, clock, log, run, lost, failed>>

\* The advancement validators accept and the step log is handed over.
Flush ==
    /\ phase = "validate"
    /\ published' = published \union Logged
    /\ log' = <<>>
    /\ LeaveAdvance
    /\ UNCHANGED <<queue, counter, env, clock, run, lost, failed>>

\* An advancement validator raises: the clock has moved, the log stays.
StateInvalid ==
    /\ phase = "validate"
    /\ LeaveAdvance
    /\ failed' = TRUE
    /\ UNCHANGED <<queue, counter, env, clock, log, run, lost, published>>

\* reset(), which SimulationController.start() calls first. The bus is not
\* part of it.
Reset ==
    /\ phase = "idle"
    /\ run < MaxRuns
    /\ run' = run + 1
    /\ queue' = <<>>
    /\ counter' = 0
    /\ env' = 0
    /\ clock' = 0
    /\ lost' = {}
    /\ published' = {}
    /\ failed' = FALSE
    /\ UNCHANGED <<phase, target, delta, current, log>>

Next ==
    \/ \E type \in EventTypes, d \in Delays : Schedule(type, d)
    \/ \E d \in 1..MaxDelta : BeginAdvance(d)
    \/ PopNext
    \/ \E type \in EventTypes, d \in Delays : HandlerSchedules(type, d)
    \/ HandlerRaises
    \/ HandlerReturns
    \/ EventInvalid
    \/ EndLoop
    \/ Flush
    \/ StateInvalid
    \/ Reset

Spec == Init /\ [][Next]_vars

-----------------------------------------------------------------------------
(***************************************************************************)
(* Properties                                                              *)
(***************************************************************************)

\* The kernel's state has the shape the code gives it.
TypeOK ==
    /\ queue \in Seq(ScheduledEvent)
    /\ counter \in Nat
    /\ env \in Nat
    /\ clock \in Nat
    /\ phase \in {"idle", "loop", "handler", "validate"}
    /\ target \in Nat
    /\ delta \in Nat
    /\ current \in Seq(ScheduledEvent)
    /\ phase = "handler" => Len(current) = 1
    /\ log \in Seq(ScheduledEvent)
    /\ run \in Nat
    /\ lost \subseteq Nat
    /\ published \subseteq Nat
    /\ failed \in BOOLEAN

\* Whatever handlers schedule and wherever a step raises, no event is left
\* behind kernel time: every queued event can still be processed on time.
NothingOverdue == \A i \in DOMAIN queue : queue[i].time >= env

\* bisect.insort keeps the list in strict (time, priority, sequence) order,
\* so popping index 0 takes the earliest event.
AgendaOrdered ==
    \A i, j \in DOMAIN queue : i < j => Precedes(queue[i], queue[j])

\* Every event scheduled in this run is in exactly one place: still queued, in
\* its handler, in the step log, published by an earlier step, or lost with
\* the handler that raised. No path of advance() drops or repeats one.
ExactlyOnce ==
    /\ 0..(counter - 1) = Queued \union InHand \union Logged \union published
                          \union lost
    /\ Len(queue) + Cardinality(InHand) + Cardinality(Logged)
          + Cardinality(published) + Cardinality(lost) = counter

\* The clock never runs ahead of kernel time, and between steps they agree
\* unless a step of this run raised.
ClockNotAhead ==
    /\ clock <= env
    /\ phase = "idle" /\ ~failed => clock = env

\* Within a run neither kernel time nor the clock ever goes back, failed steps
\* included.
TimeNeverRunsBack ==
    [][run' = run => env' >= env /\ clock' >= clock]_vars

\* The kernel is an Agenda: its sorted list, popped at the head, gives each
\* event out once and in order.
AgendaView == INSTANCE Agenda WITH
    pending <- {queue[i] : i \in DOMAIN queue},
    taken <- InHand \union Logged \union published \union lost,
    issued <- counter,
    now <- env
ImplementsAgenda == AgendaView!ASpec

=============================================================================
