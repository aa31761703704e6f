----------------------------- MODULE RunControl -----------------------------
(***************************************************************************)
(* The run controller of the simulation service,                           *)
(* services/simulation/app/controller/simulation_controller.py: one object *)
(* that serves API requests as coroutines of one event loop.               *)
(*                                                                         *)
(* Every request runs under one asyncio lock. All but start() hold it      *)
(* without an await and are one step; start() awaits the database twice,   *)
(* once before it builds the world of the run and once before it publishes *)
(* it, and may raise before and after it has queued events of the new run. *)
(* The Kafka consumer takes no lock and gets in at those awaits.           *)
(*                                                                         *)
(* The kernel is seen as the runs its queued events belong to (modules     *)
(* SimKernel and PortCalls say what they do); a healthy run always has its *)
(* recurring events queued, DEMAND_GENERATED and BOOKING_LOCKED, which     *)
(* queue themselves again; the other events are single. Time is counted in *)
(* advances.                                                               *)
(***************************************************************************)
EXTENDS Integers, Sequences, FiniteSets

CONSTANTS
    Clients,  \* API requests in flight at once
    Runs,     \* run ids: start() makes a fresh one each time; bounds the starts
    NoRun,    \* None
    MaxTime   \* bound: advances per run

ASSUME RunAssumption == NoRun \notin Runs /\ MaxTime \in Nat

VARIABLES
    request,   \* what each client asks for and where start() is
    line,      \* the clients at the lock in their order; the first one holds it
    status,    \* SimulationController._status
    state,     \* the run whose WorldState _state is
    building,  \* the run whose world start() has built and not published
    queued,    \* the kernel's queued events
    clock,     \* T_sim
    time,      \* simulation_time of each run's world
    decided,   \* runs whose world a CargoPilot decision has changed
    started,   \* run ids used
    abandoned  \* the run of the last start, if it raised with events queued

vars == <<request, line, status, state, building, queued, clock, time, decided,
          started, abandoned>>

Requests == {"start", "advance", "pause", "resume", "reset", "inject", "optimize"}
Stages == {"loading", "persisting"}
QueuedEvent == [run : Runs, kind : {"recurring", "single"}]

Recurring(r) == [run |-> r, kind |-> "recurring"]
Single(r) == [run |-> r, kind |-> "single"]

Init ==
    /\ request = [c \in Clients |-> "none"]
    /\ line = <<>>
    /\ status = "IDLE"
    /\ state = NoRun
    /\ building = NoRun
    /\ queued = {}
    /\ clock = 0
    /\ time = [r \in Runs |-> 0]
    /\ decided = {}
    /\ started = {}
    /\ abandoned = NoRun

-----------------------------------------------------------------------------
(***************************************************************************)
(* The lock                                                                *)
(***************************************************************************)

\* Waiters of an asyncio lock are served in the order they came.
Behind(queue, c) == Append(queue, c)

Ask(c, what) ==
    /\ request[c] = "none"
    /\ what = "start" => started # Runs
    /\ request' = [request EXCEPT ![c] = what]
    /\ line' = Behind(line, c)
    /\ UNCHANGED <<status, state, building, queued, clock, time, decided, started,
                   abandoned>>

Holds(c, what) == line # <<>> /\ Head(line) = c /\ request[c] = what

\* The request is answered, with a result or an exception, and the lock passed on.
Answer(c) ==
    /\ request' = [request EXCEPT ![c] = "none"]
    /\ line' = Tail(line)

-----------------------------------------------------------------------------
(***************************************************************************)
(* start()                                                                 *)
(***************************************************************************)

\* Fault: a new run keeps the events of the last one.
KeptQueue == queued

\* kernel.reset() empties the queue.
EmptyQueue == {}

\* Fault: its clock goes on from where the last run left it.
KeptClock == clock

\* Its clock starts again.
ClockAtStart == 0

\* The kernel and the clock are reset before anything is known to work.
StartBegins(c) ==
    /\ Holds(c, "start")
    /\ queued' = EmptyQueue
    /\ clock' = ClockAtStart
    /\ abandoned' = NoRun
    /\ request' = [request EXCEPT ![c] = "loading"]
    /\ UNCHANGED <<line, status, state, building, time, decided, started>>

\* get_scenario() knows no such scenario: raised in the same step.
UnknownScenario(c) ==
    /\ Holds(c, "start")
    /\ queued' = EmptyQueue
    /\ clock' = ClockAtStart
    /\ abandoned' = NoRun
    /\ Answer(c)
    /\ UNCHANGED <<status, state, building, time, decided, started>>

\* Fault: the exception leaves start() with the lock held.
MissingWithLockHeld(c) ==
    /\ Holds(c, "loading")
    /\ request' = [request EXCEPT ![c] = "none"]
    /\ UNCHANGED <<line, status, state, building, queued, clock, time, decided, started,
                   abandoned>>

\* A start time without a zone: kernel.reset() has emptied the queue when the
\* clock refuses it.
StartTimeRefused(c) ==
    /\ Holds(c, "start")
    /\ queued' = EmptyQueue
    /\ abandoned' = NoRun
    /\ Answer(c)
    /\ UNCHANGED <<status, state, building, clock, time, decided, started>>

\* _load_baseline() finds a baseline neither in the database nor in memory.
BaselineMissing(c) ==
    /\ Holds(c, "loading")
    /\ Answer(c)
    /\ UNCHANGED <<status, state, building, queued, clock, time, decided, started,
                   abandoned>>

\* Fault: the world is published before it is persisted.
PublishedEarly(r) == r

\* Until it has been persisted the old world stays published.
NotYetPublished(r) == state

\* What the kernel holds of a run that has just been built: the single ones are
\* the disruptions of its scenario and what its ships and ports do next.
EventsAtStart(r) == {Recurring(r), Single(r)}

\* _clone_baseline() and _init_event_queue(): a fresh world, its events queued.
WorldBuilt(c) ==
    /\ Holds(c, "loading")
    /\ \E r \in Runs \ started :
          /\ started' = started \union {r}
          /\ building' = r
          /\ queued' = queued \union EventsAtStart(r)
          /\ state' = NotYetPublished(r)
    /\ request' = [request EXCEPT ![c] = "persisting"]
    /\ UNCHANGED <<line, status, clock, time, decided, abandoned>>

\* It raises instead, a time without a zone taken from one with: the disruptions
\* of the scenario are queued by then, and what ships do next up to the one it
\* failed at. The world is dropped, the kernel keeps its events.
BuildFails(c) ==
    /\ Holds(c, "loading")
    /\ \E r \in Runs \ started :
          /\ started' = started \union {r}
          /\ abandoned' = r
          /\ queued' = queued \union {Single(r)}
    /\ Answer(c)
    /\ UNCHANGED <<status, state, building, clock, time, decided>>

\* Persisted, or not: that exception is only logged. The run is published.
StartEnds(c) ==
    /\ Holds(c, "persisting")
    /\ state' = building
    /\ status' = "RUNNING"
    /\ building' = NoRun
    /\ Answer(c)
    /\ UNCHANGED <<queued, clock, time, decided, started, abandoned>>

-----------------------------------------------------------------------------
(***************************************************************************)
(* The other requests                                                      *)
(***************************************************************************)

\* `if not self._state`
HasWorld == state # NoRun

Advancing == HasWorld /\ status = "RUNNING"

\* The kernel moves the clock and the world's time with it.
TimePasses ==
    /\ clock < MaxTime
    /\ clock' = clock + 1
    /\ time' = [time EXCEPT ![state] = clock + 1]

\* Events that are due are handled, whatever run they are of, and what follows
\* from them is queued for the published one; the recurring ones stay.
Advance(c) ==
    /\ Holds(c, "advance")
    /\ Advancing
    /\ TimePasses
    /\ \E due \in SUBSET {e \in queued : e.kind = "single"}, next \in SUBSET {Single(state)} :
          queued' = (queued \ due) \union next
    /\ Answer(c)
    /\ UNCHANGED <<status, state, building, decided, started, abandoned>>

\* A handler raises, or a validator: before time passes or after. What was
\* popped is gone. (At MaxTime, the bound, every advance fails.)
AdvanceFails(c) ==
    /\ Holds(c, "advance")
    /\ Advancing
    /\ TimePasses \/ UNCHANGED <<clock, time>>
    /\ queued' \in SUBSET (queued \union {Single(state)})
    /\ Answer(c)
    /\ UNCHANGED <<status, state, building, decided, started, abandoned>>

Pause(c) ==
    /\ Holds(c, "pause")
    /\ status' = "PAUSED"
    /\ Answer(c)
    /\ UNCHANGED <<state, building, queued, clock, time, decided, started, abandoned>>

\* Whatever the status is.
Resume(c) ==
    /\ Holds(c, "resume")
    /\ status' = "RUNNING"
    /\ Answer(c)
    /\ UNCHANGED <<state, building, queued, clock, time, decided, started, abandoned>>

\* reset(): the world is dropped.
DroppedState == NoRun

\* The kernel is left as it is.
Reset(c) ==
    /\ Holds(c, "reset")
    /\ status' = "IDLE"
    /\ state' = DroppedState
    /\ Answer(c)
    /\ UNCHANGED <<building, queued, clock, time, decided, started, abandoned>>

\* inject_disruption(): also while paused.
Inject(c) ==
    /\ Holds(c, "inject")
    /\ HasWorld
    /\ queued' = queued \union {Single(state)}
    /\ Answer(c)
    /\ UNCHANGED <<status, state, building, clock, time, decided, started, abandoned>>

\* run_cargopilot_optimization() writes its decisions into the world.
Optimize(c) ==
    /\ Holds(c, "optimize")
    /\ HasWorld
    /\ status \in {"RUNNING", "PAUSED"}
    /\ decided' = decided \union {state}
    /\ Answer(c)
    /\ UNCHANGED <<status, state, building, queued, clock, time, started, abandoned>>

\* RuntimeError or NO_ACTIVE_RUN.
Refused(c) ==
    /\ \/ Holds(c, "advance") /\ ~Advancing
       \/ Holds(c, "inject") /\ ~HasWorld
       \/ /\ Holds(c, "optimize")
          /\ ~HasWorld \/ status \notin {"RUNNING", "PAUSED"}
    /\ Answer(c)
    /\ UNCHANGED <<status, state, building, queued, clock, time, decided, started,
                   abandoned>>

\* The Kafka consumer applies a decision to whatever world is published.
Decision ==
    /\ HasWorld
    /\ decided' = decided \union {state}
    /\ UNCHANGED <<request, line, status, state, building, queued, clock, time,
                   started, abandoned>>

Serve(c) ==
    \/ StartBegins(c) \/ UnknownScenario(c) \/ StartTimeRefused(c)
    \/ BaselineMissing(c) \/ WorldBuilt(c) \/ BuildFails(c) \/ StartEnds(c)
    \/ Advance(c) \/ AdvanceFails(c) \/ Pause(c) \/ Resume(c) \/ Reset(c)
    \/ Inject(c) \/ Optimize(c) \/ Refused(c)

Next ==
    \/ \E c \in Clients, what \in Requests : Ask(c, what)
    \/ \E c \in Clients : Serve(c)
    \/ Decision

Spec == Init /\ [][Next]_vars

\* The event loop runs every coroutine that can go on.
FairSpec == Spec /\ \A c \in Clients : WF_vars(Serve(c))

-----------------------------------------------------------------------------
(***************************************************************************)
(* Properties                                                              *)
(***************************************************************************)

\* The controller's attributes hold what they may.
TypeOK ==
    /\ request \in [Clients -> Requests \union Stages \union {"none"}]
    /\ line \in Seq(Clients)
    /\ status \in {"IDLE", "RUNNING", "PAUSED"}
    /\ state \in Runs \union {NoRun}
    /\ building \in Runs \union {NoRun}
    /\ queued \subseteq QueuedEvent
    /\ clock \in 0..MaxTime
    /\ time \in [Runs -> 0..MaxTime]
    /\ decided \subseteq Runs
    /\ started \subseteq Runs
    /\ abandoned \in Runs \union {NoRun}

\* start() is past the reset of the kernel and has not been answered.
Starting == \E c \in Clients : request[c] \in Stages

\* No event of a published run is ever handled against the world of another:
\* what the kernel has queued when an advance may come is of the published run,
\* or of the one start since that raised after it had queued some. By then that
\* start has taken the published run's recurring events away, for good.
EventsOfTheRun ==
    state # NoRun /\ ~Starting =>
       /\ \A e \in queued : e.run \in {state, abandoned}
       /\ abandoned # NoRun => abandoned # state /\ Recurring(state) \notin queued

\* While the published run has its recurring events, its world and the clock
\* show the same time; a start that failed since took both away.
ClockOfTheRun ==
    /\ state # NoRun
    /\ ~Starting
    /\ Recurring(state) \in queued
    => time[state] = clock

\* Decisions that arrive while start() awaits the database go to the world it
\* replaces: the one it publishes is as its baseline made it.
NewWorldsAreClean == building \notin decided

\* An idle controller has no world: whatever fails in a start, a world is
\* published together with its status, and dropped together with it.
WorldsOnlyWhileActive == state # NoRun => status \in {"RUNNING", "PAUSED"}

\* Open requests stand in line, once each, and nobody else does: none is
\* forgotten at the lock.
OpenRequestsWait ==
    /\ \A c \in Clients : request[c] # "none" <=> \E i \in DOMAIN line : line[i] = c
    /\ \A i, j \in DOMAIN line : line[i] = line[j] => i = j

\* Who waits at the lock only comes nearer to it, whoever else asks and however
\* a start ends.
NobodyOvertakes ==
    [][\A i \in DOMAIN line, j \in DOMAIN line' : line[i] = line'[j] => j <= i]_vars

\* Seen from outside, start() is one step, though it awaits the database twice:
\* the events queued and the id used for a world that is being built are not
\* there until it is published, and if it is not, its events have come with the
\* failure.
Atomic == INSTANCE AtomicRuns
          WITH queued <- {e \in queued : e.run # building}, used <- started \ {building}

StartsAreAtomic == Atomic!RSpec

\* A request once made is answered, through failed starts and however many
\* other requests come.
RequestsAnswered == \A c \in Clients : request[c] # "none" ~> request[c] = "none"

=============================================================================
