# CargoPilot: a verification development in TLA+

CargoPilot plans where a container carrier puts its boxes. The repository holds
two Python services that talk over Kafka and HTTP, and two web front ends:

* **services/simulation** plays a world of ports, vessels, voyages, bookings and
  containers forward in time, hour by hour, under storms and strikes. An
  operator starts, advances, pauses and disturbs a run; a planning engine inside
  the service allocates containers to bookings on request.
* **services/api** keeps the carrier's own database, runs the optimization and
  publishes its decisions to the simulation.

This directory models both: the simulation's event kernel, what vessels, berths,
storms and strikes do in it, who may allocate a container and when that is
frozen, the planning engine and its stocks, the controller that runs all of it
between concurrent requests and the baselines it starts from; the API's
container desk, its daily engine and the plan it executes, the test database
behind it; and the way a decision takes from the API's database to the
simulation's world.

Contents: [the system](#the-system), [the modules](#the-modules),
[the runs](#the-runs), [the proofs](#the-proofs),
[where code and documents disagree](#where-code-and-documents-disagree),
[not modelled](#not-modelled), [plan](#plan).

## The system

Paths in this section are under `services/simulation/app` unless they say
otherwise.

| Component | State | Operations | Talks to |
|---|---|---|---|
| Event kernel `engine/simulation_kernel.py` | sorted list of scheduled events, sequence counter, own time `_env.now` | `schedule`, `schedule_now`, `advance`, `reset` | calls model handlers, which schedule more; emits on the bus; moves the clock |
| Clock `clock/simulation_clock.py` | current time, start time | `advance`, `reset` | moved by the kernel, read by everybody |
| Event bus `events/event_bus.py` | log of the step | `emit`, `flush_step_log` | the kernel; nothing subscribes |
| Run controller `controller/simulation_controller.py` | status, published world, asyncio lock, cache of baselines | `start`, `advance`, `pause`, `resume`, `reset`, `inject_disruption`, `run_cargopilot_optimization`, `ensure_world_baseline` | the HTTP endpoints in `api/control.py`; kernel, models, database |
| Port model `models/port_model.py` | per port: berths occupied, vessel queue, strike factor, congestion | `request_berth`, `release_berth`, `apply_strike_start`, `apply_strike_end` | called by handlers and the vessel model |
| Vessel, failure, recovery models `models/vessel_model.py`, `failure_model.py`, `recovery_model.py` | per vessel: status, distance left, speed, ETA, condition | arrive, unberth, progress, weather, breakdown, repair | port model; the advance, which moves vessels before its events |
| Disruption engine `models/disruption_engine.py` | list of disruptions, run's parameter registry | build, activate, end | port and vessel models |
| Allocation model `models/allocation_model.py` | lock status of bookings, allocations | `observe_cargo_pilot_allocation`, `evaluate_booking_locks` | the consumer, the end of an advance |
| Validators `world/validator.py` | none; repairs lock flags | after each event, after each advance | kernel |
| Planning engine `cargopilot/planning_engine.py` | none of its own | `optimize` | writes bookings, allocations, containers, equipment |
| Kafka consumer `kafka/consumer.py` | none | `process_message` | allocation, leasing and repositioning models, without the controller's lock |
| Equipment, leasing, repositioning `models/*` | balances per place and type | dispatch, order, complete | consumer, planning engine |
| World state and seeder `world/*` | the world as one object; baselines in the database | build, serialize, clone | controller |
| Optimization runs `services/api/app/optimization/service.py` | rows of runs and of their plans | `run_optimization`, its handler for exceptions | solver, database, producer |
| API producer `services/api/app/kafka/producer.py` | none; an unflushed buffer in the client library | `publish_repositioning`, `publish_lease` | Kafka, the simulation's consumer |
| Baselines and parameters `config/*`, `controller`, `api/control.py` | registries of the process and of the run, cache and rows of baselines | create-world, start, edit, scenario and disruption overrides | controller, database |
| Container desk `services/api/app/api/v1/{bookings,events,containers}.py` | rows of containers and assignments; what each session has read | assign, release, record an event | database only |
| Planned worlds `services/api/app/{optimization,simulation,validation}` | dataset; plan; stock, devanning queue, statuses by day | validate, build paths, solve, step, run all | solver; reads the test database |
| Test database `services/api/app/{scheduling,test_worlds}`, `api/v1/test_admin.py`, `main.py` | ports, ships, voyages and legs, bookings, boxes | reset, schedule run, edits, start of the server, load | the planner of the planned worlds |
| Rest of the API service `services/api/app` | rows | queries and single-row edits, one transaction each | |

What is hard about it:

* **Concurrency without threads.** The service is one event loop. A request is
  atomic between two awaits. All control requests take one lock; `start()` holds
  it across database calls; the Kafka consumer takes no lock and acts on
  whatever world is published.
* **A queue that handlers write while it is drained.** `advance()` pops events
  and runs handlers that schedule more, also at the current instant.
* **Exceptions in the middle.** A handler or validator may raise. Nothing is
  rolled back: time, log, queue and world stay as they are at that moment.
* **Counters moved from many places.** `berths_occupied` is written by arrivals,
  unberthings, a seeded release, the seeder; `lock_status` and the flags of
  allocations by three pieces of code.
* **Messages** arrive late, twice or never; those about bookings carry no run.
* **A request that dies in the middle.** An optimization commits twice and then
  publishes; each commit, each read after it and each message may be the last
  thing it does. A reset of the test database commits three times.
* **Threads with stale sessions.** The API's handlers run in a thread pool, each
  on what it has read; a flush writes the columns that changed for it.
* **The same thing counted twice.** The daily engine keeps a stock that the
  solver has planned; the planning engine keeps balances beside containers and
  leases; a vessel has an ETA beside its arrival event; a baseline is in a row
  and in a cache. Each pair is written by different code.
* **Schedules edited under a plan.** Nothing checks an edit when it is made.

What makes each component correct:

* kernel: events come out in order, each once, none late; time moves forward;
* ports: never more vessels than berths, nobody overtakes, nobody is lost,
  no berth stays empty while vessels wait, strikes shrink capacity and give it back;
* allocations: the lock comes on time, no box is given twice, and what is frozen
  stays as it is;
* controller: no run that is published is seen in another, what a start that
  failed may leave behind is known, and every request is answered;
* decisions: what is sent is stored first, a failed run sends nothing, and the
  world acts on nothing else;
* vessels: no position goes back, who is damaged stands and is repaired;
* planner: a run fits its voyages, and the books of the stock go together;
* baselines: a run is in the world asked for, starts as it was seeded, and keeps
  its parameters to itself;
* container desk: who reads ASSIGNED is held by somebody;
* daily engine: stock follows the plan, no box is lost, the snapshot is true, and
  every run ends;
* test database: a reset that is cut off anywhere leaves the planner a complete
  world, and legs offer what their ships carry.

## The modules

Every definition that stands for code is listed with its source lines under
`map` in PROJECT.json.

### EventOrder, Agenda, SimKernel

`EventOrder` is the comparison of two scheduled events: time, priority, sequence
number. `Agenda` is the abstract promise: a set of pending events from which the
earliest is taken, each at most once, with time never running over one that is
pending. `SimKernel` is the code: a sorted list, `bisect.insort`, the loop of
`advance()` cut into its steps (`BeginAdvance`, `PopNext`, handler, `EndLoop`,
`Flush`), with an exception possible wherever the code can raise
(`HandlerRaises`, `EventInvalid`, `StateInvalid`). Handlers are arbitrary: they
schedule anything at or after now. The refinement mapping reads `pending` off
the list, `taken` off what has left it, `now` off the kernel's time.

`run`, `lost`, `published` and `failed` are history variables; no guard reads
the last three and only the bound on runs reads the first.

### PortCalls

The handlers of the controller with the port, vessel and disruption models they
call: `VesselArrived`, `VesselUnberthed`, `BerthReleased`, `StrikeStarts`,
`StrikeEnds`, and `Inject` for the operator. Each is a whole handler, with the
event it schedules. The kernel is the set `agenda`, of which an earliest event
is taken: that is what SimKernel is shown to provide. Events of equal time and
priority come in any order, which includes the code's.

`capacity` is `strike_capacity_factor` in percent; `EffectiveBerths` is its
integer form. The turnaround time, which the code computes from congestion and
load, is any member of a set: the properties do not depend on its value.

### Allocations

Bookings with a cutoff, voyages with a departure, containers. `Advance` is the
end of an advance: the validator repairs flags, then bookings past their cutoff
are locked with the allocation their `allocation_id` names. `Observe` is a
message from the API service. `Optimize` is one run of the planning engine: any
plan its constraints allow, since the solver's choice is not the code's. A
booking that is planned may get fewer containers than that, or none. The
three ways a booking's `allocation_id` comes to name something, and one in which
it names nothing (`ALLOC-SET`), are the set `Reference`.

### AtomicRuns, RunControl

The controller as coroutines on one lock: `line` is the clients at the lock in
the order they came, `request` what each wants and where `start()` is. All
requests but `start()` are one step. `start()` is cut at its two awaits:
`StartBegins` resets the kernel, `WorldBuilt` clones the baseline and queues the
run's events (`EventsAtStart`), `StartEnds` publishes. It raises at a start time
without a zone (`StartTimeRefused`, the queue emptied, the clock not reset), an
unknown scenario, a missing baseline, or late, with disruptions of the scenario
and some arrivals queued (`BuildFails`); then `abandoned` is the run they are of.
`Decision` is the consumer, without the lock. The kernel is seen as the runs its
queued events belong to; those that queue themselves again are told from the
single ones, since they are what a run lives by.

`AtomicRuns` is what callers may count on, without lock, line and awaits: every
request takes place at one moment, and a start puts a new world in the place of
the old one, with a kernel of its own events. What is not promised is that a
start that fails leaves the old run alone: it takes its events and mostly its
time (`Emptied`), and may leave events of the run that did not come to be
(`Abandoned`), which the advances of the old one then handle. The mapping hides the events queued for a world that is still being built, and
its id: nobody can see them.

### Decisions

One optimization run a request (`Begin` to `Return`, `Fail`), cut at its commits,
the reads after them and each message; `ApiStops` ends all of them anywhere. A
plan is any member of `Results`, a set of directives. `RowsOf` is what the
service stores of it. The broker is a set from which a message is taken, taken
and left, or lost (`Deliver`, `Expire`). The consumer's part is
`dispatch_repositioning` and `order_lease` on the balances and tables of the
published world, which `NewWorld` replaces. Places and types have two sets of
names, the API's and the simulation's; a balance is kept under any of them, as
`get_equipment` does.

`Scenarios` are runs on the API's test database: same service, same producer,
same topics. `WipeTestDatabase` may remove their rows at any moment, also under
a request, whose next commit or read of its row then raises.

### Voyages

Extends PortCalls by what happens at sea. `Advance` moves every vessel by the
whole step before the first event of the step is handled, as `advance()` does
with `update_vessel_progress`; then events come one by one (`Handle`), hours pass
(`HourPasses`), and the step ends (`AdvanceEnds`). `InjectStorm` and
`DrawFailure` bring storms and breakdowns, `Repair` ends the latter. A storm that
meets a broken-down vessel divides by its speed of zero: the handler raises and
the advance ends there, with the storm active (`cut` remembers which). A storm
moves the ETA, not the arrival event, which the specification document wants
discarded; its end gives no speed back.

Nothing in the service schedules a breakdown: who drives the kernel does, as the
tests do. `VESSEL_DEPARTED` has no handler, so vessels never leave a port.

### Planner

`optimize()` once more, where Allocations leaves it abstract: pools of ports and
types, the voyages a booking may take, weekly periods, and the engine's
constraints: leases linked to bookings (`LeasesLinked`), flow of empties
(`FlowConserved`), room on voyages (`FitsVoyages`). `Apply` writes what the
engine writes: the first voyage of a split booking, balances, leases, moves.
The method has no await, so it is one step; time passes between runs. A run that
finds no plan leaves everything alone. The objective is left out: any feasible
plan may be the one the solver stops at.

### Parameters, WorldRuns

`Parameters` is the table of parameters with ranges and defaults, in
thousandths, registries with scopes (`Get`, `Set`), and the scenarios with their
overrides. `WorldRuns` has where a run comes from: requests to make a world or
start a run as coroutines cut at the database's operations, each of which may
fail; the rows of baselines and the cache; forced reseeds, whose version is the
second they are made in; the way of a baseline through serialization and back
(`Built`, `Written`, `ReadBack`); edits of the process's registry; overrides of disruptions,
applied key by key until one is refused; a restart anywhere.

### ContainerDesk

The handlers of the API that assign boxes to bookings, release them and record
events, each as what it reads and what it commits. They run in a thread pool
with a session each: what was read stays as it was read, and a commit writes the
columns that differ from it (`Flushed`). `raced` is a history variable: the boxes
two requests had at once.

### CargoNetwork, MilpPlan, DailyEngine

`CargoNetwork` is the dataset of a planned world, the rules the validator has for
it (`NoErrors`) and the paths a booking may take through the legs. `MilpPlan` is
what the solver may answer: constraints of world 1, no objective, and the plan
whose every variable is read as zero when there is no solution. `DailyEngine`
executes a plan day by day: what leaves, arrives, is unpacked, changes status.
A snapshot is a copy of the state, so what is computed for it are operators of
the state (`Directive`, `Position`, `LadenOrder`, ...).

### FleetSchedule, TestWorld

`FleetSchedule` is the schedule generator as operators: departures of a loop over
a horizon, times of the legs, ships by rule or in turn. `TestWorld` is the
database: `Reset` in its three transactions, `Generate` (the schedule run),
`Insert`, the edits of the test admin, and the server: `Stop` at any point,
`Started` when it has ports. A request may die of an exception between any two
of its transactions (`Dies`); `died` has the resets that did so with the tables
empty. `Reassign` puts a ship on a voyage and its capacity on the legs as the
session does: it reads voyage and ship, then the legs, and writes at the end of
each row only what differs from what it has read. Two of them may have one
voyage in flight at once; `raced` has the voyages to which that happened. `Load` is the world the planner reads back, with
the loader's fallbacks. One container type stands for three; a booking is the
body of its row.

### How they fit together

SimKernel establishes for arbitrary handlers what PortCalls assumes of the
kernel, on one condition, that they schedule nothing in the past; PortCalls'
handlers are proved to keep it (`HandlersScheduleAhead`). Hidden behind the storms
and breakdowns of Voyages is a behaviour of PortCalls (`PortsAsIfFairWeather`, by
INSTANCE with the agenda cut to port calls). That is so because the code keeps
every arrival where it was first scheduled, against the specification document
([below](#where-code-and-documents-disagree)): it is a fact about the code that
carries what is checked and proved of berths over to all weathers, no
requirement.
PortCalls and Allocations describe disjoint parts of one world: no handler of
PortCalls reads a booking, nothing in Allocations reads a berth, so they are
checked apart. Planner and Allocations are the same `optimize()`, seen from
the stocks and from the single containers. RunControl implements AtomicRuns; it describes the lives of
worlds and takes what happens inside an advance as given; WorldRuns adds where
those worlds come from and leaves the other requests to RunControl. Decisions
takes worlds as RunControl does, published or not, and adds where the consumer's
messages come from; its tables are disjoint from what Allocations keeps.

In the API, DailyEngine executes what MilpPlan allows for a dataset of
CargoNetwork; TestWorld is where such a dataset comes from, by the schedule of
FleetSchedule, and `Load` its last step. ContainerDesk shares no table with them.

## The runs

| Run | Module | Question | Distinct states |
|---|---|---|---|
| kernel | MCSimKernel | nothing late, exactly once, clock behind, implements Agenda; two priorities, three events, two runs | 3.2 million |
| port_calls | MCPortCalls | accounts, queue, strikes and progress; one port, three vessels, two strikes | 312,000 |
| voyages | MCVoyages | positions, breakdowns, storms; one port, two vessels, two storms | 395,000 |
| allocations | MCAllocations | lock, no box twice, frozen window; three bookings, four containers, three voyages | 462,000 |
| alloc_locked_replanned | MCAllocations | is an allocated booking left alone once it is locked? (no) | |
| planner | MCPlanner | room on voyages, books of the stock; two ports, two types, three voyages, two runs | 10,500 |
| run_control | MCRunControl | whose events are handled, start() in one step, clock and world, every request answered; two clients, two runs | 200,000 |
| world_runs | MCWorldRuns | which baseline, which content, whose parameters; two worlds, three requests | 2.5 million |
| decisions | MCDecisions | does the world act on stored decisions only? a carrier's run and a scenario, one leg, two types | 116,000 |
| container_desk | MCContainerDesk | is an assigned box held, do its columns agree? one box, two clerks, three assignments | 1.1 million |
| daily_engine | MCDailyEngine | stock, boxes, snapshot, statuses, end of the run; every plan of 56 datasets | 62,000 |
| test_world | MCTestWorld | what a cut, dying or overlapping reset leaves, ships and legs, and that the server serves again; world 1 | 365,000 |

### What the passing runs check

Type invariants and the invariants that carry the proofs (`AgendaOrdered`,
`BerthsWithinTotal`, `NoIdleBerth`, `FlagsFollowLocks`, `OnlyCompletedRunsAct`,
...) are proved and not repeated in a run. A few
properties are conjunctions of named parts, so that what belongs together is
read together.

**kernel.** `NothingOverdue`: nothing queued is behind kernel time, so a step
never has to process an event in the past. `ExactlyOnce`: every event scheduled
is in exactly one of queue, hand, log, published, lost. Here "lost" is the event
whose handler raised: the code drops it and nothing else. `ClockNotAhead`: the
clock never overtakes kernel time, although exceptions part them.
`ImplementsAgenda`: the refinement.

**port_calls.** `EveryVesselAccounted`: status, queues and agenda agree on every
vessel, so none is forgotten and none is in two places, and who waits at a port
no strike has touched waits for a berth whose release is scheduled
(`WaitersAreNext`). `StrikesAreLifted`:
capacity is low only under a strike, or after one that named no port.
`GrantsWithinCapacity`: arrivals and handovers respect what a strike leaves.
`FirstComeFirstServed`: where no strike has been, nobody overtakes.
`WaitingVesselsBerth`: without strikes, who waits gets a berth.

**voyages.** `PositionContinuity`: the distance before a vessel never grows.
`VesselsAreSound`: a vessel stands exactly while it is damaged, through repairs
of earlier breakdowns and aborted advances; a damaged vessel has its repair
queued (`RepairsArePending`); a storm in force has its end queued, unless its
activation was cut short. `DamageIsRepaired`: in the end.

**allocations.** `LocksAreTimely`: after the first advance every booking at or
past its cutoff is locked; equality counts. `EngineAllocatesOnce`: over any
number of optimizations the engine never gives out a container twice.
`FrozenInsideWindow`: a locked booking that leaves within seven days keeps its
voyage and its allocations, whatever messages arrive.

**planner.** `RunsFitVoyages`: what a run puts aboard, empties included, fits
beside the bookings preserved on the voyage. `StockIsSound`: leased boxes given
to bookings are of leases made, and a balance shows no more than boxes and leases
there are. `MissingBoxesAreMoved`: a booking may be told more boxes than its port
has, since the plan counts on later weeks and takes today's boxes; it lacks no
more than what has been ordered to be moved there.

**alloc_locked_replanned** checks `LockedAllocationsFrozen`, what the
specification document says of a locked allocation, and finds it violated: b1 is
seeded with a container on the late voyage, an advance to hour 2 takes it past
its cutoff and locks booking and allocation, and the next optimization moves the
booking to another voyage.

**run_control.** `EventsOfTheRun`: what the kernel has queued when an advance
may come belongs to the published world, or to the last start, if that raised
after it had queued some; by then the published run has lost its recurring
events for good. `ClockOfTheRun`: while it has them, its world and the clock show
the same time, through failed advances and refused starts. `StartsAreAtomic`: the
refinement of AtomicRuns. Whatever falls between the awaits of a start, the new world appears
in one step, with its own events and untouched by decisions, which until then
change the old world. `RequestsAnswered`: every request ends.

**world_runs.** `RightBaseline`: a start is in the world asked for, and when it
reads the database, with nothing older than the newest baseline that was
committed when it was asked. `RunsStartAsSeeded`: a run that has not moved has all its
baseline was seeded with and nothing of an earlier run. `RegistriesAreIsolated`:
no start and no disruption writes into the registry of the process, no edit into
a run's. `WorldRunsTypeOK`: among the shapes, every parameter in its range,
through overrides refused half-way.

**decisions.** These are about the carrier's own runs; those of scenarios mix
with them at the broker and in the world. `DurableBeforeSent`: a message at the
broker stands in the database. `OrdersWereDecided`: the world's orders and leases
stand in the database under the run and the leg or location they name; ids are
made of these two, and messages of several runs overwrite one another's.
`InTransitCoversOrders`: a balance has at least in transit what the orders from
it say, through clamped stocks, repeated messages and overwritten orders. (At
most does not hold: a repeated message, or a second type on one leg, puts boxes
in transit that no order has.)

**container_desk.** `AssignedBoxIsHeld`: a box that reads ASSIGNED has an open
assignment, whatever overlapped: no box is left that nobody holds and nobody can
get. (The converse does not hold: two requests may both assign one box.)
`UnracedBoxIsConsistent`: a box no two requests had at once is damaged while
under repair and, gated out, is nowhere.

**daily_engine.** `StockFollowsPlan`: on every day the stock is the one the plan
was made for, if the plan can be executed by an engine that takes the first path
of a booking and counts days from one (`Executable`). `BoxesConserved`: whatever
the plan, for validated data no box appears or is lost. `SnapshotIsTrue`: what a
booking is said to be doing agrees with its status; cargo at sea is shown where
its vessel is; manifests fit beside what others have booked; a port is told to
load what leaves its stock. `StatusMovesForward`, and `RunCompletes`: the run
comes to its horizon, and what was to arrive by then has been delivered, on its
day (`DueIsDelivered`).

**test_world.** `CrashIsInvisible`: a reset that nobody else disturbs, cut off at
any point, is read by the planner as the complete world of the fixtures: the
loader's fallbacks and the schedule run make the same legs, day by day.
`PortsWheneverServed`: with any overlap and no reset under way, a serving
database has its ports, unless the last reset to empty the tables died before it
wrote them: no reset that was overtaken, failed on a unique number or died
elsewhere takes them away. `TablesAreSound`: one fleet and its ports, no cargo of
the fixtures twice, and a leg offers what its ship carries, except on voyages two
reassignments had in flight at once. `ServedAgain`: a server
that stops anywhere in a reset comes up again.

Every property is also run against a faulty variant of a definition (`mutants`
in PROJECT.json; the variants stand in the modules, marked "Fault"), which TLC
finds to violate it.

### Bounds, and why they are enough

* *SimKernel*: two priorities, delays 0 and 1, kernel time up to 2, three events
  a run, two runs. Three events give every relative order of two queued events
  and one being inserted; delay 0 gives insertion at the current instant; two
  runs give a reset with a dirty log. Time 2 with steps of 1 or 2 gives events
  before, at and after the end of a step.
* *PortCalls*: a port of two berths, the smallest the seeder makes, three
  vessels, so that one must wait; severity 50 leaves one berth, 90 none; two
  strikes can overlap. A berth serves one vessel at a time and no action reads
  two ports, but for a strike that names none: more ports add nothing but
  copies, and the proofs do not fix their number. `MaxTime` only stops the clock
  of an idle world.
* *Allocations*: a lock of four ticks, an advance of at most two, voyages inside
  the window, at its edge after a while, and outside; a booking seeded with its
  cutoff at the first instant, one seeded locked, one seeded allocated to a
  voyage that leaves long after its cutoff, as the seeder does. The two containers
  nobody holds at first are symmetric.
* *RunControl*: two clients are one at the awaits of `start()` and one behind
  it; two runs are one published and one being built. A start that fails before
  it makes a run can repeat without end. At `MaxTime` an advance can only fail,
  which it can do at any time.

* *Decisions*: two runs are two to confuse; one leg and two types are a collision
  of ids; a plan that moves two types, one that moves and leases, and an empty
  one; a stock of one box meets quantities of one and two. `MaxDeliveries` bounds
  what one world is sent; three are a message, its repetition and another one.
* *Voyages*: one port, as in PortCalls; two storms that overlap, over all vessels
  or one, of which one stops a vessel altogether; a second breakdown before the
  first repair. Strikes are left to PortCalls. `LastCall` and `MaxFailures` bound
  what is injected, so that a behaviour can end; `MaxTime` is out of reach.
* *Planner*: one voyage that takes empties over before two that bring a booking
  back, so that a plan may count on boxes not yet there; a seeded booking on the
  first of these, so that not both fit. One lease; `LeasePools`, `MaxRuns` and
  `MaxTime` are bounds.
* *WorldRuns*: three requests are two that race and one that follows, or a
  world, its forced successor and a start; one failure of the database, one
  restart, two seconds. The scenario is DEMAND_SPIKE; the disruption's overrides
  have one in range and one that is refused. Worlds are symmetric.
* *ContainerDesk*: rows are independent but for counts, so one box; three
  assignments are one in force, one being released and one being made; two clerks
  are two stale sessions. Clerks and assignments are symmetric.
* *DailyEngine*: three ports, a direct path, one with a transshipment and one
  back; edited calls (an arrival before its departure, a departure on day 0, no
  day in port), slots booked by others up to and above the capacity, a booking
  the plan may split, no devanning time or one day, stock or none. `MaxEmpties`
  bounds the empties on a leg.
* *TestWorld*: loops, ships and legs are the repository's own; horizons below and
  above those at which the generator changes; two resets, two edits, one stop. Two
  edits are two reassignments of one voyage; `Words` is one status that no
  schedule run gives.

Deadlock is checked in the runs of SimKernel, PortCalls, Allocations, RunControl
and Decisions. The kernel's specification for TLC adds a stuttering step between
advances (`AtBounds`), where the bounds on events and time may leave nothing to
do; inside an advance there is none. The others stop where nobody asks for more:
a finished run of days, all vessels in port, every assignment made, the requests
answered; their cfgs say CHECK_DEADLOCK FALSE.

### Fairness

* PortCalls: `WF(HandleEvent)`. Somebody keeps calling `advance()`, and an
  advance pops everything due. Nothing is assumed of the order of equal events
  or of operators.
* Voyages: the steps of an advance go on, and somebody keeps advancing. The
  service has no loop that does: `DamageIsRepaired` is a promise to an operator
  who goes on, also after an advance that failed.
* RunControl: `WF(Serve(c))` for every client. The event loop runs each
  coroutine that can go on, an asyncio lock wakes its waiters in order, and the
  database answers or raises. Nothing is assumed of the consumer, nor that
  anybody asks.
* DailyEngine: `WF(Step)`: `run_all` is a loop in one request.
* TestWorld: a request that has begun goes on, and a server that stopped is
  started again, seeding if it has to. Nobody has to ask for anything.
* SimKernel, Allocations, Decisions, Planner, WorldRuns and ContainerDesk promise
  nothing that needs fairness: a message may be lost, nobody has to ask.

## The proofs

Every safety invariant, action property and refinement that a passing run checks
is also a theorem, for every value of the constants: any number of ports,
vessels, bookings, events, clients, runs, resets and boxes, with no bound that
matters (bounds are constants too). Seven modules hold them, an eighth what they
need of sums. Where a proof module serves two components it extends both, and
the specifications have different names (`Spec` and `DecisionSpec`, `DeskSpec`,
`VoyageSpec`, `WorldRunsSpec`).

| Module | States |
|---|---|
| SimKernel_proofs | `NothingOverdue` with the sorted agenda, `ExactlyOnce`, `ClockNotAhead`, time never runs back, the refinement `ImplementsAgenda`, types |
| Voyages_proofs | of PortCalls: `EveryVesselAccounted`, `StrikesAreLifted`, `GrantsWithinCapacity`, `FirstComeFirstServed`, `BerthsWithinTotal`, `NoIdleBerth`, `AgendaAhead`, `TimeRunsForward`, types; of Voyages: `VesselsAreSound`, `PositionContinuity`, and that the ports see a behaviour of PortCalls (`PortsAsIfFairWeather`) |
| Decisions_proofs | of Decisions: `DurableBeforeSent`, `OrdersWereDecided`, `InTransitCoversOrders`, `OnlyCompletedRunsAct`, types; of Allocations: `LocksAreTimely`, `FlagsFollowLocks`, `EngineAllocatesOnce`, `FrozenInsideWindow`, types |
| RunControl_proofs | of RunControl: the refinement `StartsAreAtomic`, `EventsOfTheRun`, `NewWorldsAreClean`, `ClockOfTheRun`, `WorldsOnlyWhileActive`, `OpenRequestsWait`, `NobodyOvertakes`, types; of WorldRuns: `RightBaseline`, `RunsStartAsSeeded`, `RegistriesAreIsolated`, `WorldRunsTypeOK` |
| Planner_proofs | of Planner: `StockIsSound`, `MissingBoxesAreMoved`, `RunsFitVoyages`; of ContainerDesk: `AssignedBoxIsHeld`, `UnracedBoxIsConsistent`, types |
| DailyEngine_proofs | `StockFollowsPlan`, `BoxesConserved`, `SnapshotIsTrue`, `StatusMovesForward`, `DirectiveMatchesStatus`, `DueIsDelivered` |
| TestWorld_proofs | `PortsWheneverServed`, `CrashIsInvisible`, `TablesAreSound`, `StartsSucceed`, and that ports and ships come from the same resets |
| Sums | sums over finite sets: adding an element, order does not matter, larger terms and larger sets |

### Assumptions

The ASSUMEs of the modules, which TLC evaluates on every run, and one hypothesis
in a statement.

* What is summed is finite: ports, types, voyages, bookings (`NetworkAssumption`,
  `PlannerAssumption`). Capacities, quantities and days are whole numbers.
* `ScheduleAssumption`: every loop calls somewhere, and arrives and departs as
  often as it calls.
* `WorldAssumption`: no two bookings of the fixtures are equal, and none that
  the test admin adds has the quantity of one of the fixtures. The model tells
  the rows of a reset by their content, where the code has ids; equal rows would
  be one.
* `CrashUnseen` is stated for `FixtureLegs = BaseLegs`: the legs written down in
  the fixtures are those a schedule run makes. It is a fact about data, true of
  world 1, where the run `test_world` has it evaluated; a fixture edited alone
  makes the loader's fallback another world.

### The arguments

* **SimKernel.** No invariant is inductive alone: inserting keeps the list
  sorted only if the new sequence number is larger than all in it; popping keeps
  time forward only if nothing queued is overdue; that holds only if the loop's
  target bounds kernel time. `KernelInv` joins them. `OnceInv` adds where an
  event is: the numbers below the counter are those queued and those taken, each
  in one place only. With both, every step is a step of Agenda or leaves its
  variables alone (`AgendaStep`): the head of the sorted list is an earliest
  pending event.
* **PortCalls.** `BerthInv` is `TypeOK`, `BerthsWithinTotal`, `NoIdleBerth` and
  `FullUnlessStruck`: a port no strike has touched works at full capacity.
  Without the last a waiting vessel says nothing about the berths. The
  unconditional release of a berth is safe because it gives one back first:
  occupied minus one plus one stays within the total, also at zero, where a port
  has at least one berth. No vessel is lost: the account has four parts (events
  match status, one event a vessel, queues match status without repetition,
  everybody is somewhere), each preserved given the others. That a waiting vessel
  has a release to wait for needs a fifth, which is about berths: a full port has
  one on the agenda (`FullPortsRelease`). A handler that takes the last release
  from the agenda gives the berth back, or on to a vessel whose unberthing it
  schedules.
* **Voyages.** `VoyageInv` is three parts of `VesselsAreSound` with the shape of
  the agenda (weather and repairs name vessels and storms, port calls are
  PortCalls') and types of speeds; the fourth part, `RepairsArePending`, is
  inductive beside it, since a repair is taken off the agenda only by the handler
  that mends its vessel. For the refinement every handler of weather and repairs is a
  stutter of PortCalls (`CallsUnseen`) and every handler of a port call its step,
  also after an aborted advance; an event that is due among all is earliest
  among the calls.
* **Allocations.** `StepCases` reduces a step to what it leaves alone. The window
  argument is that engine and lock read the same departure: a booking inside the
  window is not optimizable, and a locked one refuses messages, so neither
  writer touches it, and an advance changes flags only.
* **Planner.** `PlannerInv` is about the stocks only. What a plan takes of a pool
  is a sum over the bookings it serves, which is at most the sum over all
  bookings that the constraints bound. A plan takes more of a pool than is there
  only by what it moves in until the last week (`FlowConserved`), and just that is
  added to what has been ordered to be moved (`MovesAreAdded`).
* **RunControl.** The lock excludes: `LineInv` says that a client stands at most
  once in line, that it stands there exactly while its request is open, and that
  a start past its first await is at the head. `StartInv` then follows one start:
  while it loads the kernel is empty and the clock at zero; while it persists,
  what is queued belongs to the world being built, which is neither published
  nor decided upon; and when none is under way, what is queued is of the
  published run or of the abandoned one, whose start has emptied the kernel of
  recurring events that nothing queues again. With both, every step is one of AtomicRuns or is not seen
  (`ServeIsAtomic`): the first await ends in nothing but an emptied kernel, the
  second begins with events that are hidden, and `StartEnds`, which publishes,
  uncovers them in one step.
* **WorldRuns.** `WorldRunsInv` says for each stage what a request waiting there
  has read (`RequestOK`), and that rows and cache hold baselines as they were
  built. Both only grow (`Grown`), so that what one request has read stays right
  while others commit, the newest baseline it saw included: what it takes later
  stands no earlier in the table.
* **Decisions.** `RequestInv` says where a request stands: before it publishes
  nobody acts on its run, from its second commit on the run is COMPLETED, and
  what it has still to publish is stored. Every step that changes a row is then
  either of a run nobody acts on (`SilentStep`) or of a scenario; every other
  step at most loses messages (`OtherStep`), or copies one the broker has into
  the world (`DeliverKeeps`). `InTransitInv` adds that the orders of a world are
  finitely many: a message puts its whole quantity in transit, however little
  the clamped stock has lost, and the sum over orders grows by at most that, less
  what an overwritten order had.
* **ContainerDesk.** `HeldInv` relates a row to what sessions have read of it: a
  box that reads ASSIGNED has an open assignment of which no release about to
  commit has found the box in another status, since such a release would leave
  the column alone. So the last release to commit also frees the box. For a box
  that was never raced `UnracedInv` is simpler: the one request that has it in
  hand has read the row as it stands.
* **DailyEngine.** `StatusInv` says what the status of the day is in terms of the
  decision's days alone. It needs that a path takes time and does not start
  before the cargo is ready (`PathTakesTime`), which is where the validator's
  rules are used; the plan may be any, the unsolved one included. `BoxesInv` has
  an entry of the unpacking queue for each booking that has landed and no other,
  so that a day moves boxes between the parts of the total. `FollowInv` knows the
  queue exactly, and with it the stock of a day is the plan's. The plan's stock is a
  recursive function, which is first shown to exist. For the snapshot the
  validator's rule is used that no vessel is on two legs at once. A delivery is
  never missed by the engine's test for equality of days (`LandedOnTime`).
* **TestWorld.** `PortsWheneverServed` is not inductive: a reset has emptied the
  tables before it is the one that writes them. `PortsComing` says that the reset
  that emptied them last is about to write, or has died, or the server is down,
  and `StepsOfReset` what a request at each step is. A cut is invisible
  because an undisturbed database is empty, has the fleet only, or is complete
  (`AloneInv`), keys never come twice (`SeedsInv`), and the loader reads the same
  world from each of the three. For overlapping resets `FleetInv` has the shapes
  of the tables. `CargoInv` says of each booking of the fixtures that the ports of
  its reset, or a box of its reset, are still there, and of one that is there
  twice, that what boxes of the fixtures are left are of the later reset: a reset
  that finds a box undoes the bookings it has just made, so the boxes of the earlier one are
  gone by then. For ships and legs `SessionsInv` says of a reassignment in flight
  that the voyage still has the ship it has read, and each leg the capacity, or
  one an admin has set, unless another reassignment has the voyage too: so what it
  does not write is as if it had.

What liveness rests on is proved too. Each liveness property says that something
gets done; the safety half of it, that what is to be done stands there, can be
done and is not taken away, is a theorem for every value of the constants, and
only that it is done in the end is left to fairness and TLC:

| Liveness property | What is proved |
|---|---|
| `WaitingVesselsBerth` | who waits has a release scheduled (`WaitersAreNext`), nobody overtakes (`FirstComeFirstServed`), nothing scheduled is ever overdue (`AgendaAhead`) |
| `DamageIsRepaired` | a damaged vessel has its repair scheduled (`RepairsArePending`): aborted advances leave it there |
| `RequestsAnswered` | an open request stands in line exactly once (`OpenRequestsWait`), and no step takes it further from the lock (`NobodyOvertakes`) |
| `RunCompletes` | on every day, what was to arrive by then was delivered on its day (`DueIsDelivered`) |
| `ServedAgain` | no transaction of a server's start fails (`StartsSucceed`): nobody else runs while it does (`StartAlone`), and whatever a reset that was cut off has left, the start's own has cleared |

The proofs changed the models where these were vague: a database has all ships
or none, so the first ship of a schedule run is the first of the fixtures
(`FirstShip`); the cases of `Ensured` exclude each other, as the branches of the
code do.

Model-checked only are the liveness properties (`WaitingVesselsBerth`,
`DamageIsRepaired`, `RequestsAnswered`, `RunCompletes`, `ServedAgain`), which are
out of the provers' reach but for the halves above, and what rests on data: that
world 1 satisfies the hypothesis of `CrashUnseen`. The theorems about `Sum` are
proved by induction on a set of subsets (`FiniteDescent`), since the library's
induction takes an operator, which the provers cannot instantiate.

## Where code and documents disagree

One has a run: the engine replans locked bookings that have their allocations, if
their voyage leaves late (`alloc_locked_replanned`, the specification says that
what is locked stays; PROJECT.json quotes the line).

Three more were found by TLC with properties that say what a document or a comment
does:

* *Stale arrivals.* The specification document has it that when an ETA changes
  the simulator must "discard/recalculate dependent events" and make a "new
  arrival event", and that it "must not continue using stale timing" (15.4). In
  the code a storm or a repair writes a new ETA and leaves the VESSEL_ARRIVED
  event where the start of the run has put it; the arrival asks for neither ETA,
  position nor condition. With "a vessel arrives no earlier than the ETA it was
  last given" TLC answers after a few steps: a storm moves the ETA of the slower
  vessel from hour 2 to hour 6, and it arrives at hour 2 with distance before
  it. So the chain of 15.2 (storm, delay, late arrival, workload of the port) ends
  at the delay, and `PortsAsIfFairWeather` is a theorem about this code. It is
  checked in no run, for nobody wants it; it would be given up with the arrivals
  rescheduled.
* *Raced reassignments.* "Propagate new vessel capacities to all legs of this
  voyage", says `reassign_vessel_to_voyage`. Two requests for one voyage, each
  reading it before the other writes, leave it with the ship and the status of
  one and the capacity of the other: the one that gives back the capacity its
  legs had when it read them finds nothing to write there. `TablesAreSound`
  excepts such voyages, and no others.
* *Ships in two places.* A schedule run puts one ship on two voyages at once,
  where `schedule_planner.py` says that it assigns "available vessels based on
  vessel positions".

The models show more, which they take as the code has them. In the simulation:

* An exception in a handler leaves kernel time and clock apart for the rest of
  the run, and the events of the failed step are reported by the next one.
* The seeded berth release lets a vessel berth beyond what a strike leaves. A
  strike that names no port takes capacity everywhere and gives none back. Who
  queues at a port that a strike has emptied waits for ever: only departures
  serve the queue.
* `calculate_effective_berths` takes the floor of a float product: at some
  severities one berth less than it should.
* An ended storm gives no speed back. A storm over a broken-down vessel raises
  and ends the advance. Vessels seeded for later voyages stand at a port they
  have left, and their ETA is not their distance over their speed.
* The engine plans allocated bookings again in full, reports bookings served in
  part as served, books the quantity it planned even where its port has
  fewer containers, and counts empties it has moved once as stock again.
* Nothing completes a repositioning or activates a lease.
* A start that fails on an unknown scenario leaves the old run published and
  RUNNING on an emptied kernel whose clock is back at zero; one whose start time
  has no zone leaves it the clock.
* A start that raises late (the ETAs of a baseline without a zone are subtracted
  from a start with one) leaves the disruptions of its scenario and some arrivals
  in the kernel: the next advances of the old run handle them in its world.
* A start that names a baseline that cannot be read takes another one without a
  word, and one of another world if that is what the id names. Forced reseeds of
  one second share a version, although `api/control.py` says each
  "Creates a new version; never overwrites". An edit of a parameter that is editable at run time never reaches
  the run.

Between the services: a repositioning order of the API takes no box from any
port, since its place and type are names the simulation does not know; and
scenarios publish to the same topics as the carrier's own runs.

In the API:

* Two requests may assign one box, and the release of one frees it for a third.
  The planner counts a box as free by its status alone.
* With no devanning time, boxes are queued for a day that has been processed and
  never come back. Of a booking split over two paths only the first sails.
* A horizon below 34 days still makes the departure of day 34.
* A reset that dies after its first commit leaves a server without ports until
  the next reset or restart.
* The loader puts the fixtures' stock in the place of a port whose boxes are all
  gone, and the fixtures' legs in the place of voyages that have none.

## Not modelled

* *Floating point.* Capacities, speeds and parameters are whole numbers of small
  units; ETAs are whole hours, rounded up.
* *Objectives and costs* of both solvers: any plan that meets the constraints may
  be the one found.
* *Congestion and turnaround*, but as any member of a set.
* *Container and booking life cycles, import returns, timelines*: tables of legal
  transitions that tests call and the running service does not.
* *Demand, forecast, visibility, backlog, cost*: arithmetic and random draws
  without control; what they schedule is an arbitrary event to SimKernel.
* *World 2 of the API* and its planner: the constraints of world 1 with caps and
  forecasts over another data set.
* *Read-only endpoints, dashboards, single-row edits* of the API, its Kafka
  consumer, which logs, and the simulation's producer, whose messages nothing
  acts on.
* *Front ends, migrations, data, scripts.*

## Plan

1. In place: everything above.
2. Proofs: the safety properties have theirs, and so have the refinements and the
   safety halves of the liveness properties. What is left is to make the long
   ones shorter (TestWorld, RunControl), and to prove the hypothesis of
   `CrashUnseen` from the tables of loops and ships of any world.
3. Larger worlds: two ports in Planner with three periods under way, world 2 as
   another instance of MilpPlan.
4. The life cycles, if the service comes to call them.
