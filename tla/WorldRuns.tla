----------------------------- MODULE WorldRuns -----------------------------
(***************************************************************************)
(* Where a run comes from: the baselines of the worlds and the parameters  *)
(* of services/simulation/app, from the requests that make and start them  *)
(* (api/control.py, api/config.py) through the controller's                *)
(* ensure_world_baseline(), _load_baseline() and start() to the registries *)
(* of config/parameters.py and the tables of db/sim_models.py.             *)
(*                                                                         *)
(* A baseline is built once for a world and a version, committed to the    *)
(* database if that works, and cached; a run clones one. Requests are      *)
(* coroutines: each database operation is an await where others get in,    *)
(* and each may fail, which is logged and no more. A read that finds       *)
(* nothing and one that fails go on alike, and so does a read that is      *)
(* overtaken by a commit; hence a read and the look into the cache that    *)
(* follows it are one step. create-world takes no lock; start() holds the  *)
(* controller's (module RunControl has the other requests). The service    *)
(* may be killed at any point; only what is committed survives.            *)
(***************************************************************************)
EXTENDS Parameters, Sequences, FiniteSetsExt

CONSTANTS
    MaxRequests, \* bound: requests made
    Worlds,
    StartWith,   \* scenarios asked for
    Edits,       \* [name, value, scope] asked of PATCH /parameters
    Overrides,   \* parameter_overrides of the disruptions activated
    MaxEdits,    \* bound: edits made
    MaxFailures, \* bound: operations of the database that fail
    MaxSecond,   \* bound: seconds the versions of forced baselines tell apart
    MaxRestarts  \* bound: restarts of the service

ASSUME WorldRunsAssumption ==
    /\ StartWith \subseteq DOMAIN Scenarios
    /\ MaxRequests \in Nat /\ MaxEdits \in Nat /\ MaxFailures \in Nat
    /\ MaxSecond \in Nat \ {0} /\ MaxRestarts \in Nat

VARIABLES
    base,      \* the registry of the process, _base_reg
    mine,      \* the registry of the run, _reg
    made,      \* world and version of every baseline built; its place is its id
    rows,      \* ids in world_baselines, in the order of created_at
    cache,     \* _baselines_cache in the order of its keys' insertion
    requests,  \* the requests in the order they came, and how far each is
    lock,      \* the request that holds the controller's lock
    run,       \* the WorldState published, the baseline it was cloned from
    second,    \* the second of the wall clock
    edits,     \* number of edits made
    failures,  \* number of failures of the database
    restarts   \* number of restarts

registries == <<base, mine>>
store == <<made, rows, cache>>
clocks == <<second, edits, restarts>>
bounds == <<clocks, failures>>
worldRunsVars == <<registries, store, requests, lock, run, bounds>>

Nobody == 0
NoScope == ""
NoWorld == [world |-> "none"]
NoContent == [of |-> [world |-> "none", version |-> 0], parts |-> {}, touched |-> FALSE]
NoId == 0

NoRequest ==
    [kind |-> "none", world |-> "none", asked |-> NoId, scenario |-> "none",
     stage |-> "none", id |-> NoId, newest |-> NoId, content |-> NoContent,
     source |-> "none", why |-> "none"]

\* What remains of a request that has been answered, or died.
Answered == [NoRequest EXCEPT !.stage = "answered"]

V1 == 0  \* the version of a baseline that is not forced; forced ones have their second

-----------------------------------------------------------------------------
(***************************************************************************)
(* Parameter registries                                                    *)
(***************************************************************************)

\* What has been set since the defaults, for all scopes and for one.
Untouched == [plain |-> <<>>, scoped |-> <<>>]

\* Fault: no range is looked at.
AcceptsAny(name, value) == name \in Names

\* The checks of set(); no caller passes runtime=True.
Accepts(name, value) ==
    /\ name \in Names
    /\ "low" \in DOMAIN Table[name] =>
          value \in Table[name].low .. Table[name].high

\* What assigning to keys of a dict leaves in it.
Updated(values, new) ==
    [k \in DOMAIN values \union DOMAIN new |->
        IF k \in DOMAIN new THEN new[k] ELSE values[k]]

Set(reg, name, value, scope) ==
    IF scope = NoScope
    THEN [reg EXCEPT !.plain = Updated(@, [n \in {name} |-> value])]
    ELSE [reg EXCEPT !.scoped = Updated(@, [k \in {<<name, scope>>} |-> value])]

\* The most specific value wins.
Get(reg, name, scope) ==
    IF <<name, scope>> \in DOMAIN reg.scoped THEN reg.scoped[<<name, scope>>]
    ELSE IF name \in DOMAIN reg.plain THEN reg.plain[name]
    ELSE Table[name].default

\* resolve_for_run(): a clone with the scenario's overrides on top.
Resolved(reg, overrides) == [reg EXCEPT !.plain = Updated(@, overrides)]

\* Fault: the clone shares its parameters with the registry it was made from.
SharesBase(overrides) == [base EXCEPT !.plain = Updated(@, overrides)]

\* A registry of the run is a clone of its own: the process's stays as it is.
BaseAfter(overrides) == base

\* PATCH /parameters/{name}, on the process's registry whatever runs.
Edit(e) ==
    /\ edits < MaxEdits
    /\ edits' = edits + 1
    /\ base' = IF Accepts(e.name, e.value) THEN Set(base, e.name, e.value, e.scope)
                                           ELSE base
    /\ UNCHANGED <<mine, store, requests, lock, run, second, failures, restarts>>

\* A disruption is activated in the run: each of its overrides is set on its
\* own, and one that raises is logged. Its end takes none of them back.
Disrupt(overrides) ==
    /\ run # NoWorld
    /\ lock = Nobody
    /\ LET set == [n \in {m \in DOMAIN overrides : Accepts(m, overrides[m])} |->
                      overrides[n]]
       IN  /\ mine' = [mine EXCEPT !.plain = Updated(@, set)]
           /\ base' = BaseAfter(set)
    /\ UNCHANGED <<store, requests, lock, run, bounds>>

-----------------------------------------------------------------------------
(***************************************************************************)
(* ensure_world_baseline()                                                 *)
(***************************************************************************)

Ids == 1..Len(made)

IsV1(id, world) == made[id] = [world |-> world, version |-> V1]

\* The places of a world's rows; the last is the newest.
RowsOf(world) == {i \in DOMAIN rows : made[rows[i]].world = world}
V1RowsOf(world) == {i \in DOMAIN rows : IsV1(rows[i], world)}

Entry(world, version, id) ==
    [world |-> world, version |-> version, id |-> id, touched |-> FALSE]

\* A new key goes to the end of a dict, an old one stays in its place.
Cached(entry) ==
    LET old == {i \in DOMAIN cache : /\ cache[i].world = entry.world
                                     /\ cache[i].version = entry.version}
    IN  IF old = {} THEN Append(cache, entry)
        ELSE [cache EXCEPT ![CHOOSE i \in old : TRUE] = entry]

CachedV1(world) == {e \in Range(cache) : e.world = world /\ e.version = V1}

\* ensure_world_baseline() returns: create-world answers, start() loads.
Ensured(c, id) ==
    requests' = [requests EXCEPT ![c] =
        IF @.kind # "start" THEN Answered
        ELSE IF @.stage \in {"asked", "saving"}
             THEN [@ EXCEPT !.stage = "loading", !.id = NoId]
             ELSE [@ EXCEPT !.stage = "fallen back", !.id = id]]

\* The stage at which the second, fallback, call of a start waits.
Saving(c) == IF requests[c].stage = "asked" THEN "saving" ELSE "saving again"

\* What build_baseline() fills of a world; what is left of it once written; and
\* what is made of that. A part that is not read is empty in the run, and a
\* run has no disruptions, backlog or KPIs to begin with.
Built == {"ports", "vessels", "voyages", "containers", "bookings", "allocations",
          "leases", "repositioning_orders", "demand", "equipment"}

\* serialize_baseline()
Written(parts) ==
    parts \intersect {"ports", "vessels", "voyages", "containers", "bookings",
        "allocations", "equipment", "demand", "leases", "repositioning_orders"}

\* deserialize_baseline()
ReadBack(parts) ==
    parts \intersect {"ports", "vessels", "voyages", "containers", "bookings",
        "allocations", "equipment", "demand", "leases", "repositioning_orders"}

\* build_baseline() and serialize_baseline() up to the commit.
Build(c, version) ==
    /\ made' = Append(made, [world |-> requests[c].world, version |-> version])
    /\ requests' = [requests EXCEPT ![c].stage = Saving(c), ![c].id = Len(made) + 1]
    /\ UNCHANGED <<rows, cache>>

\* An operation of the database works or fails.
Database(works) ==
    IF works THEN UNCHANGED failures
             ELSE failures < MaxFailures /\ failures' = failures + 1

\* Look for the v1 baseline in the database, if that answers, and in the cache.
Look(c, answers) ==
    /\ Database(answers)
    /\ requests[c].stage \in {"asked", "asked again"}
    /\ requests[c].kind # "force"
    /\ requests[c].kind = "start" => lock = c
    /\ LET saved == V1RowsOf(requests[c].world)
           held == CachedV1(requests[c].world)
       IN  IF answers /\ saved # {} THEN Ensured(c, rows[Max(saved)]) /\ UNCHANGED store
           ELSE IF held # {} THEN Ensured(c, (CHOOSE e \in held : TRUE).id)
                                  /\ UNCHANGED store
           ELSE Build(c, V1)
    /\ UNCHANGED <<registries, lock, run, clocks>>

\* force_reseed: a new version, named after the second it is made in.
Reseed(c) ==
    /\ requests[c].stage = "asked"
    /\ requests[c].kind = "force"
    /\ \E s \in second .. MaxSecond : second' = s /\ Build(c, s)
    /\ UNCHANGED <<registries, lock, run, edits, failures, restarts>>

\* The commit works or does not; the baseline is cached either way.
Save(c, commits) ==
    /\ Database(commits)
    /\ requests[c].stage \in {"saving", "saving again"}
    /\ LET id == requests[c].id
       IN  /\ rows' = IF commits THEN Append(rows, id) ELSE rows
           /\ cache' = Cached(Entry(made[id].world, made[id].version, id))
           /\ Ensured(c, id)
    /\ UNCHANGED <<registries, made, lock, run, clocks>>

-----------------------------------------------------------------------------
(***************************************************************************)
(* start()                                                                 *)
(***************************************************************************)

Unlocked == Nobody

\* An exception: the request is answered and the lock released.
Fails(c, why) ==
    /\ requests' = [requests EXCEPT ![c] = [Answered EXCEPT !.why = why]]
    /\ lock' = Unlocked

\* The lock is taken and the registry resolved; from here on the models of
\* the run that is still published read the new one.
Begin(c) ==
    /\ requests[c].stage = "waiting"
    /\ lock = Nobody
    /\ LET overrides == Scenarios[requests[c].scenario]
       IN  IF \A n \in DOMAIN overrides : Accepts(n, overrides[n])
           THEN /\ mine' = Resolved(base, overrides)
                /\ base' = BaseAfter(overrides)
                /\ requests' = [requests EXCEPT ![c].stage = "asked"]
                /\ lock' = c
           ELSE Fails(c, "scenario") /\ UNCHANGED registries
    /\ UNCHANGED <<store, run, bounds>>

\* Fault: the oldest row of a world is taken for the newest.
OldestRowOf(world) == rows[Min(RowsOf(world))]

NewestRowOf(world) == rows[Max(RowsOf(world))]

\* What the database knows of a start: the row asked for, or the world's newest.
FoundRows(c) ==
    LET asked == requests[c].asked
    IN  IF asked # NoId THEN {asked} \intersect Range(rows)
        ELSE IF RowsOf(requests[c].world) = {} THEN {}
        ELSE {NewestRowOf(requests[c].world)}

\* The places of a world's entries; the first is looked at first.
EntriesOf(world) == {i \in DOMAIN cache : cache[i].world = world}

\* What the cache knows of it: the baseline asked for, of whatever world, or
\* else the first one of the world.
FoundEntries(c) ==
    LET asked == {i \in DOMAIN cache : cache[i].id = requests[c].asked}
        others == EntriesOf(requests[c].world)
    IN  IF asked # {} THEN {cache[Min(asked)]}
        ELSE IF others # {} THEN {cache[Min(others)]} ELSE {}

\* _clone_baseline(): a deep copy, with the id of a baseline and the content of
\* an entry or a row.
Cloned(c, id, content, source) ==
    requests' = [requests EXCEPT ![c].stage = "persisting", ![c].id = id,
                               ![c].content = content, ![c].source = source]

Content(id) == [of |-> made[id], parts |-> ReadBack(Written(Built)), touched |-> FALSE]
ContentOf(e) == [of |-> [world |-> e.world, version |-> e.version],
                 parts |-> ReadBack(Written(Built)), touched |-> e.touched]

\* _load_baseline(): from the database if that answers, from the cache, or by
\* making the baseline once more.
Load(c, answers) ==
    /\ Database(answers)
    /\ requests[c].stage = "loading"
    /\ IF answers /\ FoundRows(c) # {}
       THEN \E id \in FoundRows(c) : Cloned(c, id, Content(id), "rows")
       ELSE IF FoundEntries(c) # {}
       THEN \E e \in FoundEntries(c) : Cloned(c, e.id, ContentOf(e), "cache")
       ELSE requests' = [requests EXCEPT ![c].stage = "asked again"]
    /\ UNCHANGED <<registries, store, lock, run, clocks>>

\* The baseline made once more is taken from the cache; a row of the database
\* that was found in its place is not there, and the start fails.
FallBack(c) ==
    /\ requests[c].stage = "fallen back"
    /\ LET held == CachedV1(requests[c].world)
       IN  IF held = {} THEN Fails(c, "baseline")
           ELSE /\ \E e \in held : Cloned(c, requests[c].id, ContentOf(e), "fallback")
                /\ UNCHANGED lock
    /\ UNCHANGED <<registries, store, run, bounds>>

\* persist_run() with its vessels and ports, which writes what no request
\* reads: all, or nothing when the database fails or knows no such baseline.
\* The run is published in either case.
Publish(c) ==
    /\ requests[c].stage = "persisting"
    /\ run' = [world |-> requests[c].world, asked |-> requests[c].asked,
               baseline |-> requests[c].id, content |-> requests[c].content,
               source |-> requests[c].source, newest |-> requests[c].newest,
               served |-> FALSE]
    /\ requests' = [requests EXCEPT ![c] = Answered]
    /\ lock' = Nobody
    /\ UNCHANGED <<registries, store, bounds>>

\* Fault: a clone shares its queues and fleets with the entry it came from.
SharedWithCache ==
    [i \in DOMAIN cache |-> IF cache[i].id = run.baseline
                            THEN [cache[i] EXCEPT !.touched = TRUE] ELSE cache[i]]

\* What a run does to its world is done to no entry of the cache.
CacheAfterServing == cache

\* The run goes on and its world is no longer the one it was cloned from.
GoOn ==
    /\ run # NoWorld /\ ~run.served
    /\ lock = Nobody
    /\ run' = [run EXCEPT !.served = TRUE, !.content.touched = TRUE]
    /\ cache' = CacheAfterServing
    /\ UNCHANGED <<registries, made, rows, requests, lock, bounds>>

-----------------------------------------------------------------------------
(***************************************************************************)
(* Requests and restarts                                                   *)
(***************************************************************************)

\* A client asks for a world.
AskWorld(kind, world) ==
    /\ Len(requests) < MaxRequests
    /\ requests' = Append(requests,
          [NoRequest EXCEPT !.kind = kind, !.world = world, !.stage = "asked"])
    /\ UNCHANGED <<registries, store, lock, run, bounds>>

\* A client asks for a start, from a baseline there is or from any.
AskStart(world, scenario, asked) ==
    /\ Len(requests) < MaxRequests
    /\ requests' = Append(requests,
          [NoRequest EXCEPT
              !.kind = "start", !.world = world, !.asked = asked,
              !.scenario = scenario, !.stage = "waiting",
              !.newest = IF asked # NoId \/ RowsOf(world) = {} THEN NoId
                         ELSE rows[Max(RowsOf(world))]])
    /\ UNCHANGED <<registries, store, lock, run, bounds>>

Underway(c) == requests[c].stage # "answered"

\* The service is killed and started again: what was not committed is gone.
Restart ==
    /\ restarts < MaxRestarts
    /\ restarts' = restarts + 1
    /\ base' = Untouched /\ mine' = Untouched
    /\ cache' = <<>>
    /\ requests' = [c \in DOMAIN requests |->
          IF Underway(c) THEN Answered ELSE requests[c]]
    /\ lock' = Nobody
    /\ run' = NoWorld
    /\ UNCHANGED <<made, rows, second, edits, failures>>

WorldRunsInit ==
    /\ base = Untouched /\ mine = Untouched
    /\ made = <<>> /\ rows = <<>> /\ cache = <<>>
    /\ requests = <<>>
    /\ lock = Nobody
    /\ run = NoWorld
    /\ second = 1 /\ edits = 0 /\ failures = 0 /\ restarts = 0

Proceed(c) ==
    \/ Begin(c)
    \/ \E works \in BOOLEAN :
          Look(c, works) \/ Save(c, works) \/ Load(c, works)
    \/ Publish(c)
    \/ Reseed(c)
    \/ FallBack(c)

WorldRunsNext ==
    \/ \E kind \in {"create", "force"}, world \in Worlds : AskWorld(kind, world)
    \/ \E world \in Worlds, scenario \in StartWith, asked \in {NoId} \union Ids :
          AskStart(world, scenario, asked)
    \/ \E c \in DOMAIN requests : Proceed(c)
    \/ \E e \in Edits : Edit(e)
    \/ \E o \in Overrides : Disrupt(o)
    \/ GoOn
    \/ Restart

WorldRunsSpec == WorldRunsInit /\ [][WorldRunsNext]_worldRunsVars

-----------------------------------------------------------------------------
(***************************************************************************)
(* Properties                                                              *)
(***************************************************************************)

\* Type invariant. Every parameter stays in its range, through edits, the
\* overrides of scenarios and those of disruptions that are refused in part.
WorldRunsTypeOK ==
    /\ \A reg \in {base, mine} :
          \A k \in {<<n, NoScope>> : n \in DOMAIN reg.plain} \union DOMAIN reg.scoped :
              /\ k[1] \in Names
              /\ "low" \in DOMAIN Table[k[1]] =>
                    Get(reg, k[1], k[2]) \in Table[k[1]].low .. Table[k[1]].high
    /\ made \in Seq([world : Worlds, version : V1 .. MaxSecond])
    /\ Range(rows) \subseteq Ids
    /\ \A e \in Range(cache) : e.id \in Ids
    /\ lock \in DOMAIN requests \union {Nobody}
    /\ run = NoWorld \/ run.baseline \in Ids

\* A scenario's and a disruption's parameters are the run's alone: the
\* registry of the process is changed by an edit (or lost in a restart), and
\* the run's never by one. "global defaults never mutated"
RegistriesAreIsolated ==
    [][/\ base' # base => edits' # edits \/ restarts' # restarts
       /\ edits' # edits => mine' = mine]_worldRunsVars

\* A run is in the world it was asked for, whatever baselines of other worlds
\* are in the database or were cached first; unless a baseline was named.
AskedWorld ==
    run # NoWorld /\ run.asked = NoId => made[run.baseline].world = run.world

\* A start that reads the database takes no baseline older than the newest
\* one of its world that was committed when it was asked for, though it has
\* just made sure that the world has the first version.
NewestSavedIsUsed ==
    run # NoWorld /\ run.asked = NoId /\ run.source = "rows" /\ run.newest # NoId =>
        LET place(id) == CHOOSE i \in DOMAIN rows : rows[i] = id
        IN  place(run.baseline) >= place(run.newest)

\* A start that names no baseline takes the one it should, whatever resets,
\* forced reseeds and restarts happen while it waits for the database.
RightBaseline == AskedWorld /\ NewestSavedIsUsed

\* A run that has not moved yet has all that its baseline was seeded with, and
\* nothing an earlier run made of it: however many runs of the same entry went
\* before, and also where it takes the id from a row and the content from the
\* cache.
RunsStartAsSeeded ==
    run # NoWorld /\ ~run.served =>
        run.content = [of |-> made[run.baseline], parts |-> Built, touched |-> FALSE]

=============================================================================
