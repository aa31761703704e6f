----------------------------- MODULE AtomicRuns -----------------------------
(***************************************************************************)
(* What the run controller promises to its callers, without its lock, its  *)
(* line of requests and its awaits: every request takes place at one       *)
(* moment. A start is one step that puts a world new to everybody in the   *)
(* place of the old one, with a kernel that holds its events only. What is *)
(* not promised is that a failed start leaves the old run alone: the       *)
(* kernel has been emptied by then, and may hold events of the run that    *)
(* did not come to be, which are handled in the old world.                 *)
(***************************************************************************)
EXTENDS Integers

CONSTANTS Runs, NoRun

VARIABLES
    status,   \* of the controller
    state,    \* the run whose world is published
    queued,   \* the kernel's queued events
    clock,    \* T_sim
    time,     \* the time of each run's world
    decided,  \* runs whose world a decision has changed
    used,     \* run ids taken
    abandoned \* the run that did not come to be, if its events are queued

rvars == <<status, state, queued, clock, time, decided, used, abandoned>>

Event(r, kind) == [run |-> r, kind |-> kind]

RInit ==
    /\ status = "IDLE" /\ state = NoRun
    /\ queued = {} /\ clock = 0
    /\ time = [r \in Runs |-> 0]
    /\ decided = {} /\ used = {} /\ abandoned = NoRun

\* A start that may still fail takes the old run its events and, as a rule, its
\* time.
Emptied ==
    /\ queued' = {} /\ clock' \in {0, clock} /\ abandoned' = NoRun
    /\ UNCHANGED <<status, state, time, decided, used>>

\* One that fails later leaves events of its run, which is never published.
Abandoned ==
    /\ queued = {} /\ clock = 0
    /\ \E r \in Runs \ used :
          /\ abandoned' = r /\ used' = used \union {r}
          /\ queued' = {Event(r, "single")}
    /\ UNCHANGED <<status, state, clock, time, decided>>

\* A new world in place of the old one: nobody has decided on it, no time has
\* passed in it, its events and no others are queued.
Started ==
    /\ \E r \in Runs \ used :
          /\ r \notin decided /\ time[r] = 0
          /\ state' = r /\ used' = used \union {r}
          /\ queued' = {Event(r, "recurring"), Event(r, "single")}
    /\ status' = "RUNNING" /\ clock' = 0 /\ abandoned' = NoRun
    /\ UNCHANGED <<time, decided>>

\* Time moves in world and clock alike, or does not; what is handled or lost
\* was of the world that has advanced or of the start that failed, what is new
\* is of that world.
Advanced ==
    /\ state # NoRun /\ status = "RUNNING"
    /\ \/ clock' = clock + 1 /\ time' = [time EXCEPT ![state] = clock + 1]
       \/ UNCHANGED <<clock, time>>
    /\ queued' \subseteq queued \union {Event(state, "single")}
    /\ \A e \in queued \ queued' : e.run \in {state, abandoned}
    /\ UNCHANGED <<status, state, decided, used, abandoned>>

\* Paused or resumed.
Switched ==
    /\ status' \in {"PAUSED", "RUNNING"}
    /\ UNCHANGED <<state, queued, clock, time, decided, used, abandoned>>

Dropped ==
    /\ status' = "IDLE" /\ state' = NoRun
    /\ UNCHANGED <<queued, clock, time, decided, used, abandoned>>

Injected ==
    /\ state # NoRun
    /\ queued' = queued \union {Event(state, "single")}
    /\ UNCHANGED <<status, state, clock, time, decided, used, abandoned>>

\* A decision, of an optimization or of a message, changes the published world.
Decided ==
    /\ state # NoRun
    /\ decided' = decided \union {state}
    /\ UNCHANGED <<status, state, queued, clock, time, used, abandoned>>

RNext ==
    Emptied \/ Abandoned \/ Started \/ Advanced \/ Switched \/ Dropped \/ Injected \/ Decided

RSpec == RInit /\ [][RNext]_rvars
=============================================================================
