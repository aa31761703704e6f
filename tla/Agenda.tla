------------------------------- MODULE Agenda -------------------------------
(***************************************************************************)
(* What the simulation kernel promises to the models: an agenda of future  *)
(* events out of which events are taken one at a time, each exactly once,  *)
(* the earliest first, and a time that never passes an event still on the  *)
(* agenda.  How the agenda is stored, what a handler does and where a step *)
(* ends or fails are left out.                                             *)
(***************************************************************************)
EXTENDS EventOrder

VARIABLES
    pending,  \* the events on the agenda
    taken,    \* the sequence numbers of the events taken so far
    issued,   \* how many events have been put on the agenda
    now       \* simulation time

avars == <<pending, taken, issued, now>>

AInit ==
    /\ pending = {}
    /\ taken = {}
    /\ issued = 0
    /\ now = 0

\* Put an event on the agenda, never in the past.
Put ==
    /\ issued' = issued + 1
    /\ \E e \in pending' :
          /\ e.sequence = issued
          /\ e.time >= now
          /\ pending' = pending \union {e}
    /\ UNCHANGED <<taken, now>>

\* Take the earliest event; time is now its time.
Take ==
    \E e \in pending :
        /\ \A f \in pending \ {e} : Precedes(e, f)
        /\ e.sequence \notin taken
        /\ e.time >= now
        /\ pending' = pending \ {e}
        /\ taken' = taken \union {e.sequence}
        /\ now' = e.time
        /\ UNCHANGED issued

\* Let time pass up to, and not over, the next event.
Pass ==
    /\ now' >= now
    /\ \A e \in pending : e.time >= now'
    /\ UNCHANGED <<pending, taken, issued>>

\* Forget everything and start again.
Restart ==
    /\ pending' = {}
    /\ taken' = {}
    /\ issued' = 0
    /\ now' = 0

ANext == Put \/ Take \/ Pass \/ Restart

ASpec == AInit /\ [][ANext]_avars
=============================================================================
