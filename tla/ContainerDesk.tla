--------------------------- MODULE ContainerDesk ---------------------------
(***************************************************************************)
(* The container desk of the API: assigning boxes to bookings and          *)
(* releasing them (services/api/app/api/v1/bookings.py), recording what    *)
(* happens to a box (events.py), and what is counted from the rows         *)
(* (containers.py, optimization/input_builder.py).                         *)
(*                                                                         *)
(* Handlers run in a thread pool, each with a session of its own and no    *)
(* lock: what one reads is what is committed at that moment, and it stays  *)
(* in its session while others commit. The flush of a commit writes the    *)
(* attributes whose value differs from the one loaded, and no other: a     *)
(* handler that finds the status it wants leaves the column alone, also    *)
(* when somebody changed it in between.                                    *)
(***************************************************************************)
EXTENDS Integers, FiniteSets

CONSTANTS
    Boxes,        \* rows of containers
    BookingIds,   \* rows of bookings
    Assignments,  \* ids of equipment assignments; bounds the assignments made
    Locations, VoyageIds,
    Clerks,       \* requests in flight at once
    None          \* NULL, and a request that is not there

Assignment == [box : Boxes, booking : BookingIds, open : BOOLEAN]

ASSUME DeskAssumption ==
    None \notin Boxes \cup Assignments \cup Locations \cup VoyageIds \cup Assignment

VARIABLES
    row,      \* the containers table
    made,     \* the equipment_assignments table: [box, booking, open], None for an id not used
    request,  \* what each request has read so far
    raced     \* boxes two requests have had in their hands at once; written, never read

deskVars == <<row, made, request, raced>>

Statuses == {"AVAILABLE", "ASSIGNED", "LOADED", "IN_TRANSIT", "UNDER_REPAIR"}
Conditions == {"CARGO_WORTHY", "DAMAGED"}
Row == [status : Statuses, condition : Conditions,
        location : Locations \cup {None}, voyage : VoyageIds \cup {None}]

EventTypes == {"GATE_IN", "GATE_OUT", "LOADED", "DISCHARGED", "RETURNED", "REPAIRED",
               "RELEASED", "DAMAGED"}
Event == [type : EventTypes, location : Locations \cup {None}, voyage : VoyageIds \cup {None}]

Idle == [op |-> "idle"]
Request == {Idle}
    \cup [op : {"assign"}, box : Boxes, booking : BookingIds, seen : Row]
    \cup [op : {"release"}, assignment : Assignments, box : Boxes]
    \cup [op : {"revert"}, assignment : Assignments, box : Boxes, seen : Row]
    \cup [op : {"event"}, box : Boxes, seen : Row, new : Row]

Holding(c, b) == request[c] # Idle /\ request[c].box = b

DeskInit ==
    /\ row \in [Boxes -> {r \in Row : /\ r.status = "AVAILABLE" /\ r.voyage = None
                                      /\ r.condition = "CARGO_WORTHY"
                                      /\ r.location # None}]
    /\ made = [a \in Assignments |-> None]
    /\ request = [c \in Clerks |-> Idle]
    /\ raced = {}

-----------------------------------------------------------------------------
(***************************************************************************)
(* What the session writes back: the attributes set to another value than  *)
(* the one loaded.                                                         *)
(***************************************************************************)
Flushed(now, seen, new) ==
    [f \in DOMAIN now |-> IF new[f] = seen[f] THEN now[f] ELSE new[f]]

\* A request has read the row of box b
Takes(c, r) ==
    /\ request' = [request EXCEPT ![c] = r]
    /\ raced' = IF \E d \in Clerks \ {c} : Holding(d, r.box)
                THEN raced \cup {r.box} ELSE raced
    /\ UNCHANGED <<row, made>>

\* The request commits: its box gets what changed in the session
Commits(c, new) ==
    /\ row' = [row EXCEPT ![request[c].box] = Flushed(@, request[c].seen, new)]
    /\ request' = [request EXCEPT ![c] = Idle]
    /\ UNCHANGED raced

(***************************************************************************)
(* POST /assignments: container and booking exist; nothing is asked of the *)
(* container's status or of its open assignments.                          *)
(***************************************************************************)
AssignReads(c, b, k) ==
    /\ request[c] = Idle
    /\ Takes(c, [op |-> "assign", box |-> b, booking |-> k, seen |-> row[b]])

AssignCommits(c) ==
    /\ request[c].op = "assign"
    /\ \E a \in Assignments :
          /\ made[a] = None
          /\ made' = [made EXCEPT ![a] = [box |-> request[c].box,
                                          booking |-> request[c].booking, open |-> TRUE]]
    /\ Commits(c, [request[c].seen EXCEPT !.status = "ASSIGNED"])

(***************************************************************************)
(* POST /assignments/{id}/release: any assignment, released or not. The    *)
(* row of its container is read after that of the assignment, by a query   *)
(* of its own.                                                             *)
(***************************************************************************)
ReleaseReads(c, a) ==
    /\ request[c] = Idle
    /\ made[a] # None
    /\ Takes(c, [op |-> "release", assignment |-> a, box |-> made[a].box])

ReleaseReadsBox(c) ==
    /\ request[c].op = "release"
    /\ Takes(c, [op |-> "revert", assignment |-> request[c].assignment,
                 box |-> request[c].box, seen |-> row[request[c].box]])

\* Fault: the container keeps its status
LeavesAssigned(seen) == seen

Reverted(seen) == [seen EXCEPT !.status = "AVAILABLE"]

ReleaseCommits(c) ==
    /\ request[c].op = "revert"
    /\ made' = [made EXCEPT ![request[c].assignment].open = FALSE]
    /\ Commits(c, Reverted(request[c].seen))

(***************************************************************************)
(* POST /container-events: what each type of event does to the row.        *)
(***************************************************************************)
At(r, e) == IF e.location # None THEN [r EXCEPT !.location = e.location] ELSE r

\* Fault: gating out leaves the box at its location
GatedOutInPlace(r, e) ==
    CASE e.type = "GATE_OUT" -> [r EXCEPT !.status = "IN_TRANSIT"]
      [] e.type = "DAMAGED" -> [r EXCEPT !.status = "UNDER_REPAIR", !.condition = "DAMAGED"]
      [] OTHER -> [At(r, e) EXCEPT !.status = "AVAILABLE"]

Recorded(r, e) ==
    CASE e.type \in {"GATE_IN", "RETURNED"} -> [At(r, e) EXCEPT !.status = "AVAILABLE"]
      [] e.type = "GATE_OUT"   -> [r EXCEPT !.status = "IN_TRANSIT", !.location = None]
      [] e.type = "LOADED"     ->
            [r EXCEPT !.status = "LOADED",
                      !.voyage = IF e.voyage # None THEN e.voyage ELSE @]
      [] e.type = "DISCHARGED" -> [At(r, e) EXCEPT !.status = "AVAILABLE", !.voyage = None]
      [] e.type = "REPAIRED"   ->
            [r EXCEPT !.status = "AVAILABLE", !.condition = "CARGO_WORTHY"]
      [] e.type = "RELEASED"   -> [r EXCEPT !.status = "AVAILABLE"]
      [] e.type = "DAMAGED"    ->
            [r EXCEPT !.status = "UNDER_REPAIR", !.condition = "DAMAGED"]

EventReads(c, b, e) ==
    /\ request[c] = Idle
    /\ Takes(c, [op |-> "event", box |-> b, seen |-> row[b], new |-> Recorded(row[b], e)])

EventCommits(c) ==
    /\ request[c].op = "event"
    /\ Commits(c, request[c].new)
    /\ UNCHANGED made

DeskNext ==
    \E c \in Clerks :
       \/ \E b \in Boxes, k \in BookingIds : AssignReads(c, b, k)
       \/ AssignCommits(c)
       \/ \E a \in Assignments : ReleaseReads(c, a)
       \/ ReleaseReadsBox(c)
       \/ ReleaseCommits(c)
       \/ \E b \in Boxes, e \in Event : EventReads(c, b, e)
       \/ EventCommits(c)

DeskSpec == DeskInit /\ [][DeskNext]_deskVars

-----------------------------------------------------------------------------
(***************************************************************************)
(* What is read from the rows: GET /inventory counts the boxes that have a *)
(* location, the planner takes the boxes it holds to be free.              *)
(***************************************************************************)
Inventory(l) ==
    LET Count(S) == Cardinality({b \in Boxes : row[b].location = l /\ row[b].status \in S})
    IN  [available |-> Count({"AVAILABLE"}), assigned |-> Count({"ASSIGNED", "LOADED"}),
         in_transit |-> Count({"IN_TRANSIT"}), under_repair |-> Count({"UNDER_REPAIR"})]

UsableContainers(l) == {b \in Boxes : row[b].location = l /\ row[b].status = "AVAILABLE"}

OpenAssignments(b) == {a \in Assignments : made[a] # None /\ made[a].box = b /\ made[a].open}

-----------------------------------------------------------------------------
\* Every table and every request holds values of its kind.
TypeOK ==
    /\ row \in [Boxes -> Row]
    /\ made \in [Assignments -> Assignment \cup {None}]
    /\ request \in [Clerks -> Request]
    /\ raced \subseteq Boxes

(***************************************************************************)
(* A box that reads ASSIGNED has an open assignment, whatever requests     *)
(* overlapped: of two releases and a new assignment none can leave behind  *)
(* a box that nobody holds and nobody can get (create_assignment,          *)
(* release_assignment).                                                    *)
(***************************************************************************)
AssignedBoxIsHeld ==
    \A b \in Boxes : row[b].status = "ASSIGNED" => OpenAssignments(b) # {}

(***************************************************************************)
(* The columns of a box go together as long as no two requests had it at   *)
(* once: gated out it is nowhere, so the in-transit column of the          *)
(* inventory stays empty, and under repair it is damaged                   *)
(* (create_container_event, get_inventory_summary). Overlapping requests   *)
(* each write the columns that changed for them, and break both.           *)
(***************************************************************************)
UnracedBoxIsConsistent ==
    /\ \A b \in Boxes \ raced :
          row[b].status = "UNDER_REPAIR" => row[b].condition = "DAMAGED"
    /\ raced = {} => \A l \in Locations : Inventory(l).in_transit = 0

=============================================================================
