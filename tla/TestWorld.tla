------------------------------ MODULE TestWorld ------------------------------
(***************************************************************************)
(* The test database of the API: its reset (test_worlds/world_1/           *)
(* db_seeder.py), the schedule run (scheduling/schedule_planner.py), the   *)
(* edits of api/v1/test_admin.py, the start of the server (main.py), and   *)
(* the world the planner reads back (load_world_1_from_db).                *)
(*                                                                         *)
(* A reset takes three transactions: it empties the tables, then writes    *)
(* company, ports, ships and schedule, then bookings and boxes. Between    *)
(* them other requests get in, the request may die of an exception of the  *)
(* database, and the server may stop. Rows made together carry the seed of *)
(* their reset; a row whose seed is no longer there names a port and a     *)
(* ship that do not exist (SQLite checks no foreign key), and the loader   *)
(* puts defaults in their place.                                           *)
(*                                                                         *)
(* One container type stands for the three, each is counted by itself.     *)
(* Bookings are what is in the row; their number in the list, which        *)
(* load_world_1_from_db makes their name, is left out, and so are the      *)
(* tables no reader of the world looks at. Legs are told apart by their    *)
(* place on the voyage; how database and fixtures number them is left out. *)
(***************************************************************************)
EXTENDS FleetSchedule, SequencesExt, FiniteSetsExt

CONSTANTS
    Clients,         \* requests in flight at once
    BaseHorizon, BaseFirm,   \* of the schedule a reset makes
    Horizons, Firms,         \* a schedule run may ask for
    FixtureLegs,     \* voyage_legs of the fixtures: records as Load gives them
    FixtureBookings, \* bookings of the fixtures: a sequence of bodies
    FixtureStock,    \* initial_inventory of the fixtures
    NewBookings,     \* bodies an admin may book
    Lead, LeadEdits, \* the ports' setting, and what an admin may make it
    DayEdits, TeuEdits,      \* of a leg
    Words,           \* assignment statuses a reassignment may give: any string
    DefaultFrom, DefaultTo, DefaultDestination,
    Touched,         \* voyages an admin edits
    MaxResets, MaxEdits, MaxRestarts

Starter == "startup"

\* what the row of a booking says
Cargo == [origin : Ports, destination : Ports, quantity : Nat]

\* No two bookings of the fixtures are the same, and none an admin makes is
\* one of them: what resets have booked is told by its body.
ASSUME WorldAssumption ==
    /\ Starter \notin Clients
    /\ FixtureBookings \in Seq(Cargo) /\ NewBookings \subseteq Cargo
    /\ \A i, j \in DOMAIN FixtureBookings : FixtureBookings[i] = FixtureBookings[j] => i = j
    /\ \A i \in DOMAIN FixtureBookings, n \in NewBookings : FixtureBookings[i].quantity # n.quantity
    /\ FixtureStock \in [Ports -> Nat]
    /\ {DefaultFrom, DefaultTo, DefaultDestination} \subseteq Ports
    /\ BaseHorizon \in Int /\ Horizons \subseteq Int /\ DayEdits \subseteq Int /\ TeuEdits \subseteq Nat
    /\ \A n \in {MaxResets, MaxEdits, MaxRestarts} : n \in Nat

VARIABLES
    db,       \* the committed tables
    request,  \* for each client the request it has in flight
    up,       \* the server takes requests (its start has ended)
    restarts, edits, resets,  \* counters of the bounds
    cleared,  \* the reset that last emptied the tables
    alone,    \* nothing but that reset has committed since
    died,     \* the resets that have died between emptying and writing
    reassignments,  \* in flight: what their sessions have read of a voyage
    raced     \* the voyages two of them had in flight at once
vars == <<db, request, up, restarts, edits, resets, cleared, alone, died, reassignments, raced>>
races == <<reassignments, raced>>

\* seeds: the resets whose company and ports are there; fleets: whose ships are
Empty == [seeds |-> {}, fleets |-> {}, lead |-> [p \in Ports |-> Lead], voyages |-> <<>>,
          bookings |-> <<>>, boxes |-> {}]
Idle == [op |-> "none", at |-> "none", seed |-> 0, ports |-> 0, ships |-> 0]

\* the ports, the ships a session has read from the tables: 0 stands for none
PortsRead(d) == IF d.seeds = {} THEN 0 ELSE CHOOSE s \in d.seeds : TRUE
ShipsRead(d) == IF d.fleets = {} THEN 0 ELSE CHOOSE s \in d.fleets : TRUE
Known(s) == IF s = 0 THEN {} ELSE Ships

-----------------------------------------------------------------------------
(***************************************************************************)
(* What the planner reads                                                  *)
(***************************************************************************)
LoadedShip(d, row) == IF row.ship # None /\ row.shipSeed \in d.fleets THEN row.ship ELSE DefaultShip

LoadedLeg(d, v, i) ==
    LET row == d.voyages[v]
    IN  [voyage |-> v, leg |-> i, ship |-> LoadedShip(d, row),
         from |-> IF row.portSeed \in d.seeds THEN Rotation[v[1]][i] ELSE DefaultFrom,
         to |-> IF row.portSeed \in d.seeds THEN Rotation[v[1]][i + 1] ELSE DefaultTo,
         departure |-> row.legs[i].departure, arrival |-> row.legs[i].arrival,
         teu |-> row.legs[i].teu]

LoadedLegs(d) ==
    LET sailing == {v \in DOMAIN d.voyages : ~d.voyages[v].blank}
        legs == UNION {{LoadedLeg(d, v, i) : i \in DOMAIN d.voyages[v].legs} : v \in sailing}
    IN  IF legs = {} THEN FixtureLegs ELSE legs

LoadedBookings(d) ==
    IF d.bookings = <<>> THEN FixtureBookings
    ELSE [i \in DOMAIN d.bookings |->
            IF d.bookings[i].seed \in d.seeds THEN d.bookings[i].body
            ELSE [d.bookings[i].body EXCEPT !.origin = DefaultFrom, !.destination = DefaultDestination]]

\* boxes whose port exists; a port without any has those of the fixtures
LoadedStock(d) ==
    [p \in Ports |->
       LET n == Cardinality({b \in d.boxes : b.port = p /\ b.seed \in d.seeds})
       IN  IF n > 0 THEN n ELSE FixtureStock[p]]

LoadedLeads(d) == IF d.seeds = {} THEN [p \in Ports |-> Lead] ELSE d.lead

Load(d) == [leads |-> LoadedLeads(d), legs |-> LoadedLegs(d),
            bookings |-> LoadedBookings(d), stock |-> LoadedStock(d)]

FixtureWorld == [leads |-> [p \in Ports |-> Lead], legs |-> FixtureLegs,
                 bookings |-> FixtureBookings, stock |-> FixtureStock]

-----------------------------------------------------------------------------
(***************************************************************************)
(* generate_and_assign_fleet_schedule: the voyages it puts in place of all *)
(* there are, with the ports and ships it has read before                  *)
(***************************************************************************)
Scheduled(horizon, firm, portSeed, shipSeed) ==
    [v \in VoyageNumbers(horizon) |->
       [ship |-> IF AssignedShip(v, Known(shipSeed)) \in Known(shipSeed)
                 THEN AssignedShip(v, Known(shipSeed)) ELSE None,
        shipSeed |-> shipSeed, portSeed |-> portSeed,
        status |-> Assignment(v, horizon, firm), blank |-> FALSE,
        legs |-> IF portSeed = 0 THEN <<>>
                 ELSE [i \in DOMAIN LegTimes(v, horizon) |->
                         [departure |-> LegTimes(v, horizon)[i].departure,
                          arrival |-> LegTimes(v, horizon)[i].arrival,
                          teu |-> AssignedTeu(v, Known(shipSeed)), set |-> FALSE]]]]

Numbered(s) == UNION {{[name |-> <<p, i>>, port |-> p, seed |-> s] : i \in 1..FixtureStock[p]} : p \in Ports}
NameTaken(d, rows) == \E a \in d.boxes, b \in rows : a.name = b.name

Committed(d) ==
    /\ db' = d
    /\ alone' = FALSE

Ends(c) == request' = [request EXCEPT ![c] = Idle]

\* the rows that reassignments in flight have read are gone: what they do from
\* here on is not written (no row matches, StaleDataError)
VoyagesReplaced == reassignments' = {} /\ raced' = {}

-----------------------------------------------------------------------------
\* Fault: the start looks for bookings instead of ports
NeedsBookings(d) == d.bookings = <<>>

\* lifespan: a database without a port is reset before the first request
NeedsSeeding(d) == d.seeds = {}

\* the rows of a reset have keys of their own
NewSeed(c) == IF c = Starter THEN MaxResets + 1 + restarts ELSE resets + 1

(***************************************************************************)
(* reseed_world_1_db, by a client or by the start of the server            *)
(***************************************************************************)
ResetBegins(c) ==
    /\ request[c] = Idle
    /\ \/ c = Starter /\ ~up /\ NeedsSeeding(db) /\ UNCHANGED resets
       \/ c # Starter /\ up /\ resets < MaxResets /\ resets' = resets + 1
    /\ request' = [request EXCEPT ![c] = [Idle EXCEPT !.op = "reset", !.at = "clear", !.seed = NewSeed(c)]]
    /\ UNCHANGED <<db, up, restarts, edits, cleared, alone, died, races>>

\* Fault: the ships are not among the tables deleted
ClearsAllButShips(c) ==
    /\ request[c].at = "clear"
    /\ db' = [Empty EXCEPT !.fleets = db.fleets]
    /\ cleared' = request[c].seed
    /\ alone' = TRUE
    /\ request' = [request EXCEPT ![c].at = "seed"]
    /\ VoyagesReplaced
    /\ UNCHANGED <<up, restarts, edits, resets, died>>

Clears(c) ==
    /\ request[c].at = "clear"
    /\ db' = Empty
    /\ cleared' = request[c].seed
    /\ alone' = TRUE
    /\ request' = [request EXCEPT ![c].at = "seed"]
    /\ VoyagesReplaced
    /\ UNCHANGED <<up, restarts, edits, resets, died>>

\* the IMO number of a ship is unique: the ships of another reset fail this one
CanSeed(d) == d.fleets = {}

SeedsFleet(c) ==
    /\ request[c].at = "seed"
    /\ IF CanSeed(db)
       THEN /\ db' = [db EXCEPT !.seeds = @ \cup {request[c].seed},
                                !.fleets = @ \cup {request[c].seed},
                                !.lead = [p \in Ports |-> Lead],
                                !.voyages = Scheduled(BaseHorizon, BaseFirm, request[c].seed, request[c].seed)]
            /\ VoyagesReplaced
            /\ alone' = (alone /\ cleared = request[c].seed)
            /\ request' = [request EXCEPT ![c].at = "refresh"]
       ELSE Ends(c) /\ UNCHANGED <<db, alone, races>>
    /\ UNCHANGED <<up, restarts, edits, resets, cleared, died>>

\* the commit has expired the rows: they are read again, or are gone
Refreshes(c) ==
    /\ request[c].at = "refresh"
    /\ IF request[c].seed \in db.seeds
       THEN request' = [request EXCEPT ![c].at = "fill"]
       ELSE Ends(c)
    /\ UNCHANGED <<db, up, restarts, edits, resets, cleared, alone, died, races>>

FixtureRows(s) == [i \in DOMAIN FixtureBookings |-> [seed |-> s, body |-> FixtureBookings[i]]]

\* the container number is unique: a box that is there already undoes the bookings too
CanFill(d, s) == ~NameTaken(d, Numbered(s))

Fills(c) ==
    /\ request[c].at = "fill"
    /\ IF CanFill(db, request[c].seed)
       THEN /\ db' = [db EXCEPT !.bookings = @ \o FixtureRows(request[c].seed),
                                !.boxes = @ \cup Numbered(request[c].seed)]
            /\ alone' = (alone /\ cleared = request[c].seed)
       ELSE UNCHANGED <<db, alone>>
    /\ Ends(c)
    /\ UNCHANGED <<up, restarts, edits, resets, cleared, died, races>>

Reset(c) == ResetBegins(c) \/ Clears(c) \/ SeedsFleet(c) \/ Refreshes(c) \/ Fills(c)

-----------------------------------------------------------------------------
(***************************************************************************)
(* generate-schedule: company, ports and ships are read one after the      *)
(* other before the first write takes the lock                             *)
(***************************************************************************)
GenerateBegins(c) ==
    /\ up /\ c # Starter /\ request[c] = Idle /\ edits < MaxEdits
    /\ db.seeds # {}
    /\ edits' = edits + 1
    /\ request' = [request EXCEPT ![c] = [Idle EXCEPT !.op = "generate", !.at = "ports"]]
    /\ UNCHANGED <<db, up, restarts, resets, cleared, alone, died, races>>

GenerateReadsPorts(c) ==
    /\ request[c].at = "ports"
    /\ request' = [request EXCEPT ![c].at = "ships", ![c].ports = PortsRead(db)]
    /\ UNCHANGED <<db, up, restarts, edits, resets, cleared, alone, died, races>>

GenerateReadsShips(c) ==
    /\ request[c].at = "ships"
    /\ request' = [request EXCEPT ![c].at = "write", ![c].ships = ShipsRead(db)]
    /\ UNCHANGED <<db, up, restarts, edits, resets, cleared, alone, died, races>>

GenerateWrites(c) ==
    /\ request[c].op = "generate" /\ request[c].at = "write"
    /\ \E horizon \in Horizons, firm \in Firms :
          Committed([db EXCEPT !.voyages = Scheduled(horizon, firm, request[c].ports, request[c].ships)])
    /\ Ends(c)
    /\ VoyagesReplaced
    /\ UNCHANGED <<up, restarts, edits, resets, cleared, died>>

Generate(c) == GenerateBegins(c) \/ GenerateReadsPorts(c) \/ GenerateReadsShips(c) \/ GenerateWrites(c)

-----------------------------------------------------------------------------
(***************************************************************************)
(* The two edits that insert rows: they read the port they are for first   *)
(***************************************************************************)
InsertBegins(c) ==
    /\ up /\ c # Starter /\ request[c] = Idle /\ edits < MaxEdits
    /\ db.seeds # {}
    /\ edits' = edits + 1
    /\ \E op \in {"book", "add"} :
          request' = [request EXCEPT ![c] = [Idle EXCEPT !.op = op, !.at = "write", !.ports = PortsRead(db)]]
    /\ UNCHANGED <<db, up, restarts, resets, cleared, alone, died, races>>

BookWrites(c) ==
    /\ request[c].op = "book"
    /\ \E body \in NewBookings :
          Committed([db EXCEPT !.bookings = Append(@, [seed |-> request[c].ports, body |-> body])])
    /\ Ends(c)
    /\ UNCHANGED <<up, restarts, edits, resets, cleared, died, races>>

\* containers added by an admin have numbers of their own
AddWrites(c) ==
    /\ request[c].op = "add"
    /\ \E p \in Ports :
          Committed([db EXCEPT !.boxes = @ \cup {[name |-> <<p, "X", edits>>, port |-> p, seed |-> request[c].ports]}])
    /\ Ends(c)
    /\ UNCHANGED <<up, restarts, edits, resets, cleared, died, races>>

Insert(c) == InsertBegins(c) \/ BookWrites(c) \/ AddWrites(c)

-----------------------------------------------------------------------------
(***************************************************************************)
(* The edits of rows that are there: found and written, or not found. One  *)
(* that writes what it was sent to a single row is one step wherever       *)
(* others get in between.                                                  *)
(***************************************************************************)
Written(d) ==
    /\ Committed(d)
    /\ UNCHANGED <<request, up, restarts, resets, cleared, died>>

Edit(d) ==
    /\ up /\ edits < MaxEdits
    /\ edits' = edits + 1
    /\ Written(d)
    /\ UNCHANGED races

UpdateVoyage ==
    \E v \in Touched \cap DOMAIN db.voyages :
       Edit([db EXCEPT !.voyages[v].blank = ~@])

UpdateLegTime ==
    \E v \in Touched \cap DOMAIN db.voyages, day \in DayEdits :
       \E i \in DOMAIN db.voyages[v].legs :
          \/ Edit([db EXCEPT !.voyages[v].legs[i].departure = day])
          \/ Edit([db EXCEPT !.voyages[v].legs[i].arrival = day])

UpdateLegCapacity ==
    \E v \in Touched \cap DOMAIN db.voyages, teu \in TeuEdits :
       \E i \in DOMAIN db.voyages[v].legs :
          Edit([db EXCEPT !.voyages[v].legs[i] = [@ EXCEPT !.teu = teu, !.set = TRUE]])

UpdateBooking ==
    \E i \in DOMAIN db.bookings, body \in NewBookings :
       Edit([db EXCEPT !.bookings[i].body =
               [body EXCEPT !.origin = db.bookings[i].body.origin,
                            !.destination = db.bookings[i].body.destination]])

DeleteBooking ==
    \E i \in DOMAIN db.bookings :
       Edit([db EXCEPT !.bookings = RemoveAt(@, i)])

\* up to as many as are AVAILABLE there
RemoveBoxes ==
    \E p \in Ports, n \in 1..Cardinality(db.boxes) :
       LET here == {b \in db.boxes : b.port = p /\ b.seed \in db.seeds}
       IN  /\ here # {}
           /\ \E gone \in kSubset(Min({n, Cardinality(here)}), here) :
                 Edit([db EXCEPT !.boxes = @ \ gone])

UpdatePort ==
    /\ db.seeds # {}
    /\ \E p \in Ports, days \in LeadEdits : Edit([db EXCEPT !.lead[p] = days])

AdminEdit ==
    \/ UpdateVoyage \/ UpdateLegTime \/ UpdateLegCapacity
    \/ UpdateBooking \/ DeleteBooking \/ RemoveBoxes \/ UpdatePort

-----------------------------------------------------------------------------
(***************************************************************************)
(* A ship is put on a voyage and its capacity on the legs: the session     *)
(* reads the voyage and the ship, then the legs, and writes at the end,    *)
(* each row only what differs from what it has read.                       *)
(***************************************************************************)
ReassignBegins ==
    /\ up /\ edits < MaxEdits /\ db.fleets # {}
    /\ edits' = edits + 1
    /\ \E v \in Touched \cap DOMAIN db.voyages :
          /\ reassignments' = reassignments \cup
                {[id |-> edits, at |-> "legs", voyage |-> v, ship |-> db.voyages[v].ship,
                  shipSeed |-> db.voyages[v].shipSeed, status |-> db.voyages[v].status, teus |-> <<>>]}
          /\ raced' = raced \cup {s.voyage : s \in {t \in reassignments : t.voyage = v}}
    /\ UNCHANGED <<db, request, up, restarts, resets, cleared, alone, died>>

ReassignReadsLegs(s) ==
    /\ s.at = "legs"
    /\ LET legs == db.voyages[s.voyage].legs
       IN  reassignments' = (reassignments \ {s}) \cup
             {[s EXCEPT !.at = "write", !.teus = [i \in DOMAIN legs |-> legs[i].teu]]}
    /\ UNCHANGED <<db, request, up, restarts, edits, resets, cleared, alone, died, raced>>

\* Fault: the legs keep the capacity of the ship before
ReassignedAlone(row, s, ship, seed, word) ==
    [row EXCEPT !.ship = ship, !.shipSeed = seed, !.status = word]

Reassigned(row, s, ship, seed, word) ==
    LET moved == <<ship, seed>> # <<s.ship, s.shipSeed>>
    IN  [row EXCEPT
           !.ship = IF moved THEN ship ELSE @,
           !.shipSeed = IF moved THEN seed ELSE @,
           !.status = IF word # s.status THEN word ELSE @,
           !.legs = [i \in DOMAIN @ |->
                       IF s.teus[i] # ShipTeu[ship]
                       THEN [@[i] EXCEPT !.teu = ShipTeu[ship], !.set = FALSE] ELSE @[i]]]

\* while the voyage it has read is there, so is the fleet it has read
ReassignWrites(s) ==
    /\ s.at = "write"
    /\ \E ship \in Ships, word \in Words :
          Written([db EXCEPT !.voyages[s.voyage] = Reassigned(@, s, ship, ShipsRead(db), word)])
    /\ reassignments' = reassignments \ {s}
    /\ UNCHANGED <<edits, raced>>

ReassignDies(s) ==
    /\ reassignments' = reassignments \ {s}
    /\ UNCHANGED <<db, request, up, restarts, edits, resets, cleared, alone, died, raced>>

Reassign ==
    \/ ReassignBegins
    \/ \E s \in reassignments : ReassignReadsLegs(s) \/ ReassignWrites(s) \/ ReassignDies(s)

-----------------------------------------------------------------------------
\* the database raises (locked, out of space): the request ends, what it had not
\* committed is undone and the server goes on; the start does not survive it
Dies(c) ==
    /\ c # Starter /\ request[c] # Idle
    /\ died' = IF request[c].at = "seed" THEN died \cup {request[c].seed} ELSE died
    /\ Ends(c)
    /\ UNCHANGED <<db, up, restarts, edits, resets, cleared, alone, races>>

\* the process ends: what it had not committed is undone
Stop ==
    /\ restarts < MaxRestarts
    /\ restarts' = restarts + 1
    /\ up' = FALSE
    /\ request' = [c \in DOMAIN request |-> Idle]
    /\ reassignments' = {}
    /\ UNCHANGED <<db, edits, resets, cleared, alone, died, raced>>

Started ==
    /\ ~up /\ request[Starter] = Idle
    /\ ~NeedsSeeding(db)
    /\ up' = TRUE
    /\ UNCHANGED <<db, request, restarts, edits, resets, cleared, alone, died, races>>

Init ==
    /\ db = Empty /\ up = FALSE
    /\ request = [c \in Clients \cup {Starter} |-> Idle]
    /\ restarts = 0 /\ edits = 0 /\ resets = 0 /\ cleared = 0 /\ alone = TRUE
    /\ died = {} /\ reassignments = {} /\ raced = {}

Request(c) == Reset(c) \/ Generate(c) \/ Insert(c)
Next ==
    \/ \E c \in Clients \cup {Starter} : Request(c) \/ Dies(c)
    \/ AdminEdit \/ Reassign \/ Stop \/ Started

\* a request that has begun goes on, and the start of the server with it
Spec == /\ Init /\ [][Next]_vars
        /\ \A c \in Clients \cup {Starter} :
              WF_vars((c = Starter \/ request[c] # Idle) /\ Request(c))
        /\ WF_vars(Started)

-----------------------------------------------------------------------------
(***************************************************************************)
(* Properties                                                              *)
(***************************************************************************)
Body == {b \in Cargo : b \in Range(FixtureBookings) \/ \E n \in NewBookings : b.quantity = n.quantity}
LegRow == [departure : Int, arrival : Int, teu : Nat, set : BOOLEAN]
VoyageRow == [ship : Ships \cup {None}, shipSeed : Nat, portSeed : Nat,
              status : Words \cup {"FIRM", "PROVISIONAL"}, blank : BOOLEAN, legs : Seq(LegRow)]

\* The tables and the requests keep their shape; at most one reset's ports
\* and ships are there (the unique IMO number lets no second fleet in).
TypeOK ==
    /\ IsFiniteSet(db.seeds) /\ Cardinality(db.seeds) <= 1 /\ db.fleets = db.seeds
    /\ db.lead \in [Ports -> {Lead} \cup LeadEdits]
    /\ \A v \in DOMAIN db.voyages : v[1] \in Loops /\ db.voyages[v] \in VoyageRow
    /\ db.bookings \in Seq([seed : Nat, body : Body])
    /\ \A b \in db.boxes : b.port \in Ports /\ b.seed \in Nat
    /\ \A c \in DOMAIN request : request[c].op \in {"none", "reset", "generate", "book", "add"}
    /\ up \in BOOLEAN /\ alone \in BOOLEAN

\* A reset that is cut off anywhere (the server stops, or the request dies)
\* leaves a world the planner reads as the complete fixture world, and so
\* does one that runs: its parts that are written and the fallbacks of the
\* loader for those that are not give the same ports, legs, bookings and
\* stock, the schedule run reproducing the legs of the fixtures day by day.
CrashIsInvisible == alone => Load(db) = FixtureWorld

\* However resets overlap and wherever the server stops: when no reset is under
\* way and the server takes requests, the ports are there, unless the last reset
\* to empty the tables has died before it wrote them. Neither one that died
\* before or after it, nor one that another has overtaken, leaves a server
\* without ports.
PortsWheneverServed ==
    up /\ (\A c \in DOMAIN request : request[c].op # "reset") /\ db.seeds = {} => cleared \in died

\* Two resets that overlap do not book the fixtures' cargo twice: the unique
\* container number undoes the bookings of the second, as long as a box of
\* the first is there.
ResetsDoNotAdd ==
    \A i, j \in DOMAIN db.bookings :
       /\ i < j /\ db.bookings[i].body = db.bookings[j].body
       /\ db.bookings[i].body \in Range(FixtureBookings)
       => \A b \in db.boxes : b.name \in {r.name : r \in Numbered(0)} => b.seed = db.bookings[j].seed

\* A leg offers the capacity of the ship on its voyage, unless an admin set the
\* leg's own; a ship that is gone has none.
CarriesItsShip(row) ==
    row.ship # None /\ row.shipSeed \in db.fleets =>
       \A i \in DOMAIN row.legs : row.legs[i].set \/ row.legs[i].teu = ShipTeu[row.ship]

\* Legs carry what their ship does through schedule runs over any horizon,
\* resets, and reassignments cut anywhere, while edits of the same legs get in
\* between: all but two reassignments of one voyage at once keep it.
LegsCarryUnlessRaced ==
    \A v \in DOMAIN db.voyages : v \in raced \/ CarriesItsShip(db.voyages[v])

\* What the tables say of one thing goes together: one fleet and its ports,
\* boxes and bookings of one reset, legs and ships.
TablesAreSound == TypeOK /\ ResetsDoNotAdd /\ LegsCarryUnlessRaced

\* The start of a server never fails half-way: whatever a reset that was cut
\* off has left, the tables are empty when the start writes the ships, its ports
\* are there when it reads them again, and no box is in the way.
StartsSucceed ==
    ~up =>
       /\ request[Starter].at = "seed" => CanSeed(db)
       /\ request[Starter].at = "refresh" => request[Starter].seed \in db.seeds
       /\ request[Starter].at = "fill" => CanFill(db, request[Starter].seed)

\* A server that stopped, anywhere in a reset, comes to serve again.
ServedAgain == ~up ~> up

=============================================================================
