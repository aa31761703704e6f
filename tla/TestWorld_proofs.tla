--------------------------- MODULE TestWorld_proofs ---------------------------
(***************************************************************************)
(* However many resets overlap, wherever they are cut off: a server that   *)
(* takes requests and has no reset under way has ports, unless the last    *)
(* reset to empty the tables died before it wrote them; a reset that       *)
(* nobody disturbed, wherever it is cut off, leaves the world of the       *)
(* fixtures to the planner; and the tables stay sound, but for the         *)
(* capacities of a voyage two reassignments had in flight at once.         *)
(*                                                                         *)
(* The first argument: the ports and ships come and go together, so a      *)
(* reset that fails on a unique IMO number has found ports there; and      *)
(* whoever emptied the tables last has the writing of the next ones still  *)
(* before it, or has died, or the server is down and looks for ports       *)
(* before it comes up. The second: no two resets share a key, so the one   *)
(* that finds its key in cleared has written all the rows there are; the   *)
(* tables then hold nothing, a fleet or all of the fixtures, and the       *)
(* loader reads the same world from each of the three. The third, for the  *)
(* tables of any history: the voyages keep their shape, and what a         *)
(* reassignment has read of ship and capacities stays what the tables say, *)
(* but for legs an admin has set, until another one of its voyage begins:  *)
(* so it leaves each leg the capacity of the ship; a booking of the        *)
(* fixtures has its ports or a box of its reset, so the second of two      *)
(* resets finds a box and undoes its bookings, or finds the bookings of    *)
(* one reset only.                                                         *)
(***************************************************************************)
EXTENDS TestWorld, SequenceTheorems, Sums

Parties == Clients \cup {Starter}
RequestType == [op : {"none", "reset", "generate", "book", "add"},
                at : {"none", "clear", "seed", "refresh", "fill", "ports", "ships", "write"},
                seed : Int, ports : Int, ships : Int]

\* a record of the six tables
IsDb(d) == d = [seeds |-> d.seeds, fleets |-> d.fleets, lead |-> d.lead, voyages |-> d.voyages,
                bookings |-> d.bookings, boxes |-> d.boxes]

Shapes ==
    /\ request \in [Parties -> RequestType]
    /\ IsDb(db) /\ db.seeds \subseteq Int /\ db.fleets = db.seeds
    /\ restarts \in Int /\ resets \in Int

\* the steps of a reset are taken by resets only
StepsOfReset ==
    \A c \in Parties : request[c].at \in {"clear", "seed", "refresh", "fill"} => request[c].op = "reset"

\* who has emptied the tables last is about to write them, or has died
Seeding(c) == request[c].at = "seed" /\ request[c].seed = cleared
PortsComing == up /\ db.seeds = {} => cleared \in died \/ \E c \in Parties : Seeding(c)

IInv == Shapes /\ StepsOfReset /\ PortsComing

-----------------------------------------------------------------------------
\* No request is none of the kinds with steps.
LEMMA IdleShape == Idle \in RequestType /\ Idle.op = "none" /\ Idle.at = "none"
  BY DEF Idle, RequestType

\* The first key a start of the server may use is a number.
LEMMA MaxNumber == MaxResets \in Int
  BY WorldAssumption

\* What a session reads as the key of a port, or of a ship, is a number.
LEMMA ReadsNumber ==
  ASSUME Shapes PROVE PortsRead(db) \in Int /\ ShipsRead(db) \in Int
  BY DEF Shapes, PortsRead, ShipsRead

\* A server starts empty, and down.
LEMMA InitInv == Init => IInv
  <1> SUFFICES ASSUME Init PROVE IInv
    OBVIOUS
  <1>1. request \in [Parties -> RequestType] /\ \A c \in Parties : request[c].at = "none"
    BY IdleShape DEF Init, Parties
  <1>2. db = Empty /\ ~up /\ restarts = 0 /\ resets = 0
    BY DEF Init
  <1>. QED
    BY <1>1, <1>2 DEF IInv, Shapes, IsDb, StepsOfReset, PortsComing, Empty

\* A step that leaves ports and ships alone, and of the requests changes one
\* that is not about to write them, to one that keeps the steps of a reset.
LEMMA OtherStep ==
  ASSUME IInv, NEW c \in Parties, NEW r \in RequestType,
         request' = [request EXCEPT ![c] = r],
         r.at \in {"clear", "seed", "refresh", "fill"} => r.op = "reset",
         request[c].at = "seed" => db.seeds # {},
         db'.seeds = db.seeds, db'.fleets = db.fleets,
         IsDb(db'),
         restarts' = restarts, resets' \in Int, UNCHANGED <<up, cleared, died>>
  PROVE  IInv'
  <1>1. request' \in [Parties -> RequestType]
    BY DEF IInv, Shapes
  <1>2. \A d \in Parties : request'[d] = IF d = c THEN r ELSE request[d]
    BY DEF IInv, Shapes
  <1>3. Shapes'
    BY <1>1 DEF IInv, Shapes
  <1>4. StepsOfReset'
    BY <1>2 DEF IInv, StepsOfReset
  <1>5. PortsComing'
    BY <1>2 DEF IInv, PortsComing, Seeding
  <1>. QED
    BY <1>3, <1>4, <1>5 DEF IInv

\* An edit of rows touches neither ports nor requests.
LEMMA EditStep ==
  ASSUME IInv, NEW d, Edit(d), d.seeds = db.seeds, d.fleets = db.fleets, IsDb(d)
  PROVE  IInv'
  <1>1. /\ db' = d
        /\ UNCHANGED <<request, up, restarts, resets, cleared, died>>
    BY DEF Edit, Written, Committed
  <1>2. Shapes'
    BY <1>1 DEF IInv, Shapes
  <1>3. StepsOfReset' /\ PortsComing'
    BY <1>1 DEF IInv, StepsOfReset, PortsComing, Seeding
  <1>. QED
    BY <1>2, <1>3 DEF IInv

-----------------------------------------------------------------------------
\* A reset begins for a client, or for a start that found no port.
LEMMA ResetBeginsStep == ASSUME IInv, NEW c \in Parties, ResetBegins(c) PROVE IInv'
  <1> DEFINE r == [Idle EXCEPT !.op = "reset", !.at = "clear", !.seed = NewSeed(c)]
  <1>1. request[c] = Idle /\ request' = [request EXCEPT ![c] = r]
        /\ resets' \in Int /\ UNCHANGED <<db, up, restarts, cleared, died>>
    BY DEF ResetBegins, IInv, Shapes
  <1>2. NewSeed(c) \in Int
    BY MaxNumber DEF NewSeed, IInv, Shapes
  <1>3. r \in RequestType /\ r.op = "reset" /\ r.at = "clear"
    BY <1>2, IdleShape DEF RequestType
  <1>4. request[c].at # "seed"
    BY <1>1, IdleShape
  <1> HIDE DEF r
  <1>. QED
    BY <1>1, <1>3, <1>4, OtherStep DEF IInv, Shapes

\* The tables are emptied: the writing of the next ports is this reset's next step.
LEMMA ClearsStep == ASSUME IInv, NEW c \in Parties, Clears(c) PROVE IInv'
  <1>1. db' = Empty /\ request[c].at = "clear" /\ request' = [request EXCEPT ![c].at = "seed"]
        /\ cleared' = request[c].seed /\ restarts' = restarts /\ resets' = resets
    BY DEF Clears
  <1>2. request[c] \in RequestType /\ request[c].op = "reset"
    BY <1>1 DEF IInv, Shapes, StepsOfReset
  <1> DEFINE r == [request[c] EXCEPT !.at = "seed"]
  <1>3. r \in RequestType /\ r.op = "reset" /\ r.at = "seed" /\ r.seed = request[c].seed
    BY <1>2 DEF RequestType
  <1>4. request' = [request EXCEPT ![c] = r]
    BY <1>1
  <1> HIDE DEF r
  <1>5. request' \in [Parties -> RequestType] /\ request'[c] = r
        /\ \A d \in Parties : d # c => request'[d] = request[d]
    BY <1>3, <1>4 DEF IInv, Shapes
  <1>6. Shapes'
    BY <1>1, <1>5 DEF IInv, Shapes, IsDb, Empty
  <1>7. StepsOfReset'
    BY <1>3, <1>5 DEF IInv, StepsOfReset
  <1>8. PortsComing'
    BY <1>1, <1>3, <1>5 DEF PortsComing, Seeding
  <1>. QED
    BY <1>6, <1>7, <1>8 DEF IInv

\* Ports and ships are written, or the ships of another reset are there.
LEMMA SeedsFleetStep == ASSUME IInv, NEW c \in Parties, SeedsFleet(c) PROVE IInv'
  <1>1. request[c].at = "seed" /\ UNCHANGED <<up, restarts, resets, cleared, died>>
    BY DEF SeedsFleet
  <1>2. request[c] \in RequestType /\ request[c].op = "reset"
    BY <1>1 DEF IInv, Shapes, StepsOfReset
  <1>3. CASE CanSeed(db)
    <2> DEFINE r == [request[c] EXCEPT !.at = "refresh"]
    <2>1. request' = [request EXCEPT ![c] = r]
      BY <1>3 DEF SeedsFleet
    <2>2. r \in RequestType /\ r.op = "reset" /\ r.at = "refresh"
      BY <1>2 DEF RequestType
    <2> HIDE DEF r
    <2>3. request' \in [Parties -> RequestType] /\ request'[c] = r
          /\ \A d \in Parties : d # c => request'[d] = request[d]
      BY <2>1, <2>2 DEF IInv, Shapes
    <2> DEFINE s == request[c].seed
               v == Scheduled(BaseHorizon, BaseFirm, s, s)
               l == [p \in Ports |-> Lead]
    <2>4. db' = [db EXCEPT !.seeds = @ \cup {s}, !.fleets = @ \cup {s}, !.lead = l, !.voyages = v]
      BY <1>3 DEF SeedsFleet
    <2>5. s \in Int
      BY <1>2 DEF RequestType
    <2> HIDE DEF s, v, l
    <2>6. IsDb(db') /\ db'.seeds = db.seeds \cup {s} /\ db'.fleets = db.fleets \cup {s}
      BY <2>4 DEF IInv, Shapes, IsDb
    <2>7. Shapes'
      BY <1>1, <2>3, <2>5, <2>6 DEF IInv, Shapes
    <2>8. StepsOfReset'
      BY <2>2, <2>3 DEF IInv, StepsOfReset
    <2>9. PortsComing'
      BY <2>6 DEF PortsComing
    <2>. QED
      BY <2>7, <2>8, <2>9 DEF IInv
  <1>4. CASE ~CanSeed(db)
    <2>1. request' = [request EXCEPT ![c] = Idle] /\ db' = db
      BY <1>4 DEF SeedsFleet, Ends
    <2>2. db.seeds # {}
      BY <1>4 DEF CanSeed, IInv, Shapes
    <2>. QED
      BY <1>1, <2>1, <2>2, IdleShape, OtherStep DEF IInv, Shapes
  <1>. QED
    BY <1>3, <1>4

\* The rest of a reset writes neither ports nor ships.
LEMMA RefreshesStep == ASSUME IInv, NEW c \in Parties, Refreshes(c) PROVE IInv'
  <1>1. request[c].at = "refresh" /\ UNCHANGED <<db, up, restarts, resets, cleared, died>>
    BY DEF Refreshes
  <1>2. request[c] \in RequestType /\ request[c].op = "reset"
    BY <1>1 DEF IInv, Shapes, StepsOfReset
  <1> DEFINE r == [request[c] EXCEPT !.at = "fill"]
  <1>3. r \in RequestType /\ r.op = "reset"
    BY <1>2 DEF RequestType
  <1>4. request' = [request EXCEPT ![c] = r] \/ request' = [request EXCEPT ![c] = Idle]
    BY DEF Refreshes, Ends
  <1> HIDE DEF r
  <1>. QED
    BY <1>1, <1>3, <1>4, IdleShape, OtherStep DEF IInv, Shapes

LEMMA FillsStep == ASSUME IInv, NEW c \in Parties, Fills(c) PROVE IInv'
  <1>1. request[c].at = "fill" /\ request' = [request EXCEPT ![c] = Idle]
        /\ UNCHANGED <<up, restarts, resets, cleared, died>>
    BY DEF Fills, Ends
  <1> DEFINE k == db.bookings \o FixtureRows(request[c].seed)
             b == db.boxes \cup Numbered(request[c].seed)
  <1>2. db' = db \/ db' = [db EXCEPT !.bookings = k, !.boxes = b]
    BY DEF Fills
  <1> HIDE DEF k, b
  <1>3. IsDb(db') /\ db'.seeds = db.seeds /\ db'.fleets = db.fleets
    BY <1>2 DEF IInv, Shapes, IsDb
  <1>. QED
    BY <1>1, <1>3, IdleShape, OtherStep DEF IInv, Shapes

-----------------------------------------------------------------------------
\* A schedule run reads, and writes voyages only.
LEMMA GenerateStep == ASSUME IInv, NEW c \in Parties, Generate(c) PROVE IInv'
  <1>1. CASE GenerateBegins(c)
    <2> DEFINE r == [Idle EXCEPT !.op = "generate", !.at = "ports"]
    <2>1. request[c] = Idle /\ request' = [request EXCEPT ![c] = r]
          /\ UNCHANGED <<db, up, restarts, resets, cleared, died>>
      BY <1>1 DEF GenerateBegins
    <2>2. r \in RequestType /\ r.at = "ports"
      BY IdleShape DEF RequestType
    <2> HIDE DEF r
    <2>. QED
      BY <2>1, <2>2, IdleShape, OtherStep DEF IInv, Shapes
  <1>2. CASE GenerateReadsPorts(c)
    <2> DEFINE r == [request[c] EXCEPT !.at = "ships", !.ports = PortsRead(db)]
    <2>1. request[c].at = "ports" /\ request' = [request EXCEPT ![c] = r]
          /\ UNCHANGED <<db, up, restarts, resets, cleared, died>>
      BY <1>2 DEF GenerateReadsPorts, IInv, Shapes
    <2>2. r \in RequestType /\ r.at = "ships"
      BY ReadsNumber DEF IInv, Shapes, RequestType
    <2> HIDE DEF r
    <2>. QED
      BY <2>1, <2>2, OtherStep DEF IInv, Shapes
  <1>3. CASE GenerateReadsShips(c)
    <2> DEFINE r == [request[c] EXCEPT !.at = "write", !.ships = ShipsRead(db)]
    <2>1. request[c].at = "ships" /\ request' = [request EXCEPT ![c] = r]
          /\ UNCHANGED <<db, up, restarts, resets, cleared, died>>
      BY <1>3 DEF GenerateReadsShips, IInv, Shapes
    <2>2. r \in RequestType /\ r.at = "write"
      BY ReadsNumber DEF IInv, Shapes, RequestType
    <2> HIDE DEF r
    <2>. QED
      BY <2>1, <2>2, OtherStep DEF IInv, Shapes
  <1>4. CASE GenerateWrites(c)
    <2>1. request[c].at = "write" /\ request' = [request EXCEPT ![c] = Idle]
          /\ UNCHANGED <<up, restarts, resets, cleared, died>>
      BY <1>4 DEF GenerateWrites, Ends
    <2>2. PICK horizon \in Horizons, firm \in Firms :
             db' = [db EXCEPT !.voyages = Scheduled(horizon, firm, request[c].ports, request[c].ships)]
      BY <1>4 DEF GenerateWrites, Committed
    <2> DEFINE v == Scheduled(horizon, firm, request[c].ports, request[c].ships)
    <2>3. db' = [db EXCEPT !.voyages = v]
      BY <2>2
    <2> HIDE DEF v
    <2>4. IsDb(db') /\ db'.seeds = db.seeds /\ db'.fleets = db.fleets
      BY <2>3 DEF IInv, Shapes, IsDb
    <2>. QED
      BY <2>1, <2>4, IdleShape, OtherStep DEF IInv, Shapes
  <1>. QED
    BY <1>1, <1>2, <1>3, <1>4 DEF Generate

\* A booking or a box is inserted.
LEMMA InsertStep == ASSUME IInv, NEW c \in Parties, Insert(c) PROVE IInv'
  <1>1. CASE InsertBegins(c)
    <2>1. PICK op \in {"book", "add"} :
             request' = [request EXCEPT ![c] = [Idle EXCEPT !.op = op, !.at = "write", !.ports = PortsRead(db)]]
      BY <1>1 DEF InsertBegins
    <2> DEFINE r == [Idle EXCEPT !.op = op, !.at = "write", !.ports = PortsRead(db)]
    <2>2. request[c] = Idle /\ request' = [request EXCEPT ![c] = r]
          /\ UNCHANGED <<db, up, restarts, resets, cleared, died>>
      BY <1>1, <2>1 DEF InsertBegins
    <2>3. r \in RequestType /\ r.at = "write"
      BY ReadsNumber, IdleShape DEF IInv, RequestType
    <2> HIDE DEF r
    <2>. QED
      BY <2>2, <2>3, IdleShape, OtherStep DEF IInv, Shapes
  <1>2. CASE BookWrites(c) \/ AddWrites(c)
    <2>1. request[c].op # "reset" /\ request' = [request EXCEPT ![c] = Idle]
          /\ UNCHANGED <<up, restarts, resets, cleared, died>>
      BY <1>2 DEF BookWrites, AddWrites, Ends
    <2>2. request[c].at # "seed"
      BY <2>1 DEF IInv, StepsOfReset
    <2>3. \E k, b : db' = [db EXCEPT !.bookings = k] \/ db' = [db EXCEPT !.boxes = b]
      <3>1. CASE BookWrites(c)
        <4>1. PICK body \in NewBookings :
                 db' = [db EXCEPT !.bookings = Append(@, [seed |-> request[c].ports, body |-> body])]
          BY <3>1 DEF BookWrites, Committed
        <4>. QED
          BY <4>1
      <3>2. CASE AddWrites(c)
        <4>1. PICK p \in Ports :
                 db' = [db EXCEPT !.boxes = @ \cup {[name |-> <<p, "X", edits>>, port |-> p, seed |-> request[c].ports]}]
          BY <3>2 DEF AddWrites, Committed
        <4>. QED
          BY <4>1
      <3>. QED
        BY <1>2, <3>1, <3>2
    <2>4. IsDb(db') /\ db'.seeds = db.seeds /\ db'.fleets = db.fleets
      BY <2>3 DEF IInv, Shapes, IsDb
    <2>. QED
      BY <2>1, <2>2, <2>4, IdleShape, OtherStep DEF IInv, Shapes
  <1>. QED
    BY <1>1, <1>2 DEF Insert

\* An edit changes settings, voyages, bookings or boxes.
LEMMA AdminEdits ==
  ASSUME IInv, AdminEdit
  PROVE  \E d : Edit(d) /\ IsDb(d) /\ d.seeds = db.seeds /\ d.fleets = db.fleets
  <1>1. \E d : Edit(d) /\ \E v, k, b, l :
           \/ d = [db EXCEPT !.voyages = v] \/ d = [db EXCEPT !.bookings = k]
           \/ d = [db EXCEPT !.boxes = b] \/ d = [db EXCEPT !.lead = l]
    <2>2. CASE UpdateVoyage
      <3>1. PICK v \in Touched \cap DOMAIN db.voyages : Edit([db EXCEPT !.voyages[v].blank = ~@])
        BY <2>2 DEF UpdateVoyage
      <3>. QED
        BY <3>1
    <2>3. CASE UpdateLegTime
      <3>1. PICK v \in Touched \cap DOMAIN db.voyages, day \in DayEdits :
               \E i \in DOMAIN db.voyages[v].legs :
                  \/ Edit([db EXCEPT !.voyages[v].legs[i].departure = day])
                  \/ Edit([db EXCEPT !.voyages[v].legs[i].arrival = day])
        BY <2>3 DEF UpdateLegTime
      <3>2. PICK i \in DOMAIN db.voyages[v].legs :
               \/ Edit([db EXCEPT !.voyages[v].legs[i].departure = day])
               \/ Edit([db EXCEPT !.voyages[v].legs[i].arrival = day])
        BY <3>1
      <3>. QED
        BY <3>2
    <2>4. CASE UpdateLegCapacity
      <3>1. PICK v \in Touched \cap DOMAIN db.voyages, teu \in TeuEdits :
               \E i \in DOMAIN db.voyages[v].legs :
                  Edit([db EXCEPT !.voyages[v].legs[i] = [@ EXCEPT !.teu = teu, !.set = TRUE]])
        BY <2>4 DEF UpdateLegCapacity
      <3>2. PICK i \in DOMAIN db.voyages[v].legs :
               Edit([db EXCEPT !.voyages[v].legs[i] = [@ EXCEPT !.teu = teu, !.set = TRUE]])
        BY <3>1
      <3>. QED
        BY <3>2
    <2>5. CASE UpdateBooking
      <3>1. PICK i \in DOMAIN db.bookings, body \in NewBookings :
               Edit([db EXCEPT !.bookings[i].body =
                       [body EXCEPT !.origin = db.bookings[i].body.origin,
                                    !.destination = db.bookings[i].body.destination]])
        BY <2>5 DEF UpdateBooking
      <3>. QED
        BY <3>1
    <2>6. CASE DeleteBooking
      <3>1. PICK i \in DOMAIN db.bookings : Edit([db EXCEPT !.bookings = RemoveAt(@, i)])
        BY <2>6 DEF DeleteBooking
      <3>. QED
        BY <3>1
    <2>7. CASE RemoveBoxes
      <3>1. \E gone : Edit([db EXCEPT !.boxes = @ \ gone])
        BY <2>7 DEF RemoveBoxes
      <3>. QED
        BY <3>1
    <2>8. CASE UpdatePort
      <3>1. PICK p \in Ports, days \in LeadEdits : Edit([db EXCEPT !.lead[p] = days])
        BY <2>8 DEF UpdatePort
      <3>. QED
        BY <3>1
    <2>. QED
      BY <2>2, <2>3, <2>4, <2>5, <2>6, <2>7, <2>8 DEF AdminEdit
  <1>2. PICK d : Edit(d) /\ \E v, k, b, l :
           \/ d = [db EXCEPT !.voyages = v] \/ d = [db EXCEPT !.bookings = k]
           \/ d = [db EXCEPT !.boxes = b] \/ d = [db EXCEPT !.lead = l]
    BY <1>1
  <1>3. IsDb(d) /\ d.seeds = db.seeds /\ d.fleets = db.fleets
    BY <1>2 DEF IInv, Shapes, IsDb
  <1>. QED
    BY <1>2, <1>3

LEMMA AdminStep == ASSUME IInv, AdminEdit PROVE IInv'
  BY AdminEdits, EditStep

\* A reassignment reads, or writes voyages only, or dies.
LEMMA Reassignments ==
  ASSUME IInv, Reassign
  PROVE  /\ UNCHANGED <<request, up, restarts, resets, cleared, died>>
         /\ \/ UNCHANGED <<db, alone>>
            \/ alone' = FALSE /\ \E w : db' = [db EXCEPT !.voyages = w]
         /\ IsDb(db') /\ db'.seeds = db.seeds /\ db'.fleets = db.fleets /\ db'.lead = db.lead
         /\ db'.bookings = db.bookings /\ db'.boxes = db.boxes
  <1>1. CASE ReassignBegins
    BY <1>1 DEF ReassignBegins, IInv, Shapes
  <1>2. ASSUME NEW s \in reassignments, ReassignReadsLegs(s) \/ ReassignDies(s)
        PROVE  UNCHANGED <<db, request, up, restarts, resets, cleared, alone, died>>
    BY <1>2 DEF ReassignReadsLegs, ReassignDies
  <1>3. ASSUME NEW s \in reassignments, ReassignWrites(s)
        PROVE  /\ UNCHANGED <<request, up, restarts, resets, cleared, died>>
               /\ alone' = FALSE /\ \E w : db' = [db EXCEPT !.voyages = w]
    <2>1. PICK ship \in Ships, word \in Words :
             Written([db EXCEPT !.voyages[s.voyage] = Reassigned(@, s, ship, ShipsRead(db), word)])
      BY <1>3 DEF ReassignWrites
    <2>2. db' = [db EXCEPT !.voyages[s.voyage] = Reassigned(@, s, ship, ShipsRead(db), word)]
      BY <2>1 DEF Written, Committed
    <2>3. \E w : db' = [db EXCEPT !.voyages = w]
      BY <2>2
    <2>. QED
      BY <2>1, <2>3 DEF Written, Committed
  <1>4. /\ UNCHANGED <<request, up, restarts, resets, cleared, died>>
        /\ \/ UNCHANGED <<db, alone>>
           \/ alone' = FALSE /\ \E w : db' = [db EXCEPT !.voyages = w]
    BY <1>1, <1>2, <1>3 DEF Reassign, ReassignBegins
  <1>. QED
    BY <1>4 DEF IInv, Shapes, IsDb

LEMMA ReassignStep == ASSUME IInv, Reassign PROVE IInv'
  <1>1. /\ UNCHANGED <<request, up, restarts, resets, cleared, died>>
        /\ IsDb(db') /\ db'.seeds = db.seeds /\ db'.fleets = db.fleets
    BY Reassignments
  <1>2. Shapes'
    BY <1>1 DEF IInv, Shapes
  <1>3. StepsOfReset' /\ PortsComing'
    BY <1>1 DEF IInv, StepsOfReset, PortsComing, Seeding
  <1>. QED
    BY <1>2, <1>3 DEF IInv

\* A reset that dies is no longer about to write the ports, and is among the
\* ones that died if it was.
LEMMA DiesStep == ASSUME IInv, NEW c \in Parties, Dies(c) PROVE IInv'
  <1>1. /\ request' = [request EXCEPT ![c] = Idle]
        /\ died' = IF request[c].at = "seed" THEN died \cup {request[c].seed} ELSE died
        /\ UNCHANGED <<db, up, restarts, resets, cleared>>
    BY DEF Dies, Ends
  <1>2. request'[c] = Idle /\ \A d \in Parties : d # c => request'[d] = request[d]
    BY <1>1 DEF IInv, Shapes
  <1>3. Shapes'
    BY <1>1, IdleShape DEF IInv, Shapes
  <1>4. StepsOfReset'
    BY <1>2, IdleShape DEF IInv, StepsOfReset
  <1>5. PortsComing'
    <2>1. CASE Seeding(c)
      BY <1>1, <2>1 DEF PortsComing, Seeding
    <2>2. CASE ~Seeding(c)
      BY <1>1, <1>2, <2>2 DEF IInv, PortsComing, Seeding
    <2>. QED
      BY <2>1, <2>2
  <1>. QED
    BY <1>3, <1>4, <1>5 DEF IInv

\* The server stops, and comes up when it has found ports.
LEMMA StopStep == ASSUME IInv, Stop PROVE IInv'
  <1>1. ~up' /\ db' = db /\ restarts' \in Int /\ resets' = resets
    BY DEF Stop, IInv, Shapes
  <1>2. request' \in [Parties -> RequestType] /\ \A c \in Parties : request'[c].at = "none"
    BY IdleShape DEF Stop, IInv, Shapes
  <1>. QED
    BY <1>1, <1>2 DEF IInv, Shapes, StepsOfReset, PortsComing

LEMMA StartedStep == ASSUME IInv, Started PROVE IInv'
  <1>1. db.seeds # {} /\ db' = db /\ request' = request /\ restarts' = restarts /\ resets' = resets
    BY DEF Started, NeedsSeeding
  <1>. QED
    BY <1>1 DEF IInv, Shapes, StepsOfReset, PortsComing, Seeding

LEMMA NextInv == IInv /\ [Next]_vars => IInv'
  <1> SUFFICES ASSUME IInv, [Next]_vars PROVE IInv'
    OBVIOUS
  <1>1. CASE \E c \in Clients \cup {Starter} : Request(c)
    <2>1. PICK c \in Parties : Request(c)
      BY <1>1 DEF Parties
    <2>. QED
      BY <2>1, ResetBeginsStep, ClearsStep, SeedsFleetStep, RefreshesStep, FillsStep,
         GenerateStep, InsertStep DEF Request, Reset
  <1>2. CASE UNCHANGED vars
    BY <1>2 DEF vars, IInv, Shapes, StepsOfReset, PortsComing, Seeding
  <1>3. CASE \E c \in Clients \cup {Starter} : Dies(c)
    BY <1>3, DiesStep DEF Parties
  <1>. QED
    BY <1>1, <1>2, <1>3, AdminStep, ReassignStep, StopStep, StartedStep DEF Next

\* Whenever requests are served and no reset is under way, the ports are
\* there, unless the last reset to empty the tables has died before it wrote
\* them, for any number of clients, resets, restarts and edits: the property
\* the run checks.
THEOREM PortsServed == Spec => []PortsWheneverServed
  <1>1. IInv => PortsWheneverServed
    BY DEF IInv, Shapes, StepsOfReset, PortsComing, Seeding, PortsWheneverServed, Parties
  <1>. QED
    BY <1>1, InitInv, NextInv, PTL DEF Spec

\* At any moment the ports and the ships there are come from the same resets.
THEOREM FleetWithPorts == Spec => [](db.fleets = db.seeds)
  <1>1. IInv => db.fleets = db.seeds
    BY DEF IInv, Shapes
  <1>. QED
    BY <1>1, InitInv, NextInv, PTL DEF Spec

-----------------------------------------------------------------------------
(***************************************************************************)
(* Resets do not share their keys, and a start of the server makes one at  *)
(* most that ends: so who finds its key in cleared is the only one, and    *)
(* the tables hold what it has written so far.                             *)
(***************************************************************************)
Steps == {"clear", "seed", "refresh", "fill"}
Filling == {"refresh", "fill"}
StartSeed == MaxResets + 1 + restarts

SeedsInv ==
    /\ resets \in 0..MaxResets /\ restarts \in Nat
    /\ \A c \in Clients : request[c] # Idle => up
    /\ request[Starter] # Idle => ~up /\ request[Starter].at \in Steps
    /\ \A c \in Clients : request[c].at \in Steps => request[c].seed \in 1..resets
    /\ request[Starter].at \in Steps => request[Starter].seed = StartSeed
    /\ request[Starter].at \in Filling => db.seeds # {}
    /\ \A c, d \in Parties :
          request[c].at \in Steps /\ request[d].at \in Steps /\ request[c].seed = request[d].seed => c = d
    /\ cleared \in 0..resets \/ cleared \in MaxResets + 1..StartSeed
    /\ cleared = StartSeed => up \/ db.seeds # {} \/ request[Starter].at \in Steps

FleetOnly(s) ==
    [seeds |-> {s}, fleets |-> {s}, lead |-> [p \in Ports |-> Lead],
     voyages |-> Scheduled(BaseHorizon, BaseFirm, s, s), bookings |-> <<>>, boxes |-> {}]
Complete(s) ==
    [seeds |-> {s}, fleets |-> {s}, lead |-> [p \in Ports |-> Lead],
     voyages |-> Scheduled(BaseHorizon, BaseFirm, s, s),
     bookings |-> FixtureRows(s), boxes |-> Numbered(s)]

\* The tables of a reset that was not disturbed.
AloneInv ==
    /\ \A c \in Parties : request[c].at = "clear" => request[c].seed # cleared
    /\ alone => \/ db = Empty
                \/ cleared # 0 /\ (db = FleetOnly(cleared) \/ db = Complete(cleared))
    /\ alone => \A c \in Parties : request[c].seed = cleared =>
          /\ request[c].at = "seed" => db = Empty
          /\ request[c].at \in Filling => db = FleetOnly(cleared)

CrashInv == SeedsInv /\ AloneInv

LEMMA PartiesSplit ==
  Starter \in Parties /\ Starter \notin Clients /\ MaxResets \in Nat
  /\ \A c \in Parties : c \in Clients \/ c = Starter
  BY WorldAssumption DEF Parties

LEMMA InitCrash == Init => CrashInv
  <1> SUFFICES ASSUME Init PROVE CrashInv
    OBVIOUS
  <1>1. \A c \in Parties : request[c] = Idle /\ request[c].at = "none"
    BY IdleShape DEF Init, Parties
  <1>2. request[Starter] = Idle /\ \A c \in Clients : request[c] = Idle
    BY <1>1, PartiesSplit DEF Parties
  <1>3. SeedsInv
    BY <1>1, <1>2, PartiesSplit DEF Init, SeedsInv, Steps, Filling, StartSeed, Parties
  <1>4. AloneInv
    BY <1>1 DEF Init, AloneInv, Filling
  <1>. QED
    BY <1>3, <1>4 DEF CrashInv

\* One request goes on, with the key it has; others stay.
LEMMA SeedsGoOn ==
  ASSUME IInv, SeedsInv, NEW c \in Parties, NEW r, request[c] # Idle,
         request' = [request EXCEPT ![c] = r],
         r # Idle => (request[c].at \in Steps <=> r.at \in Steps) /\ r.seed = request[c].seed,
         c = Starter /\ request[c].at \in Steps /\ r.at \notin {"clear", "seed"} => db'.seeds # {},
         db.seeds # {} => db'.seeds # {},
         UNCHANGED <<up, restarts, resets, cleared>>
  PROVE  SeedsInv'
  <1>1. request'[c] = r /\ \A d \in Parties : d # c => request'[d] = request[d]
    BY DEF IInv, Shapes
  <1>2. Idle.at \notin Steps /\ Idle.at \notin Filling
    BY IdleShape DEF Steps, Filling
  <1>3. \A d \in Parties : /\ request'[d].at \in Steps => request[d].at \in Steps
                           /\ request'[d].at \in Steps => request'[d].seed = request[d].seed
                           /\ request'[d] # Idle => request[d] # Idle
    BY <1>1, <1>2
  <1>4. \A d \in Clients : d \in Parties
    BY DEF Parties
  <1>5. StartSeed' = StartSeed
    BY DEF StartSeed
  <1>6. request'[Starter] # Idle => request'[Starter].at \in Steps
    BY <1>1, PartiesSplit DEF SeedsInv
  <1>7. request'[Starter].at \in Filling => db'.seeds # {}
    <2>1. CASE c = Starter
      BY <1>1, <1>2, <2>1, PartiesSplit DEF SeedsInv, Filling, Steps
    <2>2. CASE c # Starter
      BY <1>1, <2>2, PartiesSplit DEF SeedsInv
    <2>. QED
      BY <2>1, <2>2
  <1>8. cleared = StartSeed => up \/ db'.seeds # {} \/ request'[Starter].at \in Steps
    <2>1. CASE c = Starter
      BY <1>1, <1>2, <2>1, IdleShape, PartiesSplit DEF SeedsInv
    <2>2. CASE c # Starter
      BY <1>1, <2>2, PartiesSplit DEF SeedsInv
    <2>. QED
      BY <2>1, <2>2
  <1>9. \A d, e \in Parties :
          request'[d].at \in Steps /\ request'[e].at \in Steps /\ request'[d].seed = request'[e].seed => d = e
    BY <1>3 DEF SeedsInv
  <1>10. \A d \in Clients : /\ request'[d] # Idle => up
                            /\ request'[d].at \in Steps => request'[d].seed \in 1..resets
    BY <1>3, <1>4 DEF SeedsInv
  <1>11. /\ request'[Starter] # Idle => ~up
         /\ request'[Starter].at \in Steps => request'[Starter].seed = StartSeed
    BY <1>3, PartiesSplit DEF SeedsInv
  <1>. QED
    BY <1>5, <1>6, <1>7, <1>8, <1>9, <1>10, <1>11 DEF SeedsInv

\* The tables stay, or somebody else has committed.
LEMMA AloneQuiet ==
  ASSUME IInv, AloneInv, NEW c \in Parties, NEW r,
         request' = [request EXCEPT ![c] = r],
         r.at \in Steps => r.seed = request[c].seed /\ r.at \in Filling /\ request[c].at \in Filling,
         (db' = db /\ alone' = alone) \/ alone' = FALSE, cleared' = cleared
  PROVE  AloneInv'
  <1>1. request'[c] = r /\ \A d \in Parties : d # c => request'[d] = request[d]
    BY DEF IInv, Shapes
  <1>2. \A d \in Parties : /\ request'[d].at = "clear" => request[d].at = "clear" /\ request'[d].seed = request[d].seed
                           /\ request'[d].at = "seed" => request[d].at = "seed" /\ request'[d].seed = request[d].seed
                           /\ request'[d].at \in Filling => request[d].at \in Filling /\ request'[d].seed = request[d].seed
    BY <1>1 DEF Steps, Filling
  <1>3. \A d \in Parties : request'[d].at = "clear" => request'[d].seed # cleared
    BY <1>2 DEF AloneInv
  <1>4. CASE db' = db /\ alone' = alone
    <2>1. ASSUME alone, NEW d \in Parties, request'[d].seed = cleared
          PROVE /\ request'[d].at = "seed" => db = Empty
                /\ request'[d].at \in Filling => db = FleetOnly(cleared)
      BY <1>2, <2>1 DEF AloneInv
    <2>2. FleetOnly(cleared)' = FleetOnly(cleared) /\ Complete(cleared)' = Complete(cleared)
      BY DEF FleetOnly, Complete
    <2>3. alone => \/ db = Empty
                   \/ cleared # 0 /\ (db = FleetOnly(cleared) \/ db = Complete(cleared))
      BY DEF AloneInv
    <2>. QED
      BY <1>3, <1>4, <2>1, <2>2, <2>3 DEF AloneInv
  <1>5. CASE alone' = FALSE
    BY <1>3, <1>5 DEF AloneInv
  <1>. QED
    BY <1>4, <1>5

\* Who is under way is a client that is served, or the start of the server.
LEMMA UnderWay ==
  ASSUME SeedsInv, NEW c \in Parties, request[c] # Idle
  PROVE  /\ c \in Clients => up
         /\ c = Starter => ~up /\ request[c].at \in Steps
  BY DEF SeedsInv

\* A step that goes on with a request, its key and its stage's kind.
LEMMA CrashGoesOn ==
  ASSUME IInv, CrashInv, NEW c \in Parties, NEW r, request[c] # Idle,
         request' = [request EXCEPT ![c] = r],
         r # Idle => (request[c].at \in Steps <=> r.at \in Steps) /\ r.seed = request[c].seed,
         r.at \in Steps => r.at \in Filling /\ request[c].at \in Filling,
         c = Starter => db'.seeds # {},
         db'.seeds = db.seeds,
         (db' = db /\ alone' = alone) \/ alone' = FALSE,
         UNCHANGED <<up, restarts, resets, cleared>>
  PROVE  CrashInv'
  <1>1. SeedsInv'
    BY SeedsGoOn DEF CrashInv
  <1>2. r.at \in Steps => r # Idle
    BY IdleShape DEF Steps
  <1>3. AloneInv'
    BY <1>2, AloneQuiet DEF CrashInv
  <1>. QED
    BY <1>1, <1>3 DEF CrashInv

LEMMA ResetBeginsCrash == ASSUME IInv, CrashInv, NEW c \in Parties, ResetBegins(c) PROVE CrashInv'
  <1> DEFINE r == [Idle EXCEPT !.op = "reset", !.at = "clear", !.seed = NewSeed(c)]
  <1>1. request[c] = Idle /\ request' = [request EXCEPT ![c] = r]
        /\ UNCHANGED <<db, up, restarts, edits, cleared, alone>>
    BY DEF ResetBegins
  <1>2. r.at = "clear" /\ r.seed = NewSeed(c)
    BY DEF Idle
  <1> HIDE DEF r
  <1>3. request'[c] = r /\ \A d \in Parties : d # c => request'[d] = request[d]
    BY <1>1 DEF IInv, Shapes
  <1>4. request[c].at \notin Steps
    BY <1>1, IdleShape DEF Steps
  <1>5. r.at \in Steps /\ r.at \notin Filling
    BY <1>2 DEF Steps, Filling
  <1>6. /\ resets \in 0..MaxResets /\ resets' \in 0..MaxResets /\ resets <= resets'
        /\ MaxResets \in Nat /\ restarts \in Nat /\ StartSeed = MaxResets + 1 + restarts
        /\ StartSeed' = StartSeed
    BY PartiesSplit DEF ResetBegins, CrashInv, SeedsInv, StartSeed
  <1>7. \/ c \in Clients /\ up /\ c # Starter /\ resets' = resets + 1 /\ r.seed = resets'
        \/ c = Starter /\ ~up /\ db.seeds = {} /\ resets' = resets /\ r.seed = StartSeed
    BY <1>2, <1>6, PartiesSplit DEF ResetBegins, NewSeed, NeedsSeeding, Parties
  <1>8. \A d \in Parties : d # c /\ request[d].at \in Steps => request[d].seed # r.seed
    <2> SUFFICES ASSUME NEW d \in Parties, d # c, request[d].at \in Steps
                 PROVE  request[d].seed # r.seed
      OBVIOUS
    <2>1. request[d] # Idle
      BY IdleShape DEF Steps
    <2>2. CASE d \in Clients
      <3>1. up /\ request[d].seed \in 1..resets
        BY <2>1, <2>2 DEF CrashInv, SeedsInv
      <3>. QED
        BY <3>1, <1>6, <1>7
    <2>3. CASE d = Starter
      <3>1. ~up
        BY <2>1, <2>3 DEF CrashInv, SeedsInv
      <3>. QED
        BY <3>1, <1>7, <2>3
    <2>. QED
      BY <2>2, <2>3, PartiesSplit
  <1>9. r.seed # cleared
    <2>1. cleared \in 0..resets \/ cleared \in MaxResets + 1..StartSeed
      BY DEF CrashInv, SeedsInv
    <2>2. CASE c \in Clients /\ r.seed = resets' /\ resets' = resets + 1
      BY <1>6, <2>1, <2>2
    <2>3. CASE c = Starter /\ ~up /\ db.seeds = {} /\ r.seed = StartSeed
      BY <1>4, <2>3 DEF CrashInv, SeedsInv
    <2>. QED
      BY <1>7, <2>2, <2>3
  <1>10. SeedsInv'
    <2>1. \A d \in Clients : request'[d] # Idle => up
      BY <1>3, <1>7, PartiesSplit DEF CrashInv, SeedsInv, Parties
    <2>2. request'[Starter] # Idle => ~up /\ request'[Starter].at \in Steps
      BY <1>3, <1>5, <1>7, PartiesSplit DEF CrashInv, SeedsInv
    <2>3. \A d \in Clients : request'[d].at \in Steps => request'[d].seed \in 1..resets'
      <3> SUFFICES ASSUME NEW d \in Clients, request'[d].at \in Steps
                   PROVE  request'[d].seed \in 1..resets'
        OBVIOUS
      <3>1. CASE d = c
        BY <3>1, <1>3, <1>6, <1>7, PartiesSplit
      <3>2. CASE d # c
        <4>1. request[d].seed \in 1..resets
          BY <1>3, <3>2 DEF CrashInv, SeedsInv, Parties
        <4>. QED
          BY <1>3, <1>6, <3>2, <4>1 DEF Parties
      <3>. QED
        BY <3>1, <3>2
    <2>4. request'[Starter].at \in Steps => request'[Starter].seed = StartSeed
      BY <1>3, <1>7, PartiesSplit DEF CrashInv, SeedsInv
    <2>5. request'[Starter].at \in Filling => db.seeds # {}
      BY <1>3, <1>5, PartiesSplit DEF CrashInv, SeedsInv
    <2>6. \A d, e \in Parties :
            request'[d].at \in Steps /\ request'[e].at \in Steps /\ request'[d].seed = request'[e].seed => d = e
      BY <1>3, <1>8 DEF CrashInv, SeedsInv
    <2>7. cleared \in 0..resets' \/ cleared \in MaxResets + 1..StartSeed
      BY <1>6 DEF CrashInv, SeedsInv
    <2>8. cleared = StartSeed => up \/ db.seeds # {} \/ request'[Starter].at \in Steps
      BY <1>3, <1>5, PartiesSplit DEF CrashInv, SeedsInv
    <2>. QED
      BY <1>1, <1>6, <2>1, <2>2, <2>3, <2>4, <2>5, <2>6, <2>7, <2>8 DEF SeedsInv
  <1>11. AloneInv'
    <2>1. \A d \in Parties : request'[d].at = "clear" => request'[d].seed # cleared
      BY <1>3, <1>9 DEF CrashInv, AloneInv
    <2>2. alone => \/ db = Empty
                   \/ cleared # 0 /\ (db = FleetOnly(cleared) \/ db = Complete(cleared))
      BY DEF CrashInv, AloneInv
    <2>3. alone => \A d \in Parties : request'[d].seed = cleared =>
            /\ request'[d].at = "seed" => db = Empty
            /\ request'[d].at \in Filling => db = FleetOnly(cleared)
      BY <1>2, <1>3, <1>9 DEF CrashInv, AloneInv
    <2>4. FleetOnly(cleared)' = FleetOnly(cleared) /\ Complete(cleared)' = Complete(cleared)
      BY <1>1 DEF FleetOnly, Complete
    <2>. QED
      BY <1>1, <2>1, <2>2, <2>3, <2>4 DEF AloneInv
  <1>. QED
    BY <1>10, <1>11 DEF CrashInv

LEMMA ClearsCrash == ASSUME IInv, CrashInv, NEW c \in Parties, Clears(c) PROVE CrashInv'
  <1>1. request[c].at = "clear" /\ db' = Empty /\ cleared' = request[c].seed
        /\ request' = [request EXCEPT ![c].at = "seed"] /\ UNCHANGED <<up, restarts, resets>>
    BY DEF Clears
  <1>2. request[c] \in RequestType /\ request[c] # Idle /\ request[c].at \in Steps
    BY <1>1, IdleShape DEF IInv, Shapes, Steps
  <1>3. /\ request'[c].at = "seed" /\ request'[c].seed = request[c].seed
        /\ \A d \in Parties : d # c => request'[d] = request[d]
    BY <1>1, <1>2 DEF IInv, Shapes, RequestType
  <1>4. request'[c].at \in Steps /\ request'[c].at \notin Filling
    BY <1>3 DEF Steps, Filling
  <1>5. StartSeed' = StartSeed /\ MaxResets \in Nat /\ restarts \in Nat
        /\ StartSeed = MaxResets + 1 + restarts /\ resets \in 0..MaxResets
    BY <1>1, PartiesSplit DEF StartSeed, CrashInv, SeedsInv
  <1>6. \A d \in Parties : request'[d].at \in Steps => request[d].at \in Steps /\ request'[d].seed = request[d].seed
    BY <1>2, <1>3
  <1>7. \A d, e \in Parties :
            request'[d].at \in Steps /\ request'[e].at \in Steps /\ request'[d].seed = request'[e].seed => d = e
    BY <1>6 DEF CrashInv, SeedsInv
  <1>8. \A d \in Clients : /\ request'[d] # Idle => up
                           /\ request'[d].at \in Steps => request'[d].seed \in 1..resets
    <2>1. \A d \in Clients : request'[d] # Idle => request[d] # Idle
      BY <1>2, <1>3 DEF Parties
    <2>. QED
      BY <1>6, <2>1 DEF CrashInv, SeedsInv, Parties
  <1>9. /\ request'[Starter] # Idle => ~up /\ request'[Starter].at \in Steps
        /\ request'[Starter].at \in Steps => request'[Starter].seed = StartSeed
    BY <1>2, <1>3, <1>4, <1>6, PartiesSplit DEF CrashInv, SeedsInv
  <1>10. request'[Starter].at \notin Filling
    <2>1. CASE c = Starter
      BY <1>4, <2>1
    <2>2. CASE c # Starter
      <3>1. up
        BY <1>2, <2>2, PartiesSplit, UnderWay DEF CrashInv
      <3>2. request[Starter] = Idle
        BY <3>1 DEF CrashInv, SeedsInv
      <3>. QED
        BY <1>3, <2>2, <3>2, PartiesSplit, IdleShape DEF Filling
    <2>. QED
      BY <2>1, <2>2
  <1>11. /\ cleared' \in 0..resets \/ cleared' \in MaxResets + 1..StartSeed
         /\ cleared' = StartSeed => up \/ request'[Starter].at \in Steps
    <2>1. CASE c \in Clients
      <3>1. cleared' \in 1..resets /\ up
        BY <1>1, <1>2, <2>1 DEF CrashInv, SeedsInv
      <3>. QED
        BY <1>5, <3>1
    <2>2. CASE c = Starter
      <3>1. cleared' = StartSeed
        BY <1>1, <1>2, <2>2 DEF CrashInv, SeedsInv
      <3>. QED
        BY <1>4, <1>5, <2>2, <3>1
    <2>. QED
      BY <2>1, <2>2, PartiesSplit
  <1>12. SeedsInv'
    BY <1>1, <1>5, <1>7, <1>8, <1>9, <1>10, <1>11 DEF SeedsInv
  <1>13. AloneInv'
    <2>1. \A d \in Parties : request'[d].at = "clear" => request'[d].seed # cleared'
      <3> SUFFICES ASSUME NEW d \in Parties, request'[d].at = "clear" PROVE request'[d].seed # cleared'
        OBVIOUS
      <3>1. d # c
        BY <1>3
      <3>2. request'[d] = request[d] /\ request[d].at \in Steps
        BY <1>3, <3>1 DEF Steps
      <3>. QED
        BY <1>1, <1>2, <3>1, <3>2 DEF CrashInv, SeedsInv
    <2>2. \A d \in Parties : request'[d].seed = cleared' => request'[d].at \notin Filling
      <3> SUFFICES ASSUME NEW d \in Parties, request'[d].seed = cleared', request'[d].at \in Filling
                   PROVE  FALSE
        OBVIOUS
      <3>1. request'[d].at \in Steps
        BY DEF Filling, Steps
      <3>2. d = c
        BY <1>1, <1>3, <1>4, <1>7, <3>1
      <3>. QED
        BY <1>4, <3>2
    <2>. QED
      BY <1>1, <2>1, <2>2 DEF AloneInv
  <1>. QED
    BY <1>12, <1>13 DEF CrashInv

\* The keys of resets under way are numbers from one.
LEMMA KeyIsPositive ==
  ASSUME SeedsInv, NEW c \in Parties, request[c].at \in Steps
  PROVE  request[c].seed \in Nat /\ request[c].seed # 0
  <1>1. CASE c \in Clients
    <2>1. request[c].seed \in 1..resets /\ resets \in 0..MaxResets
      BY <1>1 DEF SeedsInv
    <2>. QED
      BY <2>1, PartiesSplit
  <1>2. CASE c = Starter
    BY <1>2, PartiesSplit DEF SeedsInv, StartSeed
  <1>. QED
    BY <1>1, <1>2, PartiesSplit

\* A reset adds to the six tables in two transactions.
LEMMA FleetAdded ==
  ASSUME NEW e, NEW r, NEW s0, NEW f0, NEW l0, NEW v0, NEW k0, NEW b0, NEW s, NEW f, NEW l, NEW v,
         e = [seeds |-> s0, fleets |-> f0, lead |-> l0, voyages |-> v0, bookings |-> k0, boxes |-> b0],
         r = [e EXCEPT !.seeds = @ \cup s, !.fleets = @ \cup f, !.lead = l, !.voyages = v]
  PROVE  r = [seeds |-> s0 \cup s, fleets |-> f0 \cup f, lead |-> l, voyages |-> v,
              bookings |-> k0, boxes |-> b0]
  <1>1. IsDb(r)
    BY DEF IsDb
  <1>2. r.seeds = s0 \cup s /\ r.fleets = f0 \cup f /\ r.lead = l /\ r.voyages = v
    OBVIOUS
  <1>3. r.bookings = k0 /\ r.boxes = b0
    OBVIOUS
  <1>. QED
    BY <1>1, <1>2, <1>3 DEF IsDb

LEMMA RowsAdded ==
  ASSUME NEW e, NEW r, NEW s0, NEW f0, NEW l0, NEW v0, NEW k0, NEW b0, NEW k, NEW b,
         e = [seeds |-> s0, fleets |-> f0, lead |-> l0, voyages |-> v0, bookings |-> k0, boxes |-> b0],
         r = [e EXCEPT !.bookings = k, !.boxes = b]
  PROVE  r = [seeds |-> s0, fleets |-> f0, lead |-> l0, voyages |-> v0, bookings |-> k, boxes |-> b]
  <1>1. IsDb(r)
    BY DEF IsDb
  <1>2. r.seeds = s0 /\ r.fleets = f0 /\ r.lead = l0 /\ r.voyages = v0
    OBVIOUS
  <1>3. r.bookings = k /\ r.boxes = b
    OBVIOUS
  <1>. QED
    BY <1>1, <1>2, <1>3 DEF IsDb

LEMMA SeedsFleetCrash == ASSUME IInv, CrashInv, NEW c \in Parties, SeedsFleet(c) PROVE CrashInv'
  <1> DEFINE s == request[c].seed
  <1>1. request[c].at = "seed" /\ UNCHANGED <<up, restarts, resets, cleared>>
    BY DEF SeedsFleet
  <1>2. request[c] \in RequestType /\ request[c] # Idle /\ request[c].at \in Steps
        /\ request[c].at \notin Filling
    BY <1>1, IdleShape DEF IInv, Shapes, Steps, Filling
  <1>3. CASE CanSeed(db)
    <2> DEFINE r == [request[c] EXCEPT !.at = "refresh"]
    <2>1. request' = [request EXCEPT ![c] = r] /\ alone' = (alone /\ cleared = s)
      BY <1>3 DEF SeedsFleet
    <2>2. r.at = "refresh" /\ r.seed = s
      BY <1>2 DEF RequestType
    <2> HIDE DEF r
    <2>3. r.at \in Steps /\ r.at \in Filling /\ r.at # "seed" /\ r.at # "clear"
      BY <2>2 DEF Steps, Filling
    <2>4. request'[c] = r /\ \A d \in Parties : d # c => request'[d] = request[d]
      BY <2>1 DEF IInv, Shapes
    <2> DEFINE v == Scheduled(BaseHorizon, BaseFirm, s, s)
               l == [p \in Ports |-> Lead]
    <2>5. db' = [db EXCEPT !.seeds = @ \cup {s}, !.fleets = @ \cup {s}, !.lead = l, !.voyages = v]
      BY <1>3 DEF SeedsFleet
    <2>6. FleetOnly(s) = [seeds |-> {s}, fleets |-> {s}, lead |-> l, voyages |-> v,
                          bookings |-> <<>>, boxes |-> {}]
      BY DEF FleetOnly
    <2> HIDE DEF v, l, s
    <2>7. db'.seeds = db.seeds \cup {s}
      BY <2>5 DEF IInv, Shapes, IsDb
    <2>8. SeedsInv'
      BY <1>1, <1>2, <2>1, <2>2, <2>3, <2>7, SeedsGoOn DEF CrashInv, s
    <2>9. db = Empty => db' = FleetOnly(s)
      <3> SUFFICES ASSUME db = Empty PROVE db' = FleetOnly(s)
        OBVIOUS
      <3>1. PICK e : e = db
        OBVIOUS
      <3>2. e = [seeds |-> {}, fleets |-> {}, lead |-> l, voyages |-> <<>>, bookings |-> <<>>, boxes |-> {}]
        BY <3>1 DEF Empty, l
      <3>3. PICK f : f = [e EXCEPT !.seeds = @ \cup {s}, !.fleets = @ \cup {s}, !.lead = l, !.voyages = v]
        OBVIOUS
      <3>4. f = [seeds |-> {} \cup {s}, fleets |-> {} \cup {s}, lead |-> l, voyages |-> v,
                 bookings |-> <<>>, boxes |-> {}]
        BY <3>2, <3>3, FleetAdded, Zenon
      <3>5. {} \cup {s} = {s}
        OBVIOUS
      <3>6. db' = f
        BY <2>5, <3>1, <3>3
      <3>. QED
        BY <2>6, <3>4, <3>5, <3>6
    <2>10. \A d \in Parties : request'[d].at = "clear" => request'[d].seed # cleared
      BY <2>3, <2>4 DEF CrashInv, AloneInv
    <2>11. CASE alone /\ cleared = s
      <3>1. db' = FleetOnly(s)
        BY <1>1, <2>9, <2>11 DEF CrashInv, AloneInv, s
      <3>2. s # 0
        BY <1>2, KeyIsPositive DEF CrashInv, s
      <3>3. \A d \in Parties : request'[d].seed = cleared => request'[d].at # "seed"
        <4> SUFFICES ASSUME NEW d \in Parties, request'[d].seed = cleared, request'[d].at = "seed"
                     PROVE  FALSE
          OBVIOUS
        <4>1. d # c /\ request[d].at \in Steps /\ request[d].seed = s
          BY <2>3, <2>4, <2>11 DEF Steps
        <4>. QED
          BY <4>1, <1>2 DEF CrashInv, SeedsInv, s
      <3>4. FleetOnly(cleared)' = FleetOnly(cleared)
        BY <1>1 DEF FleetOnly
      <3>5. AloneInv'
        BY <1>1, <2>10, <2>11, <3>1, <3>2, <3>3, <3>4 DEF AloneInv
      <3>. QED
        BY <2>8, <3>5 DEF CrashInv
    <2>12. CASE ~(alone /\ cleared = s)
      <3>1. AloneInv'
        BY <1>1, <2>1, <2>10, <2>12 DEF AloneInv
      <3>. QED
        BY <2>8, <3>1 DEF CrashInv
    <2>. QED
      BY <2>11, <2>12
  <1>4. CASE ~CanSeed(db)
    <2>1. request' = [request EXCEPT ![c] = Idle] /\ db' = db /\ alone' = alone
      BY <1>4 DEF SeedsFleet, Ends
    <2>2. db.seeds # {}
      BY <1>4 DEF CanSeed, IInv, Shapes
    <2>3. Idle.at \notin Steps
      BY IdleShape DEF Steps
    <2>4. SeedsInv'
      BY <1>1, <1>2, <2>1, <2>2, SeedsGoOn DEF CrashInv
    <2>5. AloneInv'
      BY <1>1, <2>1, <2>3, AloneQuiet DEF CrashInv
    <2>. QED
      BY <2>4, <2>5 DEF CrashInv
  <1>. QED
    BY <1>3, <1>4

LEMMA RefreshesCrash == ASSUME IInv, CrashInv, NEW c \in Parties, Refreshes(c) PROVE CrashInv'
  <1>1. request[c].at = "refresh" /\ UNCHANGED <<db, up, restarts, edits, resets, cleared, alone>>
    BY DEF Refreshes
  <1>2. request[c] \in RequestType /\ request[c] # Idle
        /\ request[c].at \in Steps /\ request[c].at \in Filling
    BY <1>1, IdleShape DEF IInv, Shapes, Steps, Filling
  <1>3. c = Starter => db'.seeds # {}
    BY <1>1, <1>2 DEF CrashInv, SeedsInv
  <1>4. Idle.at \notin Steps
    BY IdleShape DEF Steps
  <1> DEFINE r == [request[c] EXCEPT !.at = "fill"]
  <1>5. request' = [request EXCEPT ![c] = r] \/ request' = [request EXCEPT ![c] = Idle]
    BY DEF Refreshes, Ends
  <1>6. r.at \in Steps /\ r.at \in Filling /\ r.seed = request[c].seed
    BY <1>2 DEF RequestType, Steps, Filling
  <1> HIDE DEF r
  <1>7. CASE request' = [request EXCEPT ![c] = r]
    BY <1>1, <1>2, <1>3, <1>6, <1>7, CrashGoesOn
  <1>8. CASE request' = [request EXCEPT ![c] = Idle]
    BY <1>1, <1>2, <1>3, <1>4, <1>8, CrashGoesOn
  <1>. QED
    BY <1>5, <1>7, <1>8

LEMMA FillsCrash == ASSUME IInv, CrashInv, NEW c \in Parties, Fills(c) PROVE CrashInv'
  <1> DEFINE s == request[c].seed
             k == db.bookings \o FixtureRows(s)
             b == db.boxes \cup Numbered(s)
  <1>1. request[c].at = "fill" /\ request' = [request EXCEPT ![c] = Idle]
        /\ UNCHANGED <<up, restarts, resets, cleared>>
    BY DEF Fills, Ends
  <1>2. request[c] \in RequestType /\ request[c] # Idle
        /\ request[c].at \in Steps /\ request[c].at \in Filling
    BY <1>1, IdleShape DEF IInv, Shapes, Steps, Filling
  <1>3. Idle.at \notin Steps /\ Idle.at \notin Filling /\ Idle.at # "clear" /\ Idle.at # "seed"
    BY IdleShape DEF Steps, Filling
  <1>4. \/ db' = db /\ alone' = alone
        \/ db' = [db EXCEPT !.bookings = k, !.boxes = b] /\ alone' = (alone /\ cleared = s)
    BY DEF Fills
  <1>5. db'.seeds = db.seeds
    <2> HIDE DEF k, b
    <2>. QED
      BY <1>4 DEF IInv, Shapes, IsDb
  <1>6. c = Starter => db'.seeds # {}
    BY <1>2, <1>5 DEF CrashInv, SeedsInv
  <1>7. CASE (db' = db /\ alone' = alone) \/ alone' = FALSE
    BY <1>1, <1>2, <1>3, <1>5, <1>6, <1>7, CrashGoesOn
  <1>8. CASE alone /\ cleared = s /\ alone' /\ db' = [db EXCEPT !.bookings = k, !.boxes = b]
    <2>1. SeedsInv'
      BY <1>1, <1>2, <1>3, <1>5, <1>6, SeedsGoOn DEF CrashInv
    <2>2. db = FleetOnly(s)
      BY <1>2, <1>8 DEF CrashInv, AloneInv
    <2>3. k = FixtureRows(s) /\ b = Numbered(s)
      <3>1. db.bookings = <<>> /\ db.boxes = {}
        BY <2>2 DEF FleetOnly
      <3>2. FixtureRows(s) \in Seq([seed : {s}, body : Cargo])
        <4>1. FixtureBookings \in Seq(Cargo)
          BY WorldAssumption
        <4>2. Len(FixtureBookings) \in Nat /\ DOMAIN FixtureBookings = 1..Len(FixtureBookings)
          BY <4>1, LenProperties
        <4>3. \A i \in DOMAIN FixtureBookings :
                 [seed |-> s, body |-> FixtureBookings[i]] \in [seed : {s}, body : Cargo]
          BY <4>1, <4>2, ElementOfSeq
        <4>. QED
          BY <4>2, <4>3, IsASeq DEF FixtureRows
      <3>3. <<>> \o FixtureRows(s) = FixtureRows(s)
        BY <3>2, ConcatEmptySeq
      <3>. QED
        BY <3>1, <3>3
    <2>4. db' = Complete(s)
      <3> DEFINE v == Scheduled(BaseHorizon, BaseFirm, s, s)
                 l == [p \in Ports |-> Lead]
      <3>1. db = [seeds |-> {s}, fleets |-> {s}, lead |-> l, voyages |-> v,
                  bookings |-> <<>>, boxes |-> {}]
        BY <2>2 DEF FleetOnly
      <3>2. Complete(s) = [seeds |-> {s}, fleets |-> {s}, lead |-> l, voyages |-> v,
                           bookings |-> FixtureRows(s), boxes |-> Numbered(s)]
        BY DEF Complete
      <3>3. k = FixtureRows(s) /\ b = Numbered(s)
        BY <2>3
      <3>4. db' = [db EXCEPT !.bookings = k, !.boxes = b]
        BY <1>8
      <3> HIDE DEF v, l, k, b, s
      <3>5. PICK e : e = db
        OBVIOUS
      <3>6. PICK r : r = [e EXCEPT !.bookings = k, !.boxes = b]
        OBVIOUS
      <3>7. e = [seeds |-> {s}, fleets |-> {s}, lead |-> l, voyages |-> v, bookings |-> <<>>, boxes |-> {}]
        BY <3>1, <3>5
      <3>8. r = [seeds |-> {s}, fleets |-> {s}, lead |-> l, voyages |-> v, bookings |-> k, boxes |-> b]
        BY <3>6, <3>7, RowsAdded, Zenon
      <3>9. db' = r
        BY <3>4, <3>5, <3>6
      <3>. QED
        BY <3>2, <3>3, <3>8, <3>9
    <2>5. request'[c] = Idle /\ \A d \in Parties : d # c => request'[d] = request[d]
      BY <1>1 DEF IInv, Shapes
    <2>6. \A d \in Parties : request'[d].at = "clear" => request'[d].seed # cleared
      BY <1>3, <2>5 DEF CrashInv, AloneInv
    <2>7. \A d \in Parties : request'[d].seed = cleared => request'[d].at \notin Steps
      <3> SUFFICES ASSUME NEW d \in Parties, request'[d].seed = cleared, request'[d].at \in Steps
                   PROVE  FALSE
        OBVIOUS
      <3>1. d # c /\ request[d].at \in Steps /\ request[d].seed = s
        BY <1>3, <1>8, <2>5
      <3>. QED
        BY <1>2, <3>1 DEF CrashInv, SeedsInv
    <2>8. s # 0
      BY <1>2, KeyIsPositive DEF CrashInv
    <2>9. Complete(cleared)' = Complete(cleared)
      BY <1>1 DEF Complete
    <2>10. AloneInv'
      BY <1>1, <1>8, <2>4, <2>6, <2>7, <2>8, <2>9 DEF AloneInv, Steps, Filling
    <2>. QED
      BY <2>1, <2>10 DEF CrashInv
  <1>. QED
    BY <1>4, <1>7, <1>8 DEF CrashInv, AloneInv

\* A request of another kind begins.
LEMMA OtherBegins ==
  ASSUME IInv, CrashInv, NEW c \in Clients, NEW r, up,
         request' = [request EXCEPT ![c] = r], r.at \notin Steps,
         UNCHANGED <<db, up, restarts, resets, cleared, alone>>
  PROVE  CrashInv'
  <1>1. c \in Parties /\ c # Starter
    BY PartiesSplit DEF Parties
  <1>2. request'[c] = r /\ \A d \in Parties : d # c => request'[d] = request[d]
    BY <1>1 DEF IInv, Shapes
  <1>3. \A d \in Parties : request'[d].at \in Steps => request'[d] = request[d]
    BY <1>2
  <1>4. request'[Starter] = request[Starter]
    BY <1>1, <1>2, PartiesSplit
  <1>5. \A d \in Clients : request'[d].at \in Steps => request'[d].seed \in 1..resets
    BY <1>3 DEF CrashInv, SeedsInv, Parties
  <1>6. \A d, e \in Parties :
          request'[d].at \in Steps /\ request'[e].at \in Steps /\ request'[d].seed = request'[e].seed => d = e
    BY <1>3 DEF CrashInv, SeedsInv
  <1>7. StartSeed' = StartSeed
    BY DEF StartSeed
  <1>8. SeedsInv'
    BY <1>4, <1>5, <1>6, <1>7 DEF CrashInv, SeedsInv
  <1>9. AloneInv'
    BY <1>1, AloneQuiet DEF CrashInv
  <1>. QED
    BY <1>8, <1>9 DEF CrashInv

LEMMA GenerateCrash == ASSUME IInv, CrashInv, NEW c \in Parties, Generate(c) PROVE CrashInv'
  <1>1. CASE GenerateBegins(c)
    <2> DEFINE r == [Idle EXCEPT !.op = "generate", !.at = "ports"]
    <2>1. c \in Clients /\ up /\ request' = [request EXCEPT ![c] = r]
          /\ UNCHANGED <<db, up, restarts, resets, cleared, alone>>
      BY <1>1, PartiesSplit DEF GenerateBegins
    <2>2. r.at \notin Steps
      BY DEF Idle, Steps
    <2> HIDE DEF r
    <2>. QED
      BY <2>1, <2>2, OtherBegins
  <1>2. CASE GenerateReadsPorts(c)
    <2> DEFINE r == [request[c] EXCEPT !.at = "ships", !.ports = PortsRead(db)]
    <2>1. request[c].at = "ports" /\ request' = [request EXCEPT ![c] = r]
          /\ UNCHANGED <<db, up, restarts, resets, cleared, alone>>
      BY <1>2 DEF GenerateReadsPorts, IInv, Shapes
    <2>2. request[c] # Idle /\ request[c].at \notin Steps /\ request[c] \in RequestType
      BY <2>1, IdleShape DEF Steps, IInv, Shapes
    <2>3. r.at \notin Steps /\ r.seed = request[c].seed
      BY <2>2 DEF RequestType, Steps
    <2> HIDE DEF r
    <2>4. c # Starter
      BY <2>2 DEF CrashInv, SeedsInv
    <2>. QED
      BY <2>1, <2>2, <2>3, <2>4, CrashGoesOn
  <1>3. CASE GenerateReadsShips(c)
    <2> DEFINE r == [request[c] EXCEPT !.at = "write", !.ships = ShipsRead(db)]
    <2>1. request[c].at = "ships" /\ request' = [request EXCEPT ![c] = r]
          /\ UNCHANGED <<db, up, restarts, resets, cleared, alone>>
      BY <1>3 DEF GenerateReadsShips, IInv, Shapes
    <2>2. request[c] # Idle /\ request[c].at \notin Steps /\ request[c] \in RequestType
      BY <2>1, IdleShape DEF Steps, IInv, Shapes
    <2>3. r.at \notin Steps /\ r.seed = request[c].seed
      BY <2>2 DEF RequestType, Steps
    <2> HIDE DEF r
    <2>4. c # Starter
      BY <2>2 DEF CrashInv, SeedsInv
    <2>. QED
      BY <2>1, <2>2, <2>3, <2>4, CrashGoesOn
  <1>4. CASE GenerateWrites(c)
    <2>1. PICK v : db' = [db EXCEPT !.voyages = v] /\ alone' = FALSE
      BY <1>4 DEF GenerateWrites, Committed
    <2>2. request[c].at = "write" /\ request' = [request EXCEPT ![c] = Idle]
          /\ UNCHANGED <<up, restarts, resets, cleared>>
      BY <1>4 DEF GenerateWrites, Ends
    <2>3. request[c] # Idle /\ request[c].at \notin Steps /\ Idle.at \notin Steps
      BY <2>2, IdleShape DEF Steps
    <2>4. c # Starter
      BY <2>3 DEF CrashInv, SeedsInv
    <2>5. db'.seeds = db.seeds
      BY <2>1 DEF IInv, Shapes, IsDb
    <2>. QED
      BY <2>1, <2>2, <2>3, <2>4, <2>5, CrashGoesOn
  <1>. QED
    BY <1>1, <1>2, <1>3, <1>4 DEF Generate

LEMMA InsertCrash == ASSUME IInv, CrashInv, NEW c \in Parties, Insert(c) PROVE CrashInv'
  <1>1. CASE InsertBegins(c)
    <2>1. PICK op : request' = [request EXCEPT ![c] =
                                  [Idle EXCEPT !.op = op, !.at = "write", !.ports = PortsRead(db)]]
      BY <1>1 DEF InsertBegins
    <2>2. c \in Clients /\ up /\ UNCHANGED <<db, up, restarts, resets, cleared, alone>>
      BY <1>1, PartiesSplit DEF InsertBegins
    <2> DEFINE r == [Idle EXCEPT !.op = op, !.at = "write", !.ports = PortsRead(db)]
    <2>3. r.at \notin Steps
      BY DEF Idle, Steps
    <2>4. request' = [request EXCEPT ![c] = r]
      BY <2>1
    <2> HIDE DEF r
    <2>. QED
      BY <2>2, <2>3, <2>4, OtherBegins
  <1>2. CASE BookWrites(c) \/ AddWrites(c)
    <2>1. \E k, b : (db' = [db EXCEPT !.bookings = k] \/ db' = [db EXCEPT !.boxes = b]) /\ alone' = FALSE
      BY <1>2 DEF BookWrites, AddWrites, Committed
    <2>2. request[c].op # "reset" /\ request[c].op # "none" /\ request' = [request EXCEPT ![c] = Idle]
          /\ UNCHANGED <<up, restarts, resets, cleared>>
      BY <1>2 DEF BookWrites, AddWrites, Ends
    <2>3. request[c] # Idle /\ Idle.at \notin Steps
      BY <2>2, IdleShape DEF Steps
    <2>4. request[c].at \notin Steps
      BY <2>2 DEF IInv, StepsOfReset, Steps
    <2>5. c # Starter
      BY <2>3, <2>4 DEF CrashInv, SeedsInv
    <2>6. db'.seeds = db.seeds
      BY <2>1 DEF IInv, Shapes, IsDb
    <2>. QED
      BY <2>1, <2>2, <2>3, <2>4, <2>5, <2>6, CrashGoesOn
  <1>. QED
    BY <1>1, <1>2 DEF Insert

LEMMA AdminCrash == ASSUME IInv, CrashInv, AdminEdit PROVE CrashInv'
  <1>1. alone' = FALSE /\ db'.seeds = db.seeds /\ UNCHANGED <<request, up, restarts, resets, cleared>>
    BY AdminEdits DEF Edit, Written, Committed
  <1>2. StartSeed' = StartSeed
    BY <1>1 DEF StartSeed
  <1>3. SeedsInv'
    BY <1>1, <1>2 DEF CrashInv, SeedsInv
  <1>4. AloneInv'
    BY <1>1 DEF CrashInv, AloneInv
  <1>. QED
    BY <1>3, <1>4 DEF CrashInv

LEMMA ReassignCrash == ASSUME IInv, CrashInv, Reassign PROVE CrashInv'
  <1>1. /\ UNCHANGED <<request, up, restarts, resets, cleared>> /\ db'.seeds = db.seeds
        /\ (UNCHANGED <<db, alone>> \/ alone' = FALSE)
    BY Reassignments
  <1>2. StartSeed' = StartSeed /\ FleetOnly(cleared)' = FleetOnly(cleared)
        /\ Complete(cleared)' = Complete(cleared)
    BY <1>1 DEF StartSeed, FleetOnly, Complete
  <1>3. SeedsInv'
    BY <1>1, <1>2 DEF CrashInv, SeedsInv
  <1>4. AloneInv'
    BY <1>1, <1>2 DEF CrashInv, AloneInv
  <1>. QED
    BY <1>3, <1>4 DEF CrashInv

LEMMA DiesCrash == ASSUME IInv, CrashInv, NEW c \in Parties, Dies(c) PROVE CrashInv'
  <1>1. /\ c # Starter /\ request[c] # Idle /\ request' = [request EXCEPT ![c] = Idle]
        /\ UNCHANGED <<db, up, restarts, resets, cleared, alone>>
    BY DEF Dies, Ends
  <1>2. Idle.at \notin Steps
    BY IdleShape DEF Steps
  <1>. QED
    BY <1>1, <1>2, CrashGoesOn

LEMMA StopCrash == ASSUME IInv, CrashInv, Stop PROVE CrashInv'
  <1>1. up' = FALSE /\ restarts' = restarts + 1 /\ UNCHANGED <<db, resets, cleared, alone>>
    BY DEF Stop
  <1>2. \A c \in Parties : request'[c] = Idle
    BY DEF Stop, IInv, Shapes
  <1>3. Idle.at \notin Steps /\ Idle.at \notin Filling /\ Idle.at # "clear" /\ Idle.at # "seed"
    BY IdleShape DEF Steps, Filling
  <1>4. restarts \in Nat /\ MaxResets \in Nat /\ resets \in 0..MaxResets
        /\ StartSeed = MaxResets + 1 + restarts /\ StartSeed' = StartSeed + 1
        /\ (cleared \in 0..resets \/ cleared \in MaxResets + 1..StartSeed)
    BY <1>1, PartiesSplit DEF CrashInv, SeedsInv, StartSeed
  <1>5. cleared # StartSeed' /\ (cleared \in 0..resets \/ cleared \in MaxResets + 1..StartSeed')
    BY <1>4
  <1>6. SeedsInv'
    BY <1>1, <1>2, <1>3, <1>4, <1>5, PartiesSplit DEF SeedsInv, Parties
  <1>7. FleetOnly(cleared)' = FleetOnly(cleared) /\ Complete(cleared)' = Complete(cleared)
    BY <1>1 DEF FleetOnly, Complete
  <1>8. AloneInv'
    BY <1>1, <1>2, <1>3, <1>7 DEF CrashInv, AloneInv
  <1>. QED
    BY <1>6, <1>8 DEF CrashInv

LEMMA StartedCrash == ASSUME IInv, CrashInv, Started PROVE CrashInv'
  <1>1. up' = TRUE /\ request[Starter] = Idle /\ db.seeds # {}
        /\ UNCHANGED <<db, request, restarts, resets, cleared, alone>>
    BY DEF Started, NeedsSeeding
  <1>2. StartSeed' = StartSeed /\ FleetOnly(cleared)' = FleetOnly(cleared)
        /\ Complete(cleared)' = Complete(cleared)
    BY <1>1 DEF StartSeed, FleetOnly, Complete
  <1>3. SeedsInv'
    BY <1>1, <1>2 DEF CrashInv, SeedsInv
  <1>4. AloneInv'
    BY <1>1, <1>2 DEF CrashInv, AloneInv
  <1>. QED
    BY <1>3, <1>4 DEF CrashInv

LEMMA NextCrash == IInv /\ CrashInv /\ [Next]_vars => CrashInv'
  <1> SUFFICES ASSUME IInv, CrashInv, [Next]_vars PROVE CrashInv'
    OBVIOUS
  <1>1. CASE \E c \in Clients \cup {Starter} : Request(c)
    <2>1. PICK c \in Parties : Request(c)
      BY <1>1 DEF Parties
    <2>. QED
      BY <2>1, ResetBeginsCrash, ClearsCrash, SeedsFleetCrash, RefreshesCrash, FillsCrash,
         GenerateCrash, InsertCrash DEF Request, Reset
  <1>2. CASE UNCHANGED vars
    <2>1. UNCHANGED <<db, request, up, restarts, resets, cleared, alone>>
      BY <1>2 DEF vars
    <2>2. StartSeed' = StartSeed /\ FleetOnly(cleared)' = FleetOnly(cleared)
          /\ Complete(cleared)' = Complete(cleared)
      BY <2>1 DEF StartSeed, FleetOnly, Complete
    <2>3. SeedsInv'
      BY <2>1, <2>2 DEF CrashInv, SeedsInv
    <2>4. AloneInv'
      BY <2>1, <2>2 DEF CrashInv, AloneInv
    <2>. QED
      BY <2>3, <2>4 DEF CrashInv
  <1>3. CASE \E c \in Clients \cup {Starter} : Dies(c)
    BY <1>3, DiesCrash DEF Parties
  <1>. QED
    BY <1>1, <1>2, <1>3, AdminCrash, ReassignCrash, StopCrash, StartedCrash DEF Next

-----------------------------------------------------------------------------
(***************************************************************************)
(* The safety half of ServedAgain. While the server is down nobody but its *)
(* start touches the tables, so the start finds them as it left them, and  *)
(* none of its transactions fails: it ends with the ports there.           *)
(***************************************************************************)
StartAlone ==
    /\ ~up /\ request[Starter].at \in {"seed", "refresh", "fill"} =>
          alone /\ cleared = request[Starter].seed
    /\ reassignments # {} => up

\* While the server is down, its start is the only request with a step.
LEMMA OnlyTheStart ==
  ASSUME IInv, CrashInv, ~up, NEW c \in Parties, Request(c)
  PROVE  c = Starter /\ Reset(Starter)
  <1>1. CASE request[c] = Idle
    <2>1. request[c].op = "none" /\ request[c].at = "none"
      BY <1>1, IdleShape
    <2>2. ~Generate(c) /\ ~Insert(c)
      BY <2>1 DEF Generate, GenerateBegins, GenerateReadsPorts, GenerateReadsShips,
                  GenerateWrites, Insert, InsertBegins, BookWrites, AddWrites
    <2>3. Reset(c) => ResetBegins(c)
      BY <2>1 DEF Reset, Clears, SeedsFleet, Refreshes, Fills
    <2>. QED
      BY <2>2, <2>3 DEF Request, ResetBegins, Reset
  <1>2. CASE request[c] # Idle
    <2>1. c = Starter /\ request[c].at \in Steps
      BY <1>2, PartiesSplit, UnderWay DEF CrashInv
    <2>2. request[c].op = "reset"
      BY <2>1 DEF IInv, StepsOfReset, Steps
    <2>3. ~Generate(c) /\ ~Insert(c)
      BY <2>1, <2>2 DEF Steps, Generate, GenerateBegins, GenerateReadsPorts,
                        GenerateReadsShips, GenerateWrites, Insert, InsertBegins,
                        BookWrites, AddWrites
    <2>. QED
      BY <2>1, <2>3 DEF Request
  <1>. QED
    BY <1>1, <1>2

LEMMA InitStartAlone == Init => StartAlone
  BY IdleShape, PartiesSplit DEF Init, StartAlone, Parties

\* Reassignments in flight end with the server.
LEMMA ReassignedWhileUp ==
  ASSUME StartAlone, [Next]_vars PROVE reassignments' # {} => up'
  <1>0. reassignments # {} => up
    BY DEF StartAlone
  <1>1. ASSUME NEW c, Request(c) \/ Dies(c) PROVE up' = up /\ (reassignments' = {} \/ reassignments' = reassignments)
    <2>1. CASE Reset(c)
      BY <2>1 DEF Reset, ResetBegins, Clears, SeedsFleet, Refreshes, Fills, VoyagesReplaced, races
    <2>2. CASE Generate(c)
      BY <2>2 DEF Generate, GenerateBegins, GenerateReadsPorts, GenerateReadsShips, GenerateWrites,
                  VoyagesReplaced, races
    <2>3. CASE Insert(c)
      BY <2>3 DEF Insert, InsertBegins, BookWrites, AddWrites, races
    <2>4. CASE Dies(c)
      BY <2>4 DEF Dies, races
    <2>. QED
      BY <1>1, <2>1, <2>2, <2>3, <2>4 DEF Request
  <1>2. CASE AdminEdit
    <2>1. \E d : Edit(d)
      BY <1>2 DEF AdminEdit, UpdateVoyage, UpdateLegTime, UpdateLegCapacity, UpdateBooking,
                  DeleteBooking, RemoveBoxes, UpdatePort
    <2>. QED
      BY <1>0, <2>1 DEF Edit, Written, races
  <1>3. CASE Reassign
    <2>1. CASE ReassignBegins
      BY <2>1 DEF ReassignBegins
    <2>2. ASSUME NEW s \in reassignments, ReassignReadsLegs(s) \/ ReassignWrites(s) \/ ReassignDies(s)
          PROVE  up' = up
      BY <2>2 DEF ReassignReadsLegs, ReassignWrites, Written, ReassignDies
    <2>. QED
      BY <1>0, <1>3, <2>1, <2>2 DEF Reassign
  <1>4. CASE Stop
    BY <1>4 DEF Stop
  <1>5. CASE Started
    BY <1>5 DEF Started
  <1>6. CASE UNCHANGED vars
    BY <1>0, <1>6 DEF vars
  <1>. QED
    BY <1>0, <1>1, <1>2, <1>3, <1>4, <1>5, <1>6 DEF Next

\* Every step of the start goes on from tables only the start has written.
LEMMA StepStartAlone == IInv /\ CrashInv /\ StartAlone /\ [Next]_vars => StartAlone'
  <1> SUFFICES ASSUME IInv, CrashInv, StartAlone, [Next]_vars PROVE StartAlone'
    OBVIOUS
  <1>0. request \in [Parties -> RequestType] /\ Starter \in Parties /\ (reassignments' # {} => up')
    BY PartiesSplit, ReassignedWhileUp DEF IInv, Shapes
  <1>1. ASSUME NEW c \in Parties, Request(c) PROVE StartAlone'
    <2>1. up' = up
      BY <1>1 DEF Request, Reset, ResetBegins, Clears, SeedsFleet, Refreshes, Fills,
                  Generate, GenerateBegins, GenerateReadsPorts, GenerateReadsShips,
                  GenerateWrites, Insert, InsertBegins, BookWrites, AddWrites
    <2>2. CASE up
      BY <1>0, <2>1, <2>2 DEF StartAlone
    <2>3. CASE ~up
      <3>0. Reset(Starter)
        BY <1>1, <2>3, OnlyTheStart
      <3>1. CASE ResetBegins(Starter)
        <4>1. request'[Starter].at = "clear"
          BY <1>0, <3>1 DEF ResetBegins, Idle
        <4>. QED
          BY <1>0, <4>1 DEF StartAlone
      <3>2. CASE Clears(Starter)
        <4>1. alone' = TRUE /\ cleared' = request[Starter].seed
              /\ request'[Starter].seed = request[Starter].seed
          BY <1>0, <3>2 DEF Clears, RequestType
        <4>. QED
          BY <1>0, <4>1 DEF StartAlone
      <3>3. CASE SeedsFleet(Starter)
        <4>1. alone /\ cleared = request[Starter].seed
          BY <2>3, <3>3 DEF SeedsFleet, StartAlone
        <4>2. CASE CanSeed(db)
          <5>1. /\ alone' = (alone /\ cleared = request[Starter].seed)
                /\ cleared' = cleared
                /\ request'[Starter].seed = request[Starter].seed
            BY <1>0, <3>3, <4>2 DEF SeedsFleet, RequestType
          <5>. QED
            BY <1>0, <4>1, <5>1 DEF StartAlone
        <4>3. CASE ~CanSeed(db)
          <5>1. request'[Starter].at = "none"
            BY <1>0, <3>3, <4>3, IdleShape DEF SeedsFleet, Ends
          <5>. QED
            BY <1>0, <5>1 DEF StartAlone
        <4>. QED
          BY <4>2, <4>3
      <3>4. CASE Refreshes(Starter)
        <4>1. alone /\ cleared = request[Starter].seed
          BY <2>3, <3>4 DEF Refreshes, StartAlone
        <4>2. /\ alone' = alone /\ cleared' = cleared
              /\ \/ request'[Starter].seed = request[Starter].seed
                 \/ request'[Starter].at = "none"
          BY <1>0, <3>4, IdleShape DEF Refreshes, Ends, RequestType
        <4>. QED
          BY <1>0, <4>1, <4>2 DEF StartAlone
      <3>5. CASE Fills(Starter)
        <4>1. request'[Starter].at = "none"
          BY <1>0, <3>5, IdleShape DEF Fills, Ends
        <4>. QED
          BY <1>0, <4>1 DEF StartAlone
      <3>. QED
        BY <3>0, <3>1, <3>2, <3>3, <3>4, <3>5 DEF Reset
    <2>. QED
      BY <2>2, <2>3
  <1>2. CASE AdminEdit
    <2>1. up /\ up' = up
      BY <1>2, AdminEdits DEF Edit, Written
    <2>. QED
      BY <1>0, <2>1 DEF StartAlone
  <1>3. CASE Stop
    <2>1. request'[Starter].at = "none"
      BY <1>0, <1>3, IdleShape DEF Stop
    <2>. QED
      BY <1>0, <2>1 DEF StartAlone
  <1>4. CASE Started
    BY <1>0, <1>4 DEF Started, StartAlone
  <1>5. CASE UNCHANGED vars
    BY <1>5 DEF vars, StartAlone
  <1>6. CASE Reassign
    <2>1. up /\ up' = up
      <3>1. CASE ReassignBegins
        BY <3>1 DEF ReassignBegins
      <3>2. CASE reassignments # {}
        BY <1>6, <3>2, Reassignments DEF StartAlone
      <3>. QED
        BY <1>6, <3>1, <3>2 DEF Reassign
    <2>. QED
      BY <2>1 DEF StartAlone
  <1>7. ASSUME NEW c \in Parties, Dies(c) PROVE StartAlone'
    <2>1. c # Starter /\ UNCHANGED <<up, cleared, alone>> /\ request' = [request EXCEPT ![c] = Idle]
      BY <1>7 DEF Dies, Ends
    <2>2. request'[Starter] = request[Starter]
      BY <1>0, <2>1
    <2>. QED
      BY <1>0, <2>1, <2>2 DEF StartAlone
  <1>. QED
    BY <1>1, <1>2, <1>3, <1>4, <1>5, <1>6, <1>7 DEF Next, Parties

\* The tables of an undisturbed reset let its next transaction through.
LEMMA AloneSucceeds == IInv /\ CrashInv /\ StartAlone => StartsSucceed
  <1> SUFFICES ASSUME IInv, CrashInv, StartAlone, ~up
               PROVE  /\ request[Starter].at = "seed" => CanSeed(db)
                      /\ request[Starter].at = "refresh" => request[Starter].seed \in db.seeds
                      /\ request[Starter].at = "fill" => CanFill(db, request[Starter].seed)
    BY DEF StartsSucceed
  <1>1. Starter \in Parties
    BY PartiesSplit
  <1>2. ASSUME request[Starter].at = "seed" PROVE CanSeed(db)
    <2>1. db = Empty
      BY <1>1, <1>2 DEF StartAlone, CrashInv, AloneInv
    <2>. QED
      BY <2>1 DEF CanSeed, Empty
  <1>3. ASSUME request[Starter].at \in Filling
        PROVE  /\ request[Starter].seed \in db.seeds
               /\ CanFill(db, request[Starter].seed)
    <2>1. db = FleetOnly(cleared) /\ cleared = request[Starter].seed
      BY <1>1, <1>3 DEF StartAlone, CrashInv, AloneInv, Filling
    <2>2. db.seeds = {cleared} /\ db.boxes = {}
      BY <2>1 DEF FleetOnly
    <2>. QED
      BY <2>1, <2>2 DEF CanFill, NameTaken
  <1>. QED
    BY <1>2, <1>3 DEF Filling

\* The start of a server that was stopped anywhere never fails half-way: the
\* fleet of a reset that was cut off is not in its way, nor are its boxes.
THEOREM StartNeverFails == Spec => []StartsSucceed
  <1>1. Init => IInv /\ CrashInv /\ StartAlone
    BY InitInv, InitCrash, InitStartAlone
  <1>2. IInv /\ CrashInv /\ StartAlone /\ [Next]_vars => (IInv /\ CrashInv /\ StartAlone)'
    BY NextInv, NextCrash, StepStartAlone
  <1>. QED
    BY <1>1, <1>2, AloneSucceeds, PTL DEF Spec

-----------------------------------------------------------------------------
(***************************************************************************)
(* What the loader makes of the tables of an undisturbed reset             *)
(***************************************************************************)
BaseLeg(v, i) ==
    [voyage |-> v, leg |-> i,
     ship |-> IF AssignedShip(v, Ships) \in Ships THEN AssignedShip(v, Ships) ELSE DefaultShip,
     from |-> Rotation[v[1]][i], to |-> Rotation[v[1]][i + 1],
     departure |-> LegTimes(v, BaseHorizon)[i].departure,
     arrival |-> LegTimes(v, BaseHorizon)[i].arrival,
     teu |-> AssignedTeu(v, Ships)]

\* the legs a schedule run over the base horizon makes, with all ships there
BaseLegs == UNION {{BaseLeg(v, i) : i \in DOMAIN LegTimes(v, BaseHorizon)} : v \in VoyageNumbers(BaseHorizon)}

\* The rows such a run writes into tables with ports and ships.
LEMMA LegAsScheduled ==
  ASSUME NEW d, NEW s, s # 0, d.seeds = {s}, d.fleets = {s},
         d.voyages = Scheduled(BaseHorizon, BaseFirm, s, s),
         NEW v \in VoyageNumbers(BaseHorizon)
  PROVE  /\ d.voyages[v].blank = FALSE
         /\ DOMAIN d.voyages[v].legs = DOMAIN LegTimes(v, BaseHorizon)
         /\ \A i \in DOMAIN LegTimes(v, BaseHorizon) : LoadedLeg(d, v, i) = BaseLeg(v, i)
  <1>1. PICK row : row = Scheduled(BaseHorizon, BaseFirm, s, s)[v]
    OBVIOUS
  <1>2. /\ row.ship = IF AssignedShip(v, Ships) \in Ships THEN AssignedShip(v, Ships) ELSE None
        /\ row.shipSeed = s /\ row.portSeed = s /\ row.blank = FALSE
        /\ row.legs = [i \in DOMAIN LegTimes(v, BaseHorizon) |->
                         [departure |-> LegTimes(v, BaseHorizon)[i].departure,
                          arrival |-> LegTimes(v, BaseHorizon)[i].arrival,
                          teu |-> AssignedTeu(v, Ships), set |-> FALSE]]
    BY <1>1 DEF Scheduled, Known
  <1>3. d.voyages[v] = row
    BY <1>1
  <1>4. DOMAIN row.legs = DOMAIN LegTimes(v, BaseHorizon)
    BY <1>2
  <1>5. ASSUME NEW i \in DOMAIN LegTimes(v, BaseHorizon) PROVE LoadedLeg(d, v, i) = BaseLeg(v, i)
    <2>1. /\ row.legs[i].departure = LegTimes(v, BaseHorizon)[i].departure
          /\ row.legs[i].arrival = LegTimes(v, BaseHorizon)[i].arrival
          /\ row.legs[i].teu = AssignedTeu(v, Ships)
      BY <1>2
    <2>2. LoadedShip(d, row) = IF AssignedShip(v, Ships) \in Ships THEN AssignedShip(v, Ships) ELSE DefaultShip
      BY <1>2, ScheduleAssumption DEF LoadedShip
    <2>. QED
      BY <1>2, <1>3, <2>1, <2>2 DEF LoadedLeg, BaseLeg
  <1>. QED
    BY <1>2, <1>3, <1>4, <1>5

LEMMA LegsAsScheduled ==
  ASSUME NEW d, NEW s, s # 0, d.seeds = {s}, d.fleets = {s},
         d.voyages = Scheduled(BaseHorizon, BaseFirm, s, s)
  PROVE  LoadedLegs(d) = IF BaseLegs = {} THEN FixtureLegs ELSE BaseLegs
  <1> DEFINE V == VoyageNumbers(BaseHorizon)
             N == UNION {{LoadedLeg(d, v, i) : i \in DOMAIN d.voyages[v].legs} : v \in V}
  <1>1. DOMAIN d.voyages = V
    BY DEF Scheduled
  <1>2. \A v \in V : ~d.voyages[v].blank
    BY LegAsScheduled
  <1>3. {v \in DOMAIN d.voyages : ~d.voyages[v].blank} = V
    BY <1>1, <1>2
  <1>4. ASSUME NEW x \in N PROVE x \in BaseLegs
    <2>1. PICK v \in V : x \in {LoadedLeg(d, v, i) : i \in DOMAIN d.voyages[v].legs}
      OBVIOUS
    <2>2. PICK i \in DOMAIN d.voyages[v].legs : x = LoadedLeg(d, v, i)
      BY <2>1
    <2>3. i \in DOMAIN LegTimes(v, BaseHorizon) /\ x = BaseLeg(v, i)
      BY <2>2, LegAsScheduled
    <2>. QED
      BY <2>3 DEF BaseLegs
  <1>5. ASSUME NEW x \in BaseLegs PROVE x \in N
    <2>1. PICK v \in V : x \in {BaseLeg(v, i) : i \in DOMAIN LegTimes(v, BaseHorizon)}
      BY DEF BaseLegs
    <2>2. PICK i \in DOMAIN LegTimes(v, BaseHorizon) : x = BaseLeg(v, i)
      BY <2>1
    <2>3. i \in DOMAIN d.voyages[v].legs /\ x = LoadedLeg(d, v, i)
      BY <2>2, LegAsScheduled
    <2>. QED
      BY <2>3
  <1> HIDE DEF N
  <1>6. N = BaseLegs
    BY <1>4, <1>5
  <1>. QED
    BY <1>3, <1>6 DEF LoadedLegs, N

\* The boxes of a reset are as many as the fixtures say, at each port.
LEMMA StockAsNumbered ==
  ASSUME NEW s, NEW p \in Ports
  PROVE  Cardinality({b \in Numbered(s) : b.port = p /\ b.seed \in {s}}) = FixtureStock[p]
  <1> DEFINE n == FixtureStock[p]
             box == [i \in 1..n |-> [name |-> <<p, i>>, port |-> p, seed |-> s]]
             B == {b \in Numbered(s) : b.port = p /\ b.seed \in {s}}
  <1>1. n \in Nat
    BY WorldAssumption
  <1>2. B = {box[i] : i \in 1..n}
    <2>1. \A b : b \in Numbered(s) <=> \E q \in Ports : \E i \in 1..FixtureStock[q] :
                                         b = [name |-> <<q, i>>, port |-> q, seed |-> s]
      BY DEF Numbered
    <2>2. ASSUME NEW b \in B PROVE \E i \in 1..n : b = box[i]
      <3>1. PICK q \in Ports : \E i \in 1..FixtureStock[q] : b = [name |-> <<q, i>>, port |-> q, seed |-> s]
        BY <2>1
      <3>2. PICK i \in 1..FixtureStock[q] : b = [name |-> <<q, i>>, port |-> q, seed |-> s]
        BY <3>1
      <3>3. q = p
        BY <3>2
      <3>. QED
        BY <3>2, <3>3
    <2>3. ASSUME NEW i \in 1..n PROVE box[i] \in B
      <3>1. box[i] = [name |-> <<p, i>>, port |-> p, seed |-> s]
        OBVIOUS
      <3>2. box[i] \in Numbered(s)
        BY <2>1, <3>1
      <3>. QED
        BY <3>1, <3>2
    <2>. QED
      BY <2>2, <2>3
  <1>3. ExistsBijection(1..n, B)
    <2>1. box \in Surjection(1..n, B)
      BY <1>2 DEF Surjection
    <2>2. \A i, j \in 1..n : box[i] = box[j] => i = j
      <3> SUFFICES ASSUME NEW i \in 1..n, NEW j \in 1..n, box[i] = box[j] PROVE i = j
        OBVIOUS
      <3>1. box[i].name = <<p, i>> /\ box[j].name = <<p, j>>
        OBVIOUS
      <3>2. <<p, i>> = <<p, j>>
        BY <3>1
      <3>. QED
        BY <3>2
    <2>. QED
      BY <2>1, <2>2 DEF ExistsBijection, Bijection, Injection, Surjection, IsInjective
  <1> HIDE DEF B, box, n
  <1>4. IsFiniteSet(1..n) /\ Cardinality(1..n) = n
    <2>1. 1 \in Int /\ n \in Int
      BY <1>1
    <2>2. /\ IsFiniteSet(1..n)
          /\ Cardinality(1..n) = IF 1 > n THEN 0 ELSE n - 1 + 1
      BY <2>1, FS_Interval, Zenon
    <2>. QED
      BY <1>1, <2>2
  <1>5. Cardinality(B) = n
    BY <1>3, <1>4, FS_Bijection
  <1>. QED
    BY <1>5 DEF B, n

LEMMA LoadEmpty == Load(Empty) = FixtureWorld
  <1>1. LoadedLeads(Empty) = [p \in Ports |-> Lead] /\ LoadedBookings(Empty) = FixtureBookings
    BY DEF Empty, LoadedLeads, LoadedBookings
  <1>2. LoadedLegs(Empty) = FixtureLegs
    <2>1. DOMAIN Empty.voyages = {}
      BY DEF Empty
    <2>. QED
      BY <2>1 DEF LoadedLegs
  <1>3. LoadedStock(Empty) = FixtureStock
    <2>1. \A p \in Ports : {b \in Empty.boxes : b.port = p /\ b.seed \in Empty.seeds} = {}
      BY DEF Empty
    <2>2. Cardinality({}) = 0 /\ ~(0 > 0)
      BY FS_EmptySet
    <2>3. LoadedStock(Empty) = [p \in Ports |-> FixtureStock[p]]
      BY <2>1, <2>2 DEF LoadedStock
    <2>. QED
      BY <2>3, WorldAssumption
  <1>. QED
    BY <1>1, <1>2, <1>3 DEF Load, FixtureWorld

LEMMA LoadFleetOnly ==
  ASSUME FixtureLegs = BaseLegs, NEW s, s # 0 PROVE Load(FleetOnly(s)) = FixtureWorld
  <1> DEFINE d == FleetOnly(s)
  <1>1. /\ d.seeds = {s} /\ d.fleets = {s} /\ d.lead = [p \in Ports |-> Lead]
        /\ d.voyages = Scheduled(BaseHorizon, BaseFirm, s, s)
        /\ d.bookings = <<>> /\ d.boxes = {}
    BY DEF FleetOnly
  <1> HIDE DEF d
  <1>2. LoadedLeads(d) = [p \in Ports |-> Lead] /\ LoadedBookings(d) = FixtureBookings
    BY <1>1 DEF LoadedLeads, LoadedBookings
  <1>3. LoadedLegs(d) = FixtureLegs
    BY <1>1, LegsAsScheduled
  <1>4. LoadedStock(d) = FixtureStock
    <2>1. \A p \in Ports : {b \in d.boxes : b.port = p /\ b.seed \in d.seeds} = {}
      BY <1>1
    <2>2. Cardinality({}) = 0 /\ ~(0 > 0)
      BY FS_EmptySet
    <2>3. LoadedStock(d) = [p \in Ports |-> FixtureStock[p]]
      BY <2>1, <2>2 DEF LoadedStock
    <2>. QED
      BY <2>3, WorldAssumption
  <1>5. Load(d) = FixtureWorld
    BY <1>2, <1>3, <1>4 DEF Load, FixtureWorld
  <1>. QED
    BY <1>5 DEF d

LEMMA LoadComplete ==
  ASSUME FixtureLegs = BaseLegs, NEW s, s # 0 PROVE Load(Complete(s)) = FixtureWorld
  <1> DEFINE d == Complete(s)
  <1>1. /\ d.seeds = {s} /\ d.fleets = {s} /\ d.lead = [p \in Ports |-> Lead]
        /\ d.voyages = Scheduled(BaseHorizon, BaseFirm, s, s)
        /\ d.bookings = FixtureRows(s) /\ d.boxes = Numbered(s)
    BY DEF Complete
  <1> HIDE DEF d
  <1>2. LoadedLeads(d) = [p \in Ports |-> Lead]
    BY <1>1 DEF LoadedLeads
  <1>3. LoadedBookings(d) = FixtureBookings
    <2>1. FixtureBookings = [i \in DOMAIN FixtureBookings |-> FixtureBookings[i]]
      <3>1. FixtureBookings \in Seq(Cargo)
        BY WorldAssumption
      <3>. QED
        BY <3>1
    <2>2. DOMAIN FixtureRows(s) = DOMAIN FixtureBookings
          /\ \A i \in DOMAIN FixtureBookings : /\ FixtureRows(s)[i].seed = s
                                               /\ FixtureRows(s)[i].body = FixtureBookings[i]
      BY DEF FixtureRows
    <2>3. d.bookings = FixtureRows(s) /\ d.seeds = {s}
      BY <1>1
    <2>4. [i \in DOMAIN d.bookings |->
            IF d.bookings[i].seed \in d.seeds THEN d.bookings[i].body
            ELSE [d.bookings[i].body EXCEPT !.origin = DefaultFrom, !.destination = DefaultDestination]]
          = [i \in DOMAIN FixtureBookings |-> FixtureBookings[i]]
      BY <2>2, <2>3
    <2>. QED
      BY <2>1, <2>4 DEF LoadedBookings
  <1>4. LoadedLegs(d) = FixtureLegs
    BY <1>1, LegsAsScheduled
  <1>5. LoadedStock(d) = FixtureStock
    <2>1. \A p \in Ports : Cardinality({b \in d.boxes : b.port = p /\ b.seed \in d.seeds}) = FixtureStock[p]
      BY <1>1, StockAsNumbered
    <2>2. LoadedStock(d) = [p \in Ports |-> FixtureStock[p]]
      BY <2>1 DEF LoadedStock
    <2>. QED
      BY <2>2, WorldAssumption
  <1>6. Load(d) = FixtureWorld
    BY <1>2, <1>3, <1>4, <1>5 DEF Load, FixtureWorld
  <1>. QED
    BY <1>6 DEF d

\* Wherever a reset is cut off, after any resets, edits and restarts before
\* it: while nobody else has committed, the planner reads the world of the
\* fixtures, whatever its loops, ships, bookings and boxes, if its legs are
\* those a schedule run makes. The property the run checks.
THEOREM CrashUnseen == ASSUME FixtureLegs = BaseLegs PROVE Spec => []CrashIsInvisible
  <1>1. CrashInv => CrashIsInvisible
    BY LoadEmpty, LoadFleetOnly, LoadComplete DEF CrashInv, AloneInv, CrashIsInvisible
  <1>. QED
    BY <1>1, InitInv, NextInv, InitCrash, NextCrash, PTL DEF Spec

-----------------------------------------------------------------------------
(***************************************************************************)
(* The rows of the voyages: typed, and each leg with the capacity of its   *)
(* ship unless it was set, on all but some voyages: those two reassignments*)
(* had in flight at once. A ship that is gone keeps its name here.         *)
(***************************************************************************)
Carries(row) ==
    row.ship # None => \A i \in DOMAIN row.legs : row.legs[i].set \/ row.legs[i].teu = ShipTeu[row.ship]

VoyagesSound(w, X) ==
    \A v \in DOMAIN w : v[1] \in Loops /\ w[v] \in VoyageRow /\ (v \in X \/ Carries(w[v]))

\* An edit leaves the ships, and the capacities of the legs it does not set.
RowKept(old, new) ==
    /\ new.ship = old.ship /\ DOMAIN new.legs = DOMAIN old.legs
    /\ \A i \in DOMAIN new.legs :
          new.legs[i].set \/ (new.legs[i].set = old.legs[i].set /\ new.legs[i].teu = old.legs[i].teu)
VoyagesKept(w, x) == DOMAIN x = DOMAIN w /\ \A v \in DOMAIN w : RowKept(w[v], x[v])

\* Numbers up to one that may be below the first are a sequence's domain.
LEMMA RunIsSeq == ASSUME NEW n \in Int PROVE \E m \in Nat : 1..n = 1..m
  <1>1. CASE n < 0
    <2>1. 1..n = 1..0
      BY <1>1
    <2>. QED
      BY <2>1
  <1>2. CASE n >= 0
    BY <1>2
  <1>. QED
    BY <1>1, <1>2

LEMMA DaysAreInts == ASSUME NEW h \in Int, NEW l \in Loops PROVE DepartureDays(l, h) \in Seq(Int)
  <1> DEFINE n == (h - LastFirst(l)) \div Frequency[l]
             e(k) == LastFirst(l) + k * Frequency[l]
  <1>1. FirstDays[l] \in Seq(Int) /\ Len(FirstDays[l]) > 0 /\ Frequency[l] \in Nat /\ Frequency[l] > 0
    BY ScheduleAssumption
  <1>2. LastFirst(l) \in Int
    <2>1. Len(FirstDays[l]) \in 1..Len(FirstDays[l])
      BY <1>1, LenProperties
    <2>. QED
      BY <1>1, <2>1, ElementOfSeq DEF LastFirst
  <1>3. n \in Int /\ \A k \in Int : e(k) \in Int
    BY <1>1, <1>2
  <1> HIDE DEF n
  <1>4. [k \in 1..n |-> e(k)] \in Seq(Int)
    <2>1. PICK m \in Nat : 1..n = 1..m
      BY <1>3, RunIsSeq
    <2>2. [k \in 1..m |-> e(k)] \in Seq(Int)
      BY <1>3, IsASeq
    <2>. QED
      BY <2>1, <2>2
  <1>5. <<>> \in Seq(Int)
    BY EmptySeq
  <1>6. CASE h <= LongHorizon
    BY <1>1, <1>5, <1>6, ConcatProperties DEF DepartureDays
  <1>7. CASE ~(h <= LongHorizon)
    <2>1. DepartureDays(l, h) = FirstDays[l] \o [k \in 1..n |-> e(k)]
      BY <1>7 DEF DepartureDays, n
    <2>. QED
      BY <1>1, <1>4, <2>1, ConcatProperties
  <1>. QED
    BY <1>6, <1>7

\* The times of a voyage's legs.
LEMMA TimesTyped ==
  ASSUME NEW h \in Int, NEW v \in VoyageNumbers(h)
  PROVE  /\ v[1] \in Loops
         /\ \E n \in Nat : DOMAIN LegTimes(v, h) = 1..n
         /\ \A i \in DOMAIN LegTimes(v, h) :
               LegTimes(v, h)[i].departure \in Int /\ LegTimes(v, h)[i].arrival \in Int
  <1>1. PICK l \in Loops : \E k \in DOMAIN DepartureDays(l, h) : v = <<l, k>>
    BY DEF VoyageNumbers
  <1>2. PICK k \in DOMAIN DepartureDays(l, h) : v = <<l, k>>
    BY <1>1
  <1>3. v[1] = l /\ v[2] = k
    BY <1>2
  <1>4. DepartureDay(v, h) \in Int
    <2>1. DepartureDays(l, h) \in Seq(Int)
      BY DaysAreInts
    <2>2. k \in 1..Len(DepartureDays(l, h))
      BY <2>1, LenProperties
    <2>. QED
      BY <1>3, <2>1, <2>2, ElementOfSeq DEF DepartureDay
  <1> DEFINE n == Len(Rotation[l]) - 1
  <1>5. n \in Nat /\ n + 1 = Len(ArrivalOffset) /\ n + 1 = Len(DepartureOffset)
        /\ ArrivalOffset \in Seq(Int) /\ DepartureOffset \in Seq(Int)
    <2>1. Len(Rotation[l]) > 0 /\ Len(Rotation[l]) = Len(ArrivalOffset) /\ Len(Rotation[l]) = Len(DepartureOffset)
          /\ ArrivalOffset \in Seq(Int) /\ DepartureOffset \in Seq(Int)
      BY ScheduleAssumption
    <2>2. Len(ArrivalOffset) \in Nat
      BY <2>1, LenProperties
    <2>. QED
      BY <2>1, <2>2
  <1> HIDE DEF n
  <1>6. LegTimes(v, h) = [i \in 1..n |-> [departure |-> DepartureDay(v, h) + DepartureOffset[i],
                                          arrival |-> DepartureDay(v, h) + ArrivalOffset[i + 1]]]
    BY <1>3 DEF LegTimes, n
  <1>7. \A i \in 1..n : DepartureOffset[i] \in Int /\ ArrivalOffset[i + 1] \in Int
    <2> SUFFICES ASSUME NEW i \in 1..n PROVE DepartureOffset[i] \in Int /\ ArrivalOffset[i + 1] \in Int
      OBVIOUS
    <2>1. i \in 1..Len(DepartureOffset) /\ i + 1 \in 1..Len(ArrivalOffset)
      BY <1>5
    <2>. QED
      BY <1>5, <2>1, ElementOfSeq
  <1>8. \A i \in 1..n : LegTimes(v, h)[i].departure \in Int /\ LegTimes(v, h)[i].arrival \in Int
    BY <1>4, <1>6, <1>7
  <1>9. DOMAIN LegTimes(v, h) = 1..n
    BY <1>6
  <1>. QED
    BY <1>1, <1>3, <1>5, <1>8, <1>9

\* The capacity a leg gets is that of the ship it names, if the ship is there.
LEMMA CapacityTyped ==
  ASSUME NEW v, NEW s
  PROVE  /\ AssignedTeu(v, Known(s)) \in Nat
         /\ AssignedShip(v, Known(s)) \in Known(s) => AssignedTeu(v, Known(s)) = ShipTeu[AssignedShip(v, Known(s))]
         /\ Known(s) \subseteq Ships
  <1>1. Known(s) = {} \/ Known(s) = Ships
    BY DEF Known
  <1>2. ShipTeu \in [Ships -> Nat] /\ DefaultTeu \in Nat /\ ShipOrder \in Seq(Ships)
    BY ScheduleAssumption
  <1>3. Ships # {} => FirstShip \in Ships
    <2> SUFFICES ASSUME Ships # {} PROVE FirstShip \in Ships
      OBVIOUS
    <2>1. PICK i \in DOMAIN ShipOrder : TRUE
      BY DEF Ships
    <2>2. 1 \in 1..Len(ShipOrder)
      BY <1>2, <2>1, LenProperties
    <2>. QED
      BY <1>2, <2>2, ElementOfSeq DEF FirstShip
  <1>. QED
    BY <1>1, <1>2, <1>3 DEF AssignedTeu

LEMMA ScheduledSound ==
  ASSUME NEW h \in Int, NEW f, NEW p \in Nat, NEW s \in Nat, NEW X
  PROVE  VoyagesSound(Scheduled(h, f, p, s), X)
  <1> SUFFICES ASSUME NEW v \in VoyageNumbers(h), NEW row, row = Scheduled(h, f, p, s)[v]
               PROVE  v[1] \in Loops /\ row \in VoyageRow /\ Carries(row)
    BY DEF VoyagesSound, Scheduled
  <1> DEFINE a == AssignedShip(v, Known(s))
             t == AssignedTeu(v, Known(s))
             L == LegTimes(v, h)
             legs == IF p = 0 THEN <<>>
                     ELSE [i \in DOMAIN L |-> [departure |-> L[i].departure, arrival |-> L[i].arrival,
                                               teu |-> t, set |-> FALSE]]
  <1>1. row = [ship |-> IF a \in Known(s) THEN a ELSE None, shipSeed |-> s, portSeed |-> p,
               status |-> Assignment(v, h, f), blank |-> FALSE, legs |-> legs]
    BY DEF Scheduled
  <1>2. t \in Nat /\ (a \in Known(s) => t = ShipTeu[a]) /\ Known(s) \subseteq Ships
    BY CapacityTyped
  <1>3. v[1] \in Loops /\ (\E n \in Nat : DOMAIN L = 1..n)
        /\ \A i \in DOMAIN L : L[i].departure \in Int /\ L[i].arrival \in Int
    BY TimesTyped
  <1>4. Assignment(v, h, f) \in {"FIRM", "PROVISIONAL"}
    BY DEF Assignment
  <1> HIDE DEF a, t, L
  <1>5. legs \in Seq(LegRow)
    <2>1. CASE p = 0
      BY <2>1, EmptySeq
    <2>2. CASE p # 0
      <3>1. \A i \in DOMAIN L : [departure |-> L[i].departure, arrival |-> L[i].arrival,
                                 teu |-> t, set |-> FALSE] \in LegRow
        BY <1>2, <1>3 DEF LegRow
      <3>2. PICK n \in Nat : DOMAIN L = 1..n
        BY <1>3
      <3>3. [i \in 1..n |-> [departure |-> L[i].departure, arrival |-> L[i].arrival,
                             teu |-> t, set |-> FALSE]] \in Seq(LegRow)
        BY <3>1, <3>2, IsASeq
      <3>. QED
        BY <2>2, <3>2, <3>3
    <2>. QED
      BY <2>1, <2>2
  <1>6. \A i \in DOMAIN legs : legs[i].teu = t
    <2>1. CASE p = 0
      BY <2>1
    <2>2. CASE p # 0
      BY <2>2
    <2>. QED
      BY <2>1, <2>2
  <1> HIDE DEF legs
  <1>7. row.ship \in Ships \cup {None} /\ (row.ship # None => t = ShipTeu[row.ship]) /\ row.legs = legs
    BY <1>1, <1>2
  <1>8. Carries(row)
    BY <1>6, <1>7 DEF Carries
  <1>9. row \in VoyageRow
    BY <1>1, <1>2, <1>4, <1>5 DEF VoyageRow
  <1>. QED
    BY <1>3, <1>8, <1>9

-----------------------------------------------------------------------------
(***************************************************************************)
(* The edits of voyages                                                    *)
(***************************************************************************)
LEMMA RowEdited ==
  ASSUME NEW w, NEW X, VoyagesSound(w, X), NEW v \in DOMAIN w, NEW row \in VoyageRow, RowKept(w[v], row),
         NEW x, x = [w EXCEPT ![v] = row]
  PROVE  VoyagesSound(x, X) /\ VoyagesKept(w, x)
  <1>1. DOMAIN x = DOMAIN w /\ x[v] = row /\ \A u \in DOMAIN w : u # v => x[u] = w[u]
    OBVIOUS
  <1>2. \A u \in DOMAIN w : RowKept(w[u], x[u])
    BY <1>1 DEF RowKept
  <1>3. Carries(w[v]) => Carries(row)
    BY DEF RowKept, Carries
  <1>. QED
    BY <1>1, <1>2, <1>3 DEF VoyagesSound, VoyagesKept

LEMMA LegRefitted ==
  ASSUME NEW leg \in LegRow, NEW teu \in Nat
  PROVE  [leg EXCEPT !.teu = teu, !.set = FALSE] \in LegRow /\ [leg EXCEPT !.teu = teu, !.set = FALSE].teu = teu
  BY DEF LegRow

\* What a reassignment has read of a row is what the row says.
StillReads(s, row) ==
    /\ row.ship = s.ship
    /\ s.at = "write" => \A i \in DOMAIN row.legs : row.legs[i].set \/ row.legs[i].teu = s.teus[i]

\* The row of a voyage that gets another ship, and its capacity: what is not
\* written is as it should be if the session has read it so.
LEMMA ReassignedRow ==
  ASSUME NEW row \in VoyageRow, NEW t, NEW s \in Ships, NEW seed \in Nat, NEW word \in Words
  PROVE  /\ Reassigned(row, t, s, seed, word) \in VoyageRow
         /\ StillReads(t, row) /\ t.at = "write" => Carries(Reassigned(row, t, s, seed, word))
  <1> DEFINE l == row.legs
             moved == <<s, seed>> # <<t.ship, t.shipSeed>>
             e(i) == IF t.teus[i] # ShipTeu[s] THEN [l[i] EXCEPT !.teu = ShipTeu[s], !.set = FALSE] ELSE l[i]
             legs == [i \in DOMAIN l |-> e(i)]
             ship == IF moved THEN s ELSE row.ship
             key == IF moved THEN seed ELSE row.shipSeed
             status == IF word # t.status THEN word ELSE row.status
  <1>1. PICK r : r = Reassigned(row, t, s, seed, word)
    OBVIOUS
  <1>2. row = [ship |-> row.ship, shipSeed |-> row.shipSeed, portSeed |-> row.portSeed,
               status |-> row.status, blank |-> row.blank, legs |-> row.legs]
        /\ l \in Seq(LegRow) /\ row.portSeed \in Nat /\ row.blank \in BOOLEAN
        /\ row.ship \in Ships \cup {None} /\ row.shipSeed \in Nat
        /\ row.status \in Words \cup {"FIRM", "PROVISIONAL"}
    BY DEF VoyageRow
  <1>3. Len(l) \in Nat /\ DOMAIN l = 1..Len(l) /\ \A i \in 1..Len(l) : l[i] \in LegRow
    BY <1>2, LenProperties, ElementOfSeq
  <1>4. \A i \in 1..Len(l) : e(i) \in LegRow /\ ((e(i) = l[i] /\ t.teus[i] = ShipTeu[s]) \/ e(i).teu = ShipTeu[s])
    <2>1. ShipTeu[s] \in Nat
      BY ScheduleAssumption
    <2> SUFFICES ASSUME NEW i \in 1..Len(l)
                 PROVE  e(i) \in LegRow /\ ((e(i) = l[i] /\ t.teus[i] = ShipTeu[s]) \/ e(i).teu = ShipTeu[s])
      OBVIOUS
    <2>2. l[i] \in LegRow
      BY <1>3
    <2>3. CASE t.teus[i] # ShipTeu[s]
      <3>1. e(i) = [l[i] EXCEPT !.teu = ShipTeu[s], !.set = FALSE]
        BY <2>3
      <3>. QED
        BY <2>1, <2>2, <3>1, LegRefitted
    <2>4. CASE t.teus[i] = ShipTeu[s]
      BY <2>2, <2>4
    <2>. QED
      BY <2>3, <2>4
  <1>5. legs \in Seq(LegRow) /\ DOMAIN legs = 1..Len(l) /\ \A i \in 1..Len(l) : legs[i] = e(i)
    <2>1. legs = [i \in 1..Len(l) |-> e(i)]
      BY <1>3
    <2> HIDE DEF e, legs
    <2>2. [i \in 1..Len(l) |-> e(i)] \in Seq(LegRow)
      BY <1>3, <1>4, IsASeq
    <2>. QED
      BY <2>1, <2>2
  <1>6. r = [row EXCEPT !.ship = ship, !.shipSeed = key, !.status = status, !.legs = legs]
    BY <1>1 DEF Reassigned
  <1>7. ship \in Ships \cup {None} /\ key \in Nat /\ status \in Words \cup {"FIRM", "PROVISIONAL"}
        /\ (row.ship = t.ship => ship = s)
    BY <1>2
  <1> HIDE DEF e, legs, ship, key, status, moved, l
  <1>8. r.ship = ship /\ r.shipSeed = key /\ r.status = status /\ r.legs = legs
        /\ r.portSeed = row.portSeed /\ r.blank = row.blank
    BY <1>2, <1>6
  <1>9. r = [ship |-> r.ship, shipSeed |-> r.shipSeed, portSeed |-> r.portSeed,
             status |-> r.status, blank |-> r.blank, legs |-> r.legs]
    BY <1>2, <1>6
  <1>10. r \in VoyageRow
    BY <1>2, <1>5, <1>7, <1>8, <1>9 DEF VoyageRow
  <1>11. ASSUME StillReads(t, row), t.at = "write" PROVE Carries(r)
    <2>1. r.ship = s
      BY <1>7, <1>8, <1>11 DEF StillReads
    <2>2. ASSUME NEW i \in 1..Len(l) PROVE r.legs[i].set \/ r.legs[i].teu = ShipTeu[s]
      <3>1. l[i].set \/ l[i].teu = t.teus[i]
        BY <1>3, <1>11 DEF StillReads, l
      <3>. QED
        BY <1>4, <1>5, <1>8, <3>1
    <2>. QED
      BY <1>5, <1>8, <2>1, <2>2 DEF Carries
  <1>. QED
    BY <1>1, <1>10, <1>11

\* The row of a voyage with one leg changed, to one of the same capacity or a
\* set one.
LEMMA LegEdited ==
  ASSUME NEW row \in VoyageRow, NEW i \in DOMAIN row.legs, NEW leg \in LegRow,
         leg.set \/ (leg.set = row.legs[i].set /\ leg.teu = row.legs[i].teu),
         NEW r, r = [row EXCEPT !.legs = [@ EXCEPT ![i] = leg]]
  PROVE  r \in VoyageRow /\ RowKept(row, r)
  <1>1. PICK l : l = [row.legs EXCEPT ![i] = leg]
    OBVIOUS
  <1>2. row = [ship |-> row.ship, shipSeed |-> row.shipSeed, portSeed |-> row.portSeed,
               status |-> row.status, blank |-> row.blank, legs |-> row.legs]
        /\ row.legs \in Seq(LegRow) /\ row.portSeed \in Nat /\ row.blank \in BOOLEAN
        /\ row.ship \in Ships \cup {None} /\ row.shipSeed \in Nat
        /\ row.status \in Words \cup {"FIRM", "PROVISIONAL"}
    BY DEF VoyageRow
  <1>3. l \in Seq(LegRow) /\ DOMAIN l = DOMAIN row.legs
        /\ \A j \in DOMAIN l : l[j] = IF j = i THEN leg ELSE row.legs[j]
    <2>1. i \in 1..Len(row.legs) /\ DOMAIN row.legs = 1..Len(row.legs)
      BY <1>2, LenProperties
    <2>. QED
      BY <1>1, <1>2, <2>1, ExceptSeq
  <1>4. r = [row EXCEPT !.legs = l]
    BY <1>1
  <1>5. r.ship = row.ship /\ r.shipSeed = row.shipSeed /\ r.portSeed = row.portSeed
        /\ r.status = row.status /\ r.blank = row.blank /\ r.legs = l
    BY <1>2, <1>4
  <1>6. r = [ship |-> r.ship, shipSeed |-> r.shipSeed, portSeed |-> r.portSeed,
             status |-> r.status, blank |-> r.blank, legs |-> r.legs]
    BY <1>2, <1>4
  <1>7. r \in VoyageRow
    BY <1>2, <1>3, <1>5, <1>6 DEF VoyageRow
  <1>8. RowKept(row, r)
    BY <1>3, <1>5 DEF RowKept
  <1>. QED
    BY <1>7, <1>8

\* The row of a voyage that is blanked, or not any more.
LEMMA RowBlanked ==
  ASSUME NEW row \in VoyageRow, NEW r, r = [row EXCEPT !.blank = ~@]
  PROVE  r \in VoyageRow /\ RowKept(row, r)
  <1>1. row = [ship |-> row.ship, shipSeed |-> row.shipSeed, portSeed |-> row.portSeed,
               status |-> row.status, blank |-> row.blank, legs |-> row.legs]
        /\ row.legs \in Seq(LegRow) /\ row.portSeed \in Nat /\ row.blank \in BOOLEAN
        /\ row.ship \in Ships \cup {None} /\ row.shipSeed \in Nat
        /\ row.status \in Words \cup {"FIRM", "PROVISIONAL"}
    BY DEF VoyageRow
  <1>2. PICK b \in BOOLEAN : b = ~row.blank
    OBVIOUS
  <1>3. r = [row EXCEPT !.blank = b]
    BY <1>2
  <1>4. r.ship = row.ship /\ r.shipSeed = row.shipSeed /\ r.portSeed = row.portSeed
        /\ r.status = row.status /\ r.blank = b /\ r.legs = row.legs
    BY <1>1, <1>3
  <1>5. r = [ship |-> r.ship, shipSeed |-> r.shipSeed, portSeed |-> r.portSeed,
             status |-> r.status, blank |-> r.blank, legs |-> r.legs]
    BY <1>1, <1>3
  <1>6. r \in VoyageRow
    BY <1>1, <1>4, <1>5 DEF VoyageRow
  <1>. QED
    BY <1>4, <1>6 DEF RowKept

\* A leg whose day, or whose capacity, is written.
LEMMA LegWritten ==
  ASSUME NEW leg \in LegRow, NEW day \in Int, NEW teu \in Nat
  PROVE  /\ [leg EXCEPT !.departure = day] \in LegRow /\ [leg EXCEPT !.arrival = day] \in LegRow
         /\ [leg EXCEPT !.teu = teu, !.set = TRUE] \in LegRow
         /\ [leg EXCEPT !.departure = day].set = leg.set /\ [leg EXCEPT !.departure = day].teu = leg.teu
         /\ [leg EXCEPT !.arrival = day].set = leg.set /\ [leg EXCEPT !.arrival = day].teu = leg.teu
         /\ [leg EXCEPT !.teu = teu, !.set = TRUE].set = TRUE
  BY DEF LegRow

\* The ports read by a session, and what it found, are keys of resets.
FleetInv ==
    /\ db.seeds \subseteq Nat /\ (db.seeds = {} \/ \E s : db.seeds = {s})
    /\ \A c \in Parties : request[c].ports \in Nat /\ request[c].ships \in Nat
    /\ db.lead \in [Ports -> {Lead} \cup LeadEdits]
    /\ VoyagesSound(db.voyages, raced)
    /\ up \in BOOLEAN /\ alone \in BOOLEAN

\* One leg of one voyage changed in the tables.
LEMMA DepartureOfTables ==
  ASSUME NEW d, NEW e, NEW v, NEW i, NEW leg, NEW x, IsDb(d),
         leg = [d.voyages[v].legs[i] EXCEPT !.departure = x], e = [d EXCEPT !.voyages[v].legs[i].departure = x]
  PROVE  e.voyages = [d.voyages EXCEPT ![v] = [d.voyages[v] EXCEPT !.legs = [@ EXCEPT ![i] = leg]]]
  BY DEF IsDb

LEMMA ArrivalOfTables ==
  ASSUME NEW d, NEW e, NEW v, NEW i, NEW leg, NEW x, IsDb(d),
         leg = [d.voyages[v].legs[i] EXCEPT !.arrival = x], e = [d EXCEPT !.voyages[v].legs[i].arrival = x]
  PROVE  e.voyages = [d.voyages EXCEPT ![v] = [d.voyages[v] EXCEPT !.legs = [@ EXCEPT ![i] = leg]]]
  BY DEF IsDb

LEMMA CapacityWritten ==
  ASSUME NEW leg \in LegRow, NEW teu \in Nat, NEW r, r = [leg EXCEPT !.teu = teu, !.set = TRUE]
  PROVE  r \in LegRow /\ r.set = TRUE
  <1>1. r.teu = teu /\ r.set = TRUE /\ r.departure = leg.departure /\ r.arrival = leg.arrival
    BY DEF LegRow
  <1>2. r = [departure |-> r.departure, arrival |-> r.arrival, teu |-> r.teu, set |-> r.set]
    BY DEF LegRow
  <1>. QED
    BY <1>1, <1>2 DEF LegRow

LEMMA LegOfTablesSound ==
  ASSUME IInv, FleetInv, NEW v \in DOMAIN db.voyages, NEW i \in DOMAIN db.voyages[v].legs,
         NEW leg \in LegRow, leg.set \/ (leg.set = db.voyages[v].legs[i].set /\ leg.teu = db.voyages[v].legs[i].teu),
         NEW w, w = [db.voyages EXCEPT ![v] = [db.voyages[v] EXCEPT !.legs = [@ EXCEPT ![i] = leg]]]
  PROVE  VoyagesSound(w, raced) /\ VoyagesKept(db.voyages, w)
  <1>1. PICK row : row = [db.voyages[v] EXCEPT !.legs = [@ EXCEPT ![i] = leg]]
    OBVIOUS
  <1>2. PICK old : old = db.voyages[v]
    OBVIOUS
  <1>3. old \in VoyageRow
    BY <1>2 DEF FleetInv, VoyagesSound
  <1>4. row \in VoyageRow /\ RowKept(old, row)
    BY <1>1, <1>2, <1>3, LegEdited
  <1>5. PICK u : u = db.voyages
    OBVIOUS
  <1>6. VoyagesSound(u, raced) /\ v \in DOMAIN u /\ w = [u EXCEPT ![v] = row] /\ u[v] = old
    BY <1>1, <1>2, <1>5 DEF FleetInv
  <1>7. VoyagesSound(w, raced) /\ VoyagesKept(u, w)
    BY <1>4, <1>6, RowEdited
  <1>. QED
    BY <1>5, <1>7

\* Voyages that are not written are kept.
LEMMA Unwritten == ASSUME NEW w PROVE VoyagesKept(w, w)
  BY DEF VoyagesKept, RowKept

LEMMA AdminSound ==
  ASSUME IInv, FleetInv, AdminEdit
  PROVE  /\ VoyagesSound(db'.voyages, raced) /\ VoyagesKept(db.voyages, db'.voyages)
         /\ db'.lead \in [Ports -> {Lead} \cup LeadEdits]
  <1>0. IsDb(db) /\ VoyagesSound(db.voyages, raced) /\ db.lead \in [Ports -> {Lead} \cup LeadEdits]
    BY DEF IInv, Shapes, FleetInv
  <1>2. CASE UpdateVoyage
    <2>1. PICK v \in Touched \cap DOMAIN db.voyages : db' = [db EXCEPT !.voyages[v].blank = ~@]
      BY <1>2 DEF UpdateVoyage, Edit, Written, Committed
    <2>2. PICK u : u = db.voyages
      OBVIOUS
    <2>3. PICK row : row = [u[v] EXCEPT !.blank = ~@]
      OBVIOUS
    <2>4. db'.voyages = [u EXCEPT ![v] = row] /\ db'.lead = db.lead
      BY <1>0, <2>1, <2>2, <2>3 DEF IsDb
    <2>5. u[v] \in VoyageRow
      BY <1>0, <2>2 DEF VoyagesSound
    <2>6. row \in VoyageRow /\ RowKept(u[v], row)
      BY <2>3, <2>5, RowBlanked
    <2>. QED
      BY <1>0, <2>2, <2>4, <2>6, RowEdited
  <1>3. CASE UpdateLegTime
    <2>1. PICK v \in Touched \cap DOMAIN db.voyages, day \in DayEdits :
             \E i \in DOMAIN db.voyages[v].legs :
                \/ Edit([db EXCEPT !.voyages[v].legs[i].departure = day])
                \/ Edit([db EXCEPT !.voyages[v].legs[i].arrival = day])
      BY <1>3 DEF UpdateLegTime
    <2>2. PICK i \in DOMAIN db.voyages[v].legs :
             \/ db' = [db EXCEPT !.voyages[v].legs[i].departure = day]
             \/ db' = [db EXCEPT !.voyages[v].legs[i].arrival = day]
      BY <2>1 DEF Edit, Written, Committed
    <2>3. db.voyages[v].legs[i] \in LegRow
      <3>1. db.voyages[v].legs \in Seq(LegRow)
        BY <1>0 DEF VoyagesSound, VoyageRow
      <3>2. i \in 1..Len(db.voyages[v].legs)
        BY <3>1, LenProperties
      <3>. QED
        BY <3>1, <3>2, ElementOfSeq
    <2>4. day \in Int /\ db'.lead = db.lead
      BY <1>0, <2>2, WorldAssumption DEF IsDb
    <2>5. CASE db' = [db EXCEPT !.voyages[v].legs[i].departure = day]
      <3>1. PICK leg : leg = [db.voyages[v].legs[i] EXCEPT !.departure = day]
        OBVIOUS
      <3>2. leg \in LegRow /\ leg.set = db.voyages[v].legs[i].set /\ leg.teu = db.voyages[v].legs[i].teu
        BY <2>3, <2>4, <3>1, LegWritten
      <3>3. db'.voyages = [db.voyages EXCEPT ![v] = [db.voyages[v] EXCEPT !.legs = [@ EXCEPT ![i] = leg]]]
        <4>1. PICK d : d = db
          OBVIOUS
        <4>2. PICK e : e = db'
          OBVIOUS
        <4>3. IsDb(d) /\ leg = [d.voyages[v].legs[i] EXCEPT !.departure = day]
              /\ e = [d EXCEPT !.voyages[v].legs[i].departure = day]
          BY <1>0, <2>5, <3>1, <4>1, <4>2
        <4>4. e.voyages = [d.voyages EXCEPT ![v] = [d.voyages[v] EXCEPT !.legs = [@ EXCEPT ![i] = leg]]]
          BY <4>3, DepartureOfTables
        <4>. QED
          BY <4>1, <4>2, <4>4
      <3>. QED
        BY <1>0, <2>4, <3>2, <3>3, LegOfTablesSound
    <2>6. CASE db' = [db EXCEPT !.voyages[v].legs[i].arrival = day]
      <3>1. PICK leg : leg = [db.voyages[v].legs[i] EXCEPT !.arrival = day]
        OBVIOUS
      <3>2. leg \in LegRow /\ leg.set = db.voyages[v].legs[i].set /\ leg.teu = db.voyages[v].legs[i].teu
        BY <2>3, <2>4, <3>1, LegWritten
      <3>3. db'.voyages = [db.voyages EXCEPT ![v] = [db.voyages[v] EXCEPT !.legs = [@ EXCEPT ![i] = leg]]]
        <4>1. PICK d : d = db
          OBVIOUS
        <4>2. PICK e : e = db'
          OBVIOUS
        <4>3. IsDb(d) /\ leg = [d.voyages[v].legs[i] EXCEPT !.arrival = day]
              /\ e = [d EXCEPT !.voyages[v].legs[i].arrival = day]
          BY <1>0, <2>6, <3>1, <4>1, <4>2
        <4>4. e.voyages = [d.voyages EXCEPT ![v] = [d.voyages[v] EXCEPT !.legs = [@ EXCEPT ![i] = leg]]]
          BY <4>3, ArrivalOfTables
        <4>. QED
          BY <4>1, <4>2, <4>4
      <3>. QED
        BY <1>0, <2>4, <3>2, <3>3, LegOfTablesSound
    <2>. QED
      BY <2>2, <2>5, <2>6
  <1>4. CASE UpdateLegCapacity
    <2>1. PICK v \in Touched \cap DOMAIN db.voyages, teu \in TeuEdits :
             \E i \in DOMAIN db.voyages[v].legs :
                Edit([db EXCEPT !.voyages[v].legs[i] = [@ EXCEPT !.teu = teu, !.set = TRUE]])
      BY <1>4 DEF UpdateLegCapacity
    <2>2. PICK i \in DOMAIN db.voyages[v].legs :
             db' = [db EXCEPT !.voyages[v].legs[i] = [@ EXCEPT !.teu = teu, !.set = TRUE]]
      BY <2>1 DEF Edit, Written, Committed
    <2>3. db.voyages[v].legs[i] \in LegRow
      <3>1. db.voyages[v].legs \in Seq(LegRow)
        BY <1>0 DEF VoyagesSound, VoyageRow
      <3>2. i \in 1..Len(db.voyages[v].legs)
        BY <3>1, LenProperties
      <3>. QED
        BY <3>1, <3>2, ElementOfSeq
    <2>4. teu \in Nat /\ db'.lead = db.lead
      BY <1>0, <2>2, WorldAssumption DEF IsDb
    <2>5. PICK leg : leg = [db.voyages[v].legs[i] EXCEPT !.teu = teu, !.set = TRUE]
      OBVIOUS
    <2>6. leg \in LegRow /\ leg.set = TRUE
      <3>1. PICK o : o = db.voyages[v].legs[i]
        OBVIOUS
      <3>2. o \in LegRow /\ leg = [o EXCEPT !.teu = teu, !.set = TRUE]
        BY <2>3, <2>5, <3>1
      <3>. QED
        BY <2>4, <3>2, CapacityWritten
    <2>7. db'.voyages = [db.voyages EXCEPT ![v] = [db.voyages[v] EXCEPT !.legs = [@ EXCEPT ![i] = leg]]]
      <3>1. PICK d : d = db
        OBVIOUS
      <3>2. PICK e : e = db'
        OBVIOUS
      <3>3. IsDb(d) /\ leg = [d.voyages[v].legs[i] EXCEPT !.teu = teu, !.set = TRUE]
            /\ e = [d EXCEPT !.voyages[v].legs[i] = [@ EXCEPT !.teu = teu, !.set = TRUE]]
        BY <1>0, <2>2, <2>5, <3>1, <3>2
      <3>4. e.voyages = [d.voyages EXCEPT ![v] = [d.voyages[v] EXCEPT !.legs = [@ EXCEPT ![i] = leg]]]
        BY <3>3, SMT DEF IsDb
      <3>. QED
        BY <3>1, <3>2, <3>4
    <2>. QED
      BY <1>0, <2>4, <2>6, <2>7, LegOfTablesSound
  <1>5. CASE UpdateBooking \/ DeleteBooking \/ RemoveBoxes
    <2>1. \E k, b : db' = [db EXCEPT !.bookings = k] \/ db' = [db EXCEPT !.boxes = b]
      BY <1>5 DEF UpdateBooking, DeleteBooking, RemoveBoxes, Edit, Written, Committed
    <2>. QED
      BY <1>0, <2>1, Unwritten DEF IsDb
  <1>6. CASE UpdatePort
    <2>1. PICK p \in Ports, days \in LeadEdits : db' = [db EXCEPT !.lead[p] = days]
      BY <1>6 DEF UpdatePort, Edit, Written, Committed
    <2>2. db'.lead = [db.lead EXCEPT ![p] = days] /\ db'.voyages = db.voyages
      BY <1>0, <2>1 DEF IsDb
    <2>. QED
      BY <1>0, <2>2, Unwritten
  <1>. QED
    BY <1>2, <1>3, <1>4, <1>5, <1>6 DEF AdminEdit

\* What a session reads as a key is a number from zero.
LEMMA ReadsNat ==
  ASSUME FleetInv, db.fleets = db.seeds PROVE PortsRead(db) \in Nat /\ ShipsRead(db) \in Nat
  BY DEF FleetInv, PortsRead, ShipsRead

\* A request goes on, and remembers what it has read.
LEMMA ReadsGoOn ==
  ASSUME IInv, FleetInv, NEW c \in Parties, NEW r, r.ports \in Nat, r.ships \in Nat,
         request' = [request EXCEPT ![c] = r]
  PROVE  \A d \in Parties : request'[d].ports \in Nat /\ request'[d].ships \in Nat
  BY DEF IInv, Shapes, FleetInv

\* The fleet stays as it is.
LEMMA FleetStays ==
  ASSUME FleetInv, db'.seeds = db.seeds, db'.lead = db.lead, db'.voyages = db.voyages, raced' = raced,
         \A d \in Parties : request'[d].ports \in Nat /\ request'[d].ships \in Nat,
         up' \in BOOLEAN, alone' \in BOOLEAN
  PROVE  FleetInv'
  BY DEF FleetInv

LEMMA IdleReads == Idle.ports \in Nat /\ Idle.ships \in Nat
  BY DEF Idle

LEMMA InitFleet == Init => FleetInv
  <1> SUFFICES ASSUME Init PROVE FleetInv
    OBVIOUS
  <1>1. db.seeds = {} /\ db.lead = [p \in Ports |-> Lead] /\ db.voyages = <<>>
    BY DEF Init, Empty
  <1>2. \A c \in Parties : request[c] = Idle
    BY DEF Init, Parties
  <1>3. \A c \in Parties : request[c].ports \in Nat /\ request[c].ships \in Nat
    BY <1>2, IdleReads
  <1>4. VoyagesSound(db.voyages, raced)
    <2>1. DOMAIN db.voyages = {}
      BY <1>1
    <2>. QED
      BY <2>1 DEF VoyagesSound
  <1>5. up \in BOOLEAN /\ alone \in BOOLEAN
    BY DEF Init
  <1>6. db.lead \in [Ports -> {Lead} \cup LeadEdits]
    BY <1>1
  <1>. QED
    BY <1>1, <1>3, <1>4, <1>5, <1>6 DEF FleetInv

LEMMA ResetFleet ==
  ASSUME IInv, CrashInv, FleetInv, NEW c \in Parties, Reset(c) PROVE FleetInv'
  <1>1. CASE ResetBegins(c)
    <2> DEFINE r == [Idle EXCEPT !.op = "reset", !.at = "clear", !.seed = NewSeed(c)]
    <2>1. request' = [request EXCEPT ![c] = r] /\ UNCHANGED <<db, up, alone, raced>>
      BY <1>1 DEF ResetBegins, races
    <2>2. r.ports \in Nat /\ r.ships \in Nat
      BY DEF Idle
    <2> HIDE DEF r
    <2>3. \A d \in Parties : request'[d].ports \in Nat /\ request'[d].ships \in Nat
      BY <2>1, <2>2, ReadsGoOn
    <2>. QED
      BY <2>1, <2>3 DEF FleetInv
  <1>2. CASE Clears(c)
    <2> DEFINE r == [request[c] EXCEPT !.at = "seed"]
    <2>1. request' = [request EXCEPT ![c] = r] /\ db' = Empty /\ up' = up /\ alone' = TRUE
      BY <1>2 DEF Clears
    <2>2. r.ports = request[c].ports /\ r.ships = request[c].ships
      BY DEF IInv, Shapes, RequestType
    <2>3. r.ports \in Nat /\ r.ships \in Nat
      BY <2>2 DEF FleetInv
    <2> HIDE DEF r
    <2>4. \A d \in Parties : request'[d].ports \in Nat /\ request'[d].ships \in Nat
      BY <2>1, <2>3, ReadsGoOn
    <2>5. db'.seeds = {} /\ db'.lead = [p \in Ports |-> Lead] /\ db'.voyages = <<>>
      BY <2>1 DEF Empty
    <2>6. VoyagesSound(db'.voyages, raced')
      <3>1. DOMAIN db'.voyages = {}
        BY <2>5
      <3>. QED
        BY <3>1 DEF VoyagesSound
    <2>7. db'.lead \in [Ports -> {Lead} \cup LeadEdits]
      BY <2>5
    <2>8. up' \in BOOLEAN /\ alone' \in BOOLEAN
      BY <2>1 DEF FleetInv
    <2>. QED
      BY <2>4, <2>5, <2>6, <2>7, <2>8 DEF FleetInv
  <1>3. CASE SeedsFleet(c)
    <2> DEFINE s == request[c].seed
               v == Scheduled(BaseHorizon, BaseFirm, s, s)
               l == [p \in Ports |-> Lead]
               r == [request[c] EXCEPT !.at = "refresh"]
    <2>1. s \in Nat
      <3>1. request[c].at \in Steps
        BY <1>3 DEF SeedsFleet, Steps
      <3>. QED
        BY <3>1, KeyIsPositive DEF CrashInv
    <2>2. r.ports \in Nat /\ r.ships \in Nat
      <3>1. r.ports = request[c].ports /\ r.ships = request[c].ships
        BY DEF IInv, Shapes, RequestType
      <3>. QED
        BY <3>1 DEF FleetInv
    <2>3. VoyagesSound(v, raced')
      BY <2>1, ScheduledSound, WorldAssumption
    <2>4. l \in [Ports -> {Lead} \cup LeadEdits]
      OBVIOUS
    <2>5. CASE CanSeed(db)
      <3>1. db.seeds = {}
        BY <2>5 DEF CanSeed, IInv, Shapes
      <3>2. db' = [db EXCEPT !.seeds = @ \cup {s}, !.fleets = @ \cup {s}, !.lead = l, !.voyages = v]
            /\ request' = [request EXCEPT ![c] = r] /\ alone' = (alone /\ cleared = s)
            /\ up' = up
        BY <1>3, <2>5 DEF SeedsFleet
      <3> HIDE DEF l, v, r
      <3>3. db'.seeds = {s} /\ db'.lead = l /\ db'.voyages = v
        BY <3>1, <3>2 DEF IInv, Shapes, IsDb
      <3>4. \A d \in Parties : request'[d].ports \in Nat /\ request'[d].ships \in Nat
        BY <2>2, <3>2, ReadsGoOn
      <3>5. alone' \in BOOLEAN /\ up' \in BOOLEAN
        BY <3>2 DEF FleetInv
      <3> HIDE DEF s
      <3>. QED
        BY <2>1, <2>3, <2>4, <3>3, <3>4, <3>5 DEF FleetInv
    <2>6. CASE ~CanSeed(db)
      <3>1. request' = [request EXCEPT ![c] = Idle] /\ UNCHANGED <<db, up, alone, raced>>
        BY <1>3, <2>6 DEF SeedsFleet, Ends, races
      <3>2. \A d \in Parties : request'[d].ports \in Nat /\ request'[d].ships \in Nat
        BY <3>1, IdleReads, ReadsGoOn
      <3>. QED
        BY <3>1, <3>2 DEF FleetInv
    <2>. QED
      BY <2>5, <2>6
  <1>4. CASE Refreshes(c)
    <2> DEFINE r == [request[c] EXCEPT !.at = "fill"]
    <2>1. (request' = [request EXCEPT ![c] = r] \/ request' = [request EXCEPT ![c] = Idle])
          /\ UNCHANGED <<db, up, alone, raced>>
      BY <1>4 DEF Refreshes, Ends, races
    <2>2. r.ports \in Nat /\ r.ships \in Nat
      <3>1. r.ports = request[c].ports /\ r.ships = request[c].ships
        BY DEF IInv, Shapes, RequestType
      <3>. QED
        BY <3>1 DEF FleetInv
    <2> HIDE DEF r
    <2>3. Idle.ports \in Nat /\ Idle.ships \in Nat
      BY IdleReads
    <2>4. \A d \in Parties : request'[d].ports \in Nat /\ request'[d].ships \in Nat
      BY <2>1, <2>2, <2>3, ReadsGoOn
    <2>. QED
      BY <2>1, <2>4 DEF FleetInv
  <1>5. CASE Fills(c)
    <2>1. request' = [request EXCEPT ![c] = Idle] /\ up' = up /\ raced' = raced
          /\ ((db' = db /\ alone' = alone)
              \/ \E k, b, s : db' = [db EXCEPT !.bookings = k, !.boxes = b] /\ alone' = (alone /\ cleared = s))
      BY <1>5 DEF Fills, Ends, races
    <2>2. db'.seeds = db.seeds /\ db'.lead = db.lead /\ db'.voyages = db.voyages
      BY <2>1 DEF IInv, Shapes, IsDb
    <2>3. up' \in BOOLEAN /\ alone' \in BOOLEAN
      BY <2>1 DEF FleetInv
    <2>4. \A d \in Parties : request'[d].ports \in Nat /\ request'[d].ships \in Nat
      BY <2>1, IdleReads, ReadsGoOn
    <2>. QED
      BY <2>1, <2>2, <2>3, <2>4, FleetStays
  <1>. QED
    BY <1>1, <1>2, <1>3, <1>4, <1>5 DEF Reset

LEMMA OtherFleet ==
  ASSUME IInv, FleetInv, NEW c \in Parties, Generate(c) \/ Insert(c) PROVE FleetInv'
  <1>0. PortsRead(db) \in Nat /\ ShipsRead(db) \in Nat
    BY ReadsNat DEF IInv, Shapes
  <1>1. CASE GenerateBegins(c)
    <2> DEFINE r == [Idle EXCEPT !.op = "generate", !.at = "ports"]
    <2>1. request' = [request EXCEPT ![c] = r] /\ UNCHANGED <<db, up, alone, raced>>
      BY <1>1 DEF GenerateBegins, races
    <2>2. r.ports \in Nat /\ r.ships \in Nat
      BY DEF Idle
    <2> HIDE DEF r
    <2>3. \A d \in Parties : request'[d].ports \in Nat /\ request'[d].ships \in Nat
      BY <2>1, <2>2, ReadsGoOn
    <2>. QED
      BY <2>1, <2>3 DEF FleetInv
  <1>2. CASE GenerateReadsPorts(c)
    <2> DEFINE r == [request[c] EXCEPT !.at = "ships", !.ports = PortsRead(db)]
    <2>1. request' = [request EXCEPT ![c] = r] /\ UNCHANGED <<db, up, alone, raced>>
      BY <1>2 DEF GenerateReadsPorts, IInv, Shapes, races
    <2>2. r.ports = PortsRead(db) /\ r.ships = request[c].ships
      BY DEF IInv, Shapes, RequestType
    <2>3. r.ports \in Nat /\ r.ships \in Nat
      BY <1>0, <2>2 DEF FleetInv
    <2> HIDE DEF r
    <2>4. \A d \in Parties : request'[d].ports \in Nat /\ request'[d].ships \in Nat
      BY <2>1, <2>3, ReadsGoOn
    <2>. QED
      BY <2>1, <2>4 DEF FleetInv
  <1>3. CASE GenerateReadsShips(c)
    <2> DEFINE r == [request[c] EXCEPT !.at = "write", !.ships = ShipsRead(db)]
    <2>1. request' = [request EXCEPT ![c] = r] /\ UNCHANGED <<db, up, alone, raced>>
      BY <1>3 DEF GenerateReadsShips, IInv, Shapes, races
    <2>2. r.ports = request[c].ports /\ r.ships = ShipsRead(db)
      BY DEF IInv, Shapes, RequestType
    <2>3. r.ports \in Nat /\ r.ships \in Nat
      BY <1>0, <2>2 DEF FleetInv
    <2> HIDE DEF r
    <2>4. \A d \in Parties : request'[d].ports \in Nat /\ request'[d].ships \in Nat
      BY <2>1, <2>3, ReadsGoOn
    <2>. QED
      BY <2>1, <2>4 DEF FleetInv
  <1>4. CASE GenerateWrites(c)
    <2>1. PICK horizon \in Horizons, firm \in Firms :
             db' = [db EXCEPT !.voyages = Scheduled(horizon, firm, request[c].ports, request[c].ships)]
      BY <1>4 DEF GenerateWrites, Committed
    <2>2. request' = [request EXCEPT ![c] = Idle] /\ up' = up /\ alone' = FALSE
      BY <1>4 DEF GenerateWrites, Committed, Ends
    <2>3. horizon \in Int /\ request[c].ports \in Nat /\ request[c].ships \in Nat
      BY WorldAssumption DEF FleetInv
    <2> DEFINE v == Scheduled(horizon, firm, request[c].ports, request[c].ships)
    <2>4. VoyagesSound(v, raced')
      BY <2>3, ScheduledSound
    <2>5. db' = [db EXCEPT !.voyages = v]
      BY <2>1
    <2> HIDE DEF v
    <2>6. db'.seeds = db.seeds /\ db'.lead = db.lead /\ db'.voyages = v
      BY <2>5 DEF IInv, Shapes, IsDb
    <2>7. \A d \in Parties : request'[d].ports \in Nat /\ request'[d].ships \in Nat
      BY <2>2, IdleReads, ReadsGoOn
    <2>8. up' \in BOOLEAN /\ alone' \in BOOLEAN
      BY <2>2 DEF FleetInv
    <2>. QED
      BY <2>4, <2>6, <2>7, <2>8 DEF FleetInv
  <1>5. CASE InsertBegins(c)
    <2>1. PICK op : request' = [request EXCEPT ![c] =
                                  [Idle EXCEPT !.op = op, !.at = "write", !.ports = PortsRead(db)]]
      BY <1>5 DEF InsertBegins
    <2> DEFINE r == [Idle EXCEPT !.op = op, !.at = "write", !.ports = PortsRead(db)]
    <2>2. request' = [request EXCEPT ![c] = r] /\ UNCHANGED <<db, up, alone, raced>>
      BY <1>5, <2>1 DEF InsertBegins, races
    <2>3. r.ports \in Nat /\ r.ships \in Nat
      BY <1>0 DEF Idle
    <2> HIDE DEF r
    <2>4. \A d \in Parties : request'[d].ports \in Nat /\ request'[d].ships \in Nat
      BY <2>2, <2>3, ReadsGoOn
    <2>. QED
      BY <2>2, <2>4 DEF FleetInv
  <1>6. CASE BookWrites(c) \/ AddWrites(c)
    <2>1. \E k, b : (db' = [db EXCEPT !.bookings = k] \/ db' = [db EXCEPT !.boxes = b]) /\ alone' = FALSE
      BY <1>6 DEF BookWrites, AddWrites, Committed
    <2>2. request' = [request EXCEPT ![c] = Idle] /\ up' = up /\ raced' = raced
      BY <1>6 DEF BookWrites, AddWrites, Ends, races
    <2>3. db'.seeds = db.seeds /\ db'.lead = db.lead /\ db'.voyages = db.voyages
      BY <2>1 DEF IInv, Shapes, IsDb
    <2>4. \A d \in Parties : request'[d].ports \in Nat /\ request'[d].ships \in Nat
      BY <2>2, IdleReads, ReadsGoOn
    <2>5. up' \in BOOLEAN /\ alone' \in BOOLEAN
      BY <2>1, <2>2 DEF FleetInv
    <2>. QED
      BY <2>2, <2>3, <2>4, <2>5, FleetStays
  <1>. QED
    BY <1>1, <1>2, <1>3, <1>4, <1>5, <1>6 DEF Generate, Insert

-----------------------------------------------------------------------------
(***************************************************************************)
(* The reassignments in flight. Voyages that are replaced end them; edits  *)
(* keep what they have read; two of one voyage make it a raced one.        *)
(***************************************************************************)
IsSession(s) == s = [id |-> s.id, at |-> s.at, voyage |-> s.voyage, ship |-> s.ship,
                     shipSeed |-> s.shipSeed, status |-> s.status, teus |-> s.teus]

SessionFits(s) ==
    /\ IsSession(s)
    /\ s.voyage \in DOMAIN db.voyages
    /\ s.voyage \notin raced => StillReads(s, db.voyages[s.voyage])

SessionsInv ==
    /\ \A s \in reassignments : SessionFits(s)
    /\ \A s, t \in reassignments : s # t /\ s.voyage = t.voyage => s.voyage \in raced

LEMMA InitSessions == Init => SessionsInv
  BY DEF Init, SessionsInv

\* Nothing a session has read was written, but for legs that are set.
LEMMA SessionsKept ==
  ASSUME SessionsInv, VoyagesKept(db.voyages, db'.voyages), UNCHANGED races PROVE SessionsInv'
  <1>1. reassignments' = reassignments /\ raced' = raced
    BY DEF races
  <1>2. ASSUME NEW s \in reassignments PROVE SessionFits(s)'
    <2>1. SessionFits(s)
      BY DEF SessionsInv
    <2>2. RowKept(db.voyages[s.voyage], db'.voyages[s.voyage]) /\ s.voyage \in DOMAIN db'.voyages
      BY <2>1 DEF SessionFits, VoyagesKept
    <2>. QED
      BY <1>1, <2>1, <2>2 DEF SessionFits, StillReads, RowKept
  <1>. QED
    BY <1>1, <1>2 DEF SessionsInv

\* A write of one session leaves what the others of other voyages have read.
LEMMA WriteSessions ==
  ASSUME IInv, FleetInv, SessionsInv, NEW s \in reassignments, ReassignWrites(s)
  PROVE  /\ VoyagesSound(db'.voyages, raced) /\ SessionsInv'
  <1>1. PICK ship \in Ships, word \in Words :
           db' = [db EXCEPT !.voyages[s.voyage] = Reassigned(@, s, ship, ShipsRead(db), word)]
    BY DEF ReassignWrites, Written, Committed
  <1>2. s.at = "write" /\ reassignments' = reassignments \ {s} /\ raced' = raced
    BY DEF ReassignWrites
  <1>3. SessionFits(s) /\ IsDb(db) /\ VoyagesSound(db.voyages, raced) /\ ShipsRead(db) \in Nat
    BY DEF SessionsInv, IInv, Shapes, FleetInv, ShipsRead
  <1>4. PICK u : u = db.voyages
    OBVIOUS
  <1>5. PICK v : v = s.voyage
    OBVIOUS
  <1>6. PICK row : row = Reassigned(u[v], s, ship, ShipsRead(db), word)
    OBVIOUS
  <1>7. db'.voyages = [u EXCEPT ![v] = row] /\ v \in DOMAIN u
    BY <1>1, <1>3, <1>4, <1>5, <1>6 DEF IsDb, SessionFits
  <1>8. u[v] \in VoyageRow /\ v[1] \in Loops
    BY <1>3, <1>4, <1>7 DEF VoyagesSound
  <1>9. row \in VoyageRow /\ (v \in raced \/ Carries(row))
    <2>1. row \in VoyageRow /\ (StillReads(s, u[v]) /\ s.at = "write" => Carries(row))
      BY <1>3, <1>6, <1>8, ReassignedRow
    <2>. QED
      BY <1>2, <1>3, <1>4, <1>5, <2>1 DEF SessionFits
  <1>10. /\ DOMAIN db'.voyages = DOMAIN u /\ db'.voyages[v] = row
         /\ \A w \in DOMAIN u : w # v => db'.voyages[w] = u[w]
    BY <1>7
  <1>11. VoyagesSound(db'.voyages, raced)
    BY <1>3, <1>4, <1>8, <1>9, <1>10 DEF VoyagesSound
  <1>12. ASSUME NEW t \in reassignments' PROVE SessionFits(t)'
    <2>1. t \in reassignments /\ t # s
      BY <1>2
    <2>2. SessionFits(t) /\ (t.voyage = v => v \in raced)
      BY <1>5, <2>1 DEF SessionsInv
    <2>3. CASE t.voyage = v
      BY <1>2, <1>7, <1>10, <2>2, <2>3 DEF SessionFits
    <2>4. CASE t.voyage # v
      BY <1>2, <1>4, <1>10, <2>2, <2>4 DEF SessionFits
    <2>. QED
      BY <2>3, <2>4
  <1>13. SessionsInv'
    BY <1>2, <1>12 DEF SessionsInv
  <1>. QED
    BY <1>11, <1>13

\* Two that begin on one voyage race; the legs are read as they are.
LEMMA ReassignSessions == ASSUME IInv, FleetInv, SessionsInv, Reassign PROVE SessionsInv'
  <1>1. CASE ReassignBegins
    <2>1. PICK v \in Touched \cap DOMAIN db.voyages :
             /\ reassignments' = reassignments \cup
                   {[id |-> edits, at |-> "legs", voyage |-> v, ship |-> db.voyages[v].ship,
                     shipSeed |-> db.voyages[v].shipSeed, status |-> db.voyages[v].status, teus |-> <<>>]}
             /\ raced' = raced \cup {s.voyage : s \in {t \in reassignments : t.voyage = v}}
      BY <1>1 DEF ReassignBegins
    <2>2. PICK n : n = [id |-> edits, at |-> "legs", voyage |-> v, ship |-> db.voyages[v].ship,
                        shipSeed |-> db.voyages[v].shipSeed, status |-> db.voyages[v].status, teus |-> <<>>]
      OBVIOUS
    <2>3. reassignments' = reassignments \cup {n} /\ db' = db
          /\ n.voyage = v /\ n.ship = db.voyages[v].ship /\ n.at = "legs"
      BY <1>1, <2>1, <2>2 DEF ReassignBegins
    <2>4. \A t \in reassignments : t.voyage = v => v \in raced'
      BY <2>1
    <2>5. raced \subseteq raced'
      BY <2>1
    <2>6. \A t \in reassignments : SessionFits(t)'
      BY <2>3, <2>5 DEF SessionsInv, SessionFits
    <2>7. SessionFits(n)'
      <3>1. IsSession(n)
        BY <2>2 DEF IsSession
      <3>. QED
        BY <2>3, <3>1 DEF SessionFits, StillReads
    <2>8. \A s, t \in reassignments' : s # t /\ s.voyage = t.voyage => s.voyage \in raced'
      BY <2>3, <2>4, <2>5 DEF SessionsInv
    <2>. QED
      BY <2>3, <2>6, <2>7, <2>8 DEF SessionsInv
  <1>2. ASSUME NEW s \in reassignments, ReassignReadsLegs(s) PROVE SessionsInv'
    <2>1. PICK l : l = db.voyages[s.voyage].legs
      OBVIOUS
    <2>2. PICK n : n = [s EXCEPT !.at = "write", !.teus = [i \in DOMAIN l |-> l[i].teu]]
      OBVIOUS
    <2>3. reassignments' = (reassignments \ {s}) \cup {n} /\ UNCHANGED <<db, raced>>
      BY <1>2, <2>1, <2>2 DEF ReassignReadsLegs
    <2>4. n.voyage = s.voyage /\ n.ship = s.ship /\ n.teus = [i \in DOMAIN l |-> l[i].teu]
      <3>1. IsSession(s)
        BY DEF SessionsInv, SessionFits
      <3>. QED
        BY <2>2, <3>1 DEF IsSession
    <2>5. SessionFits(n)'
      <3>1. SessionFits(s)
        BY DEF SessionsInv
      <3>2. IsSession(n)
        BY <2>2, <3>1 DEF IsSession, SessionFits
      <3>3. \A i \in DOMAIN l : l[i].teu = n.teus[i]
        BY <2>4
      <3>4. s.voyage \in DOMAIN db.voyages
            /\ (s.voyage \notin raced => db.voyages[s.voyage].ship = s.ship)
        BY <3>1 DEF SessionFits, StillReads
      <3>5. s.voyage \notin raced => StillReads(n, db.voyages[s.voyage])
        BY <2>1, <2>4, <3>3, <3>4 DEF StillReads
      <3>6. SessionFits(n)
        BY <2>4, <3>2, <3>4, <3>5 DEF SessionFits
      <3>. QED
        BY <2>3, <3>6 DEF SessionFits
    <2>6. \A t \in reassignments : SessionFits(t)'
      BY <2>3 DEF SessionsInv, SessionFits
    <2>7. \A t \in reassignments \ {s} : t.voyage = n.voyage => n.voyage \in raced
      BY <2>4 DEF SessionsInv
    <2>8. \A t1, t2 \in reassignments' : t1 # t2 /\ t1.voyage = t2.voyage => t1.voyage \in raced
      BY <2>3, <2>7 DEF SessionsInv
    <2>. QED
      BY <2>3, <2>5, <2>6, <2>8 DEF SessionsInv
  <1>3. ASSUME NEW s \in reassignments, ReassignDies(s) PROVE SessionsInv'
    <2>1. reassignments' = reassignments \ {s} /\ UNCHANGED <<db, raced>>
      BY <1>3 DEF ReassignDies
    <2>. QED
      BY <2>1 DEF SessionsInv, SessionFits
  <1>. QED
    BY <1>1, <1>2, <1>3, WriteSessions DEF Reassign

\* Who replaces the voyages has no session in flight after it; others leave them.
LEMMA RequestSessions ==
  ASSUME IInv, SessionsInv, NEW c, Request(c) \/ Dies(c) PROVE SessionsInv'
  <1>1. CASE reassignments' = {}
    BY <1>1 DEF SessionsInv
  <1>2. CASE db'.voyages = db.voyages /\ UNCHANGED races
    BY <1>2, SessionsKept, Unwritten
  <1>3. CASE Clears(c) \/ GenerateWrites(c)
    BY <1>1, <1>3 DEF Clears, GenerateWrites, VoyagesReplaced
  <1>4. CASE SeedsFleet(c)
    BY <1>1, <1>2, <1>4 DEF SeedsFleet, VoyagesReplaced
  <1>5. CASE ResetBegins(c) \/ Refreshes(c) \/ GenerateBegins(c) \/ GenerateReadsPorts(c)
             \/ GenerateReadsShips(c) \/ InsertBegins(c) \/ Dies(c)
    BY <1>2, <1>5 DEF ResetBegins, Refreshes, GenerateBegins, GenerateReadsPorts,
                      GenerateReadsShips, InsertBegins, Dies
  <1>6. CASE Fills(c) \/ BookWrites(c) \/ AddWrites(c)
    <2>1. UNCHANGED races
      BY <1>6 DEF Fills, BookWrites, AddWrites
    <2>2. db' = db \/ \E k, b : \/ db' = [db EXCEPT !.bookings = k, !.boxes = b]
                               \/ db' = [db EXCEPT !.bookings = k]
                               \/ db' = [db EXCEPT !.boxes = b]
      BY <1>6 DEF Fills, BookWrites, AddWrites, Committed
    <2>3. db'.voyages = db.voyages
      BY <2>2 DEF IInv, Shapes, IsDb
    <2>. QED
      BY <1>2, <2>1, <2>3
  <1>. QED
    BY <1>3, <1>4, <1>5, <1>6 DEF Request, Reset, Generate, Insert

LEMMA NextSessions == IInv /\ FleetInv /\ SessionsInv /\ [Next]_vars => SessionsInv'
  <1> SUFFICES ASSUME IInv, FleetInv, SessionsInv, [Next]_vars PROVE SessionsInv'
    OBVIOUS
  <1>1. CASE AdminEdit
    <2>1. VoyagesKept(db.voyages, db'.voyages)
      BY <1>1, AdminSound
    <2>2. UNCHANGED races
      BY <1>1, AdminEdits DEF Edit
    <2>. QED
      BY <2>1, <2>2, SessionsKept
  <1>2. CASE Stop
    BY <1>2 DEF Stop, SessionsInv
  <1>3. CASE Started \/ UNCHANGED vars
    <2>1. UNCHANGED <<db, races>>
      BY <1>3 DEF Started, vars, races
    <2>. QED
      BY <2>1, SessionsKept, Unwritten
  <1>. QED
    BY <1>1, <1>2, <1>3, RequestSessions, ReassignSessions DEF Next

LEMMA NextFleet == IInv /\ CrashInv /\ FleetInv /\ SessionsInv /\ [Next]_vars => FleetInv'
  <1> SUFFICES ASSUME IInv, CrashInv, FleetInv, SessionsInv, [Next]_vars PROVE FleetInv'
    OBVIOUS
  <1>1. CASE \E c \in Clients \cup {Starter} : Request(c)
    <2>1. PICK c \in Parties : Request(c)
      BY <1>1 DEF Parties
    <2>. QED
      BY <2>1, ResetFleet, OtherFleet DEF Request
  <1>2. CASE AdminEdit
    <2>1. VoyagesSound(db'.voyages, raced) /\ db'.lead \in [Ports -> {Lead} \cup LeadEdits]
      BY <1>2, AdminSound
    <2>2. alone' = FALSE /\ db'.seeds = db.seeds /\ UNCHANGED <<request, up, raced>>
      BY <1>2, AdminEdits DEF Edit, Written, Committed, races
    <2>. QED
      BY <2>1, <2>2 DEF FleetInv
  <1>3. CASE Stop
    <2>1. up' = FALSE /\ UNCHANGED <<db, alone, raced>>
      BY <1>3 DEF Stop
    <2>2. \A c \in Parties : request'[c] = Idle
      BY <1>3 DEF Stop, IInv, Shapes
    <2>3. \A c \in Parties : request'[c].ports \in Nat /\ request'[c].ships \in Nat
      BY <2>2, IdleReads
    <2>. QED
      BY <2>1, <2>3 DEF FleetInv
  <1>4. CASE Started
    <2>1. up' = TRUE /\ UNCHANGED <<db, request, alone, raced>>
      BY <1>4 DEF Started, races
    <2>. QED
      BY <2>1 DEF FleetInv
  <1>5. CASE UNCHANGED vars
    BY <1>5 DEF FleetInv, vars
  <1>6. CASE Reassign
    <2>1. /\ db'.seeds = db.seeds /\ db'.lead = db.lead /\ UNCHANGED <<request, up>>
          /\ alone' \in BOOLEAN
      BY <1>6, Reassignments DEF FleetInv
    <2>2. VoyagesSound(db'.voyages, raced')
      <3>1. CASE ReassignBegins
        <4>1. db' = db /\ raced \subseteq raced'
          BY <3>1 DEF ReassignBegins
        <4>. QED
          BY <4>1 DEF FleetInv, VoyagesSound
      <3>2. ASSUME NEW s \in reassignments, ReassignReadsLegs(s) \/ ReassignDies(s)
            PROVE  UNCHANGED <<db, raced>>
        BY <3>2 DEF ReassignReadsLegs, ReassignDies
      <3>3. ASSUME NEW s \in reassignments, ReassignWrites(s)
            PROVE  VoyagesSound(db'.voyages, raced) /\ raced' = raced
        BY <3>3, WriteSessions DEF ReassignWrites
      <3>. QED
        BY <1>6, <3>1, <3>2, <3>3 DEF Reassign, FleetInv
    <2>. QED
      BY <2>1, <2>2 DEF FleetInv
  <1>7. CASE \E c \in Clients \cup {Starter} : Dies(c)
    <2>1. PICK c \in Parties : Dies(c)
      BY <1>7 DEF Parties
    <2>2. request' = [request EXCEPT ![c] = Idle] /\ UNCHANGED <<db, up, alone, raced>>
      BY <2>1 DEF Dies, Ends, races
    <2>3. \A d \in Parties : request'[d].ports \in Nat /\ request'[d].ships \in Nat
      BY <2>2, IdleReads, ReadsGoOn
    <2>. QED
      BY <2>2, <2>3 DEF FleetInv
  <1>. QED
    BY <1>1, <1>2, <1>3, <1>4, <1>5, <1>6, <1>7 DEF Next

-----------------------------------------------------------------------------
(***************************************************************************)
(* Bookings and boxes. A booking of the fixtures whose ports are gone has  *)
(* a box of its reset left, for the boxes whose ports are gone cannot be   *)
(* removed; so a second reset books only while all the first one's         *)
(* bookings have their ports, which are then those of one reset.           *)
(***************************************************************************)
BookingRow == [seed : Nat, body : Body]
FixtureAt(k) == {i \in DOMAIN k : k[i].body \in Range(FixtureBookings)}
Names == {r.name : r \in Numbered(0)}
FixtureBoxes(B) == {b \in B : b.name \in Names}

CargoInv ==
    /\ db.bookings \in Seq(BookingRow)
    /\ \A b \in db.boxes : b.port \in Ports /\ b.seed \in Nat
    /\ \A i \in FixtureAt(db.bookings) :
          /\ db.bookings[i].seed <= resets \/ db.bookings[i].seed \in MaxResets + 1..StartSeed
          /\ \A c \in Parties : request[c].at \in Steps => request[c].seed # db.bookings[i].seed
          /\ db.bookings[i].seed = StartSeed => up \/ db.seeds # {}
          /\ Names # {} /\ db.bookings[i].seed \notin db.seeds
                => \E b \in FixtureBoxes(db.boxes) : b.seed = db.bookings[i].seed
    /\ \A i, j \in FixtureAt(db.bookings) : db.bookings[i].body = db.bookings[j].body =>
          /\ db.bookings[i].seed = db.bookings[j].seed => i = j
          /\ i < j => \A b \in FixtureBoxes(db.boxes) : b.seed = db.bookings[j].seed

LEMMA InitCargo == Init => CargoInv
  <1> SUFFICES ASSUME Init PROVE CargoInv
    OBVIOUS
  <1>1. db.bookings = <<>> /\ db.boxes = {}
    BY DEF Init, Empty
  <1>2. FixtureAt(db.bookings) = {}
    BY <1>1 DEF FixtureAt
  <1>. QED
    BY <1>1, <1>2, EmptySeq DEF CargoInv

\* The fixtures' bookings and boxes that there are after a step were there
\* before it, in the same order; no box was lost whose port is gone.
LEMMA CargoGoesOn ==
  ASSUME SeedsInv, CargoInv, NEW k, NEW B, NEW m, db'.bookings = k, db'.boxes = B,
         k \in Seq(BookingRow), \A b \in B : b.port \in Ports /\ b.seed \in Nat,
         \A i \in FixtureAt(k) : m[i] \in DOMAIN db.bookings /\ db.bookings[m[i]] = k[i],
         \A i, j \in FixtureAt(k) : i < j => m[i] < m[j],
         FixtureBoxes(B) \subseteq FixtureBoxes(db.boxes),
         \A b \in FixtureBoxes(db.boxes) : b.seed \in db.seeds \/ b \in B,
         db.seeds \subseteq db'.seeds,
         resets' \in Nat, resets <= resets',
         \/ restarts' = restarts /\ (up => up')
         \/ restarts' = restarts + 1,
         \A c \in Parties : request'[c].at \in Steps =>
            \/ request[c].at \in Steps /\ request'[c].seed = request[c].seed
            \/ \A i \in FixtureAt(db.bookings) : db.bookings[i].seed # request'[c].seed
  PROVE  CargoInv'
  <1>1. \A i \in FixtureAt(k) : m[i] \in FixtureAt(db.bookings) /\ db.bookings[m[i]] = k[i]
    BY DEF FixtureAt
  <1>2. StartSeed \in Nat /\ StartSeed' \in Nat /\ MaxResets \in Nat /\ resets \in 0..MaxResets
        /\ ((StartSeed' = StartSeed /\ (up => up')) \/ StartSeed' = StartSeed + 1)
        /\ MaxResets < StartSeed
    <2>1. MaxResets \in Nat /\ resets \in 0..MaxResets /\ restarts \in Nat
      BY PartiesSplit DEF SeedsInv
    <2>2. StartSeed = MaxResets + 1 + restarts /\ StartSeed' = MaxResets + 1 + restarts'
      BY DEF StartSeed
    <2>3. CASE restarts' = restarts /\ (up => up')
      <3>1. StartSeed' = StartSeed
        BY <2>2, <2>3
      <3>2. StartSeed \in Nat /\ MaxResets < StartSeed
        BY <2>1, <2>2
      <3>. QED
        BY <2>1, <2>3, <3>1, <3>2
    <2>4. CASE restarts' = restarts + 1
      <3>1. /\ StartSeed \in Nat /\ MaxResets < StartSeed
            /\ StartSeed' \in Nat /\ StartSeed' = StartSeed + 1
        BY <2>1, <2>2, <2>4
      <3>. QED
        BY <2>1, <3>1
    <2>. QED
      BY <2>3, <2>4
  <1>3. \A i \in FixtureAt(k) : i \in Int /\ k[i].seed \in Nat
    <2>1. DOMAIN k = 1..Len(k) /\ Len(k) \in Nat
      BY LenProperties
    <2>2. \A i \in 1..Len(k) : k[i] \in BookingRow
      BY ElementOfSeq
    <2>. QED
      BY <2>1, <2>2 DEF FixtureAt, BookingRow
  <1>4. ASSUME NEW i \in FixtureAt(k)
        PROVE  /\ k[i].seed <= resets' \/ k[i].seed \in MaxResets + 1..StartSeed'
               /\ \A c \in Parties : request'[c].at \in Steps => request'[c].seed # k[i].seed
               /\ k[i].seed = StartSeed' => up' \/ db'.seeds # {}
               /\ Names # {} /\ k[i].seed \notin db'.seeds => \E b \in FixtureBoxes(B) : b.seed = k[i].seed
    <2>1. PICK n \in FixtureAt(db.bookings) : db.bookings[n] = k[i]
      BY <1>1
    <2>2. k[i].seed <= resets \/ k[i].seed \in MaxResets + 1..StartSeed
      BY <2>1 DEF CargoInv
    <2>3. k[i].seed <= resets' \/ k[i].seed \in MaxResets + 1..StartSeed'
      BY <1>2, <1>3, <2>2
    <2>4. \A c \in Parties : request'[c].at \in Steps => request'[c].seed # k[i].seed
      BY <2>1 DEF CargoInv
    <2>5. k[i].seed = StartSeed' => up' \/ db'.seeds # {}
      <3>1. k[i].seed = StartSeed => up \/ db.seeds # {}
        BY <2>1 DEF CargoInv
      <3>. QED
        BY <1>2, <1>3, <2>2, <3>1
    <2>6. ASSUME Names # {}, k[i].seed \notin db'.seeds PROVE \E b \in FixtureBoxes(B) : b.seed = k[i].seed
      <3>1. PICK b \in FixtureBoxes(db.boxes) : b.seed = k[i].seed
        BY <2>1, <2>6 DEF CargoInv
      <3>2. b \in FixtureBoxes(B)
        BY <2>6, <3>1 DEF FixtureBoxes
      <3>. QED
        BY <3>1, <3>2
    <2>. QED
      BY <2>3, <2>4, <2>5, <2>6
  <1>5. ASSUME NEW i \in FixtureAt(k), NEW j \in FixtureAt(k), k[i].body = k[j].body
        PROVE  /\ k[i].seed = k[j].seed => i = j
               /\ i < j => \A b \in FixtureBoxes(B) : b.seed = k[j].seed
    <2>1. m[i] \in FixtureAt(db.bookings) /\ db.bookings[m[i]] = k[i]
          /\ m[j] \in FixtureAt(db.bookings) /\ db.bookings[m[j]] = k[j]
      BY <1>1
    <2>2. k[i].seed = k[j].seed => m[i] = m[j]
      BY <1>5, <2>1 DEF CargoInv
    <2>3. i \in Int /\ j \in Int /\ (i < j => m[i] < m[j]) /\ (j < i => m[j] < m[i])
      BY <1>3
    <2>4. m[i] \in Int /\ m[j] \in Int
      <3>1. DOMAIN db.bookings = 1..Len(db.bookings)
        BY LenProperties DEF CargoInv
      <3>. QED
        BY <2>1, <3>1 DEF FixtureAt
    <2>5. k[i].seed = k[j].seed => i = j
      BY <2>2, <2>3, <2>4
    <2>6. i < j => \A b \in FixtureBoxes(db.boxes) : b.seed = k[j].seed
      BY <1>5, <2>1, <2>3 DEF CargoInv
    <2>. QED
      BY <2>5, <2>6
  <1>. QED
    BY <1>4, <1>5 DEF CargoInv

\* Neither bookings nor boxes change.
LEMMA CargoStays ==
  ASSUME SeedsInv, CargoInv, db'.bookings = db.bookings, db'.boxes = db.boxes, db.seeds \subseteq db'.seeds,
         resets' \in Nat, resets <= resets',
         \/ restarts' = restarts /\ (up => up')
         \/ restarts' = restarts + 1,
         \A c \in Parties : request'[c].at \in Steps =>
            \/ request[c].at \in Steps /\ request'[c].seed = request[c].seed
            \/ \A i \in FixtureAt(db.bookings) : db.bookings[i].seed # request'[c].seed
  PROVE  CargoInv'
  <1> DEFINE m == [i \in DOMAIN db.bookings |-> i]
  <1>1. PICK k : k = db.bookings
    OBVIOUS
  <1>2. PICK B : B = db.boxes
    OBVIOUS
  <1>3. \A i \in FixtureAt(k) : m[i] \in DOMAIN db.bookings /\ db.bookings[m[i]] = k[i] /\ m[i] = i
    BY <1>1 DEF FixtureAt
  <1>4. k \in Seq(BookingRow) /\ (\A b \in B : b.port \in Ports /\ b.seed \in Nat)
    BY <1>1, <1>2 DEF CargoInv
  <1> HIDE DEF m
  <1>5. \A i, j \in FixtureAt(k) : i < j => m[i] < m[j]
    BY <1>3
  <1>6. db'.bookings = k /\ db'.boxes = B /\ FixtureBoxes(B) \subseteq FixtureBoxes(db.boxes)
        /\ \A b \in FixtureBoxes(db.boxes) : b \in B
    BY <1>1, <1>2 DEF FixtureBoxes
  <1>. QED
    BY <1>3, <1>4, <1>5, <1>6, CargoGoesOn

\* Every reset names its boxes alike.
LEMMA NamesOfReset ==
  ASSUME NEW s
  PROVE  /\ \A x : x \in Names <=> \E b \in Numbered(s) : b.name = x
         /\ \A b \in Numbered(s) : b.port \in Ports /\ b.seed = s
  <1>1. \A t, b : b \in Numbered(t) <=> \E q \in Ports : \E i \in 1..FixtureStock[q] :
                                          b = [name |-> <<q, i>>, port |-> q, seed |-> t]
    BY DEF Numbered
  <1>2. \A b \in Numbered(s) : b.port \in Ports /\ b.seed = s
    BY <1>1
  <1>3. ASSUME NEW x, x \in Names PROVE \E b \in Numbered(s) : b.name = x
    <2>1. PICK r \in Numbered(0) : r.name = x
      BY <1>3 DEF Names
    <2>2. PICK q \in Ports : \E i \in 1..FixtureStock[q] : r = [name |-> <<q, i>>, port |-> q, seed |-> 0]
      BY <1>1
    <2>3. PICK i \in 1..FixtureStock[q] : r = [name |-> <<q, i>>, port |-> q, seed |-> 0]
      BY <2>2
    <2>4. [name |-> <<q, i>>, port |-> q, seed |-> s] \in Numbered(s)
      BY <1>1
    <2>. QED
      BY <2>1, <2>3, <2>4
  <1>4. ASSUME NEW b \in Numbered(s) PROVE b.name \in Names
    <2>1. PICK q \in Ports : \E i \in 1..FixtureStock[q] : b = [name |-> <<q, i>>, port |-> q, seed |-> s]
      BY <1>1
    <2>2. PICK i \in 1..FixtureStock[q] : b = [name |-> <<q, i>>, port |-> q, seed |-> s]
      BY <2>1
    <2>3. [name |-> <<q, i>>, port |-> q, seed |-> 0] \in Numbered(0)
      BY <1>1
    <2>. QED
      BY <2>2, <2>3 DEF Names
  <1>. QED
    BY <1>2, <1>3, <1>4

\* A box added by an admin is none of a reset's.
LEMMA AddedName == ASSUME NEW p, NEW n PROVE <<p, "X", n>> \notin Names
  <1> SUFFICES ASSUME <<p, "X", n>> \in Names PROVE FALSE
    OBVIOUS
  <1>1. PICK r \in Numbered(0) : r.name = <<p, "X", n>>
    BY DEF Names
  <1>2. PICK q \in Ports : \E i \in 1..FixtureStock[q] : r = [name |-> <<q, i>>, port |-> q, seed |-> 0]
    BY DEF Numbered
  <1>3. PICK i \in 1..FixtureStock[q] : r = [name |-> <<q, i>>, port |-> q, seed |-> 0]
    BY <1>2
  <1>4. <<p, "X", n>> = <<q, i>>
    BY <1>1, <1>3
  <1>5. DOMAIN <<p, "X", n>> = 1..3 /\ DOMAIN <<q, i>> = 1..2
    OBVIOUS
  <1>6. 1..3 = 1..2
    BY <1>4, <1>5
  <1>7. 3 \in 1..3 /\ 3 \notin 1..2
    OBVIOUS
  <1>. QED
    BY <1>6, <1>7

\* The bodies an admin writes are bodies, and none of the fixtures'.
LEMMA FixtureBodies ==
  \A f \in Range(FixtureBookings) :
     f \in Cargo /\ f \in Body /\ \A n \in NewBookings : n.quantity # f.quantity
  <1> SUFFICES ASSUME NEW f \in Range(FixtureBookings)
               PROVE  f \in Cargo /\ f \in Body /\ \A n \in NewBookings : n.quantity # f.quantity
    OBVIOUS
  <1>1. PICK i \in DOMAIN FixtureBookings : f = FixtureBookings[i]
    BY DEF Range
  <1>2. FixtureBookings \in Seq(Cargo) /\ \A n \in NewBookings : FixtureBookings[i].quantity # n.quantity
    BY WorldAssumption
  <1>3. i \in 1..Len(FixtureBookings)
    BY <1>2, LenProperties
  <1>4. f \in Cargo
    BY <1>1, <1>2, <1>3, ElementOfSeq
  <1>. QED
    BY <1>1, <1>2, <1>4 DEF Body

LEMMA BodyPorts == ASSUME NEW b \in Body PROVE b.origin \in Ports /\ b.destination \in Ports
  BY DEF Body, Cargo

LEMMA WrittenBody ==
  ASSUME NEW n \in NewBookings, NEW e \in Body,
         NEW b, b = [n EXCEPT !.origin = e.origin, !.destination = e.destination]
  PROVE  b \in Body /\ b \notin Range(FixtureBookings)
  <1>1. n \in Cargo
    BY WorldAssumption
  <1>2. b.origin = e.origin /\ b.destination = e.destination /\ b.quantity = n.quantity
        /\ b = [origin |-> b.origin, destination |-> b.destination, quantity |-> b.quantity]
        /\ n.quantity \in Nat
    BY <1>1 DEF Cargo
  <1>3. b \in Cargo
    BY <1>2, BodyPorts DEF Cargo
  <1>. QED
    BY <1>2, <1>3, FixtureBodies DEF Body

LEMMA BookedBody == ASSUME NEW n \in NewBookings PROVE n \in Body /\ n \notin Range(FixtureBookings)
  BY WorldAssumption, FixtureBodies DEF Body

\* The bookings of a reset, one for each of the fixtures'.
LEMMA RowsOfFixtures ==
  ASSUME NEW s \in Nat
  PROVE  /\ FixtureRows(s) \in Seq(BookingRow) /\ Len(FixtureRows(s)) = Len(FixtureBookings)
         /\ \A i \in 1..Len(FixtureBookings) : FixtureRows(s)[i] = [seed |-> s, body |-> FixtureBookings[i]]
  <1>1. FixtureBookings \in Seq(Cargo)
    BY WorldAssumption
  <1>2. Len(FixtureBookings) \in Nat /\ DOMAIN FixtureBookings = 1..Len(FixtureBookings)
    BY <1>1, LenProperties
  <1> DEFINE e(i) == [seed |-> s, body |-> FixtureBookings[i]]
  <1>3. \A i \in 1..Len(FixtureBookings) : e(i) \in BookingRow
    BY <1>2, FixtureBodies DEF Range, BookingRow
  <1>4. FixtureRows(s) = [i \in 1..Len(FixtureBookings) |-> e(i)]
    BY <1>2 DEF FixtureRows
  <1>5. \A i \in 1..Len(FixtureBookings) : FixtureRows(s)[i] = e(i)
    BY <1>4
  <1> HIDE DEF e
  <1>6. [i \in 1..Len(FixtureBookings) |-> e(i)] \in Seq(BookingRow)
    BY <1>2, <1>3, IsASeq
  <1>7. Len(FixtureRows(s)) = Len(FixtureBookings)
    <2>1. DOMAIN FixtureRows(s) = 1..Len(FixtureBookings)
      BY <1>4
    <2>2. FixtureRows(s) \in Seq(BookingRow)
      BY <1>4, <1>6
    <2>3. 1..Len(FixtureRows(s)) = 1..Len(FixtureBookings) /\ Len(FixtureRows(s)) \in Nat
      BY <2>1, <2>2, LenProperties
    <2>. QED
      BY <1>2, <2>3
  <1>. QED
    BY <1>4, <1>5, <1>6, <1>7 DEF e

\* A reset books when no box of the fixtures is there: all bookings of
\* theirs before it have their ports, so they are of one reset.
LEMMA FillsCargo ==
  ASSUME IInv, CrashInv, FleetInv, CargoInv, NEW c \in Parties, Fills(c) PROVE CargoInv'
  <1> DEFINE s == request[c].seed
             R == FixtureRows(s)
             n == Len(db.bookings)
  <1>1. request[c].at = "fill" /\ request' = [request EXCEPT ![c] = Idle]
        /\ UNCHANGED <<up, restarts, resets>>
    BY DEF Fills, Ends
  <1>2. request'[c] = Idle /\ \A d \in Parties : d # c => request'[d] = request[d]
    BY <1>1 DEF IInv, Shapes
  <1>3. Idle.at \notin Steps
    BY IdleShape DEF Steps
  <1>4. resets \in Nat /\ \A d \in Parties : request'[d].at \in Steps =>
                            d # c /\ request[d].at \in Steps /\ request'[d].seed = request[d].seed
    BY <1>2, <1>3, PartiesSplit DEF CrashInv, SeedsInv
  <1>5. CASE ~CanFill(db, s)
    <2>1. db' = db
      BY <1>5 DEF Fills
    <2>2. SeedsInv /\ db.seeds \subseteq db'.seeds /\ resets <= resets'
      BY <1>1, <1>4, <2>1 DEF CrashInv
    <2>. QED
      BY <1>1, <1>4, <2>1, <2>2, CargoStays
  <1>6. CASE CanFill(db, s)
    <2>1. request[c].at \in Steps /\ request[c].at \in Filling
      BY <1>1 DEF Steps, Filling
    <2>2. s \in Nat
      BY <2>1, KeyIsPositive DEF CrashInv
    <2>3. PICK k : k = db.bookings \o R
      OBVIOUS
    <2>4. PICK B : B = db.boxes \cup Numbered(s)
      OBVIOUS
    <2>5. db' = [db EXCEPT !.bookings = k, !.boxes = B]
      BY <1>6, <2>3, <2>4 DEF Fills
    <2>6. db'.bookings = k /\ db'.boxes = B /\ db'.seeds = db.seeds
      BY <2>5 DEF IInv, Shapes, IsDb
    <2>7. FixtureBoxes(db.boxes) = {}
      <3>1. ~\E a \in db.boxes, b \in Numbered(s) : a.name = b.name
        BY <1>6 DEF CanFill, NameTaken
      <3>. QED
        BY <3>1, NamesOfReset DEF FixtureBoxes
    <2>8. /\ \A b \in FixtureBoxes(B) : b.seed = s
          /\ Names # {} => \E b \in FixtureBoxes(B) : b.seed = s
          /\ \A b \in B : b.port \in Ports /\ b.seed \in Nat
      <3>1. \A b \in FixtureBoxes(B) : b \in Numbered(s)
        BY <2>4, <2>7 DEF FixtureBoxes
      <3>2. \A b \in Numbered(s) : b \in FixtureBoxes(B)
        BY <2>4, NamesOfReset DEF FixtureBoxes
      <3>3. Names # {} => \E b \in Numbered(s) : TRUE
        BY NamesOfReset
      <3>4. \A b \in Numbered(s) : b.port \in Ports /\ b.seed = s
        BY NamesOfReset
      <3>. QED
        BY <2>2, <2>4, <3>1, <3>2, <3>3, <3>4 DEF CargoInv
    <2>9. /\ db.bookings \in Seq(BookingRow) /\ n \in Nat /\ DOMAIN db.bookings = 1..n
          /\ R \in Seq(BookingRow) /\ Len(R) \in Nat /\ Len(R) = Len(FixtureBookings)
          /\ \A i \in 1..Len(R) : R[i] = [seed |-> s, body |-> FixtureBookings[i]]
      BY <2>2, RowsOfFixtures, LenProperties DEF CargoInv
    <2>10. /\ k \in Seq(BookingRow) /\ DOMAIN k = 1..n + Len(R)
           /\ \A i \in 1..n : k[i] = db.bookings[i]
           /\ \A i \in n + 1..n + Len(R) : k[i] = R[i - n] /\ i - n \in 1..Len(R)
      <3>1. PICK q : q = db.bookings
        OBVIOUS
      <3>2. q \in Seq(BookingRow) /\ n = Len(q) /\ k = q \o R
        BY <2>3, <2>9, <3>1
      <3>3. R \in Seq(BookingRow)
        BY <2>9
      <3> HIDE DEF R
      <3>4. /\ q \o R \in Seq(BookingRow) /\ Len(q \o R) = Len(q) + Len(R)
            /\ \A i \in 1..Len(q) + Len(R) : (q \o R)[i] = IF i <= Len(q) THEN q[i] ELSE R[i - Len(q)]
        BY <3>2, <3>3, ConcatProperties
      <3> HIDE DEF n
      <3>5. k \in Seq(BookingRow) /\ Len(k) = n + Len(R)
            /\ \A i \in 1..n + Len(R) : k[i] = IF i <= n THEN q[i] ELSE R[i - n]
        BY <3>2, <3>4
      <3>6. DOMAIN k = 1..n + Len(R)
        BY <3>5, LenProperties
      <3>7. \A i \in 1..n : k[i] = q[i]
        BY <2>9, <3>5
      <3>8. \A i \in n + 1..n + Len(R) : k[i] = R[i - n] /\ i - n \in 1..Len(R)
        BY <2>9, <3>5
      <3>. QED
        BY <3>1, <3>5, <3>6, <3>7, <3>8
    <2>11. \A i \in FixtureAt(k) :
              \/ i \in FixtureAt(db.bookings) /\ i \in 1..n /\ k[i] = db.bookings[i]
              \/ /\ i \in n + 1..n + Len(R) /\ i - n \in 1..Len(R) /\ k[i].seed = s
                 /\ k[i].body = FixtureBookings[i - n]
      <3> SUFFICES ASSUME NEW i \in FixtureAt(k)
                   PROVE  \/ i \in FixtureAt(db.bookings) /\ i \in 1..n /\ k[i] = db.bookings[i]
                          \/ /\ i \in n + 1..n + Len(R) /\ i - n \in 1..Len(R) /\ k[i].seed = s
                             /\ k[i].body = FixtureBookings[i - n]
        OBVIOUS
      <3> HIDE DEF R, n, s
      <3>1. i \in 1..n + Len(R) /\ k[i].body \in Range(FixtureBookings)
        BY <2>10 DEF FixtureAt
      <3>2. CASE i \in 1..n
        BY <2>9, <2>10, <3>1, <3>2 DEF FixtureAt
      <3>3. CASE i \in n + 1..n + Len(R)
        <4>1. i - n \in 1..Len(R) /\ k[i] = R[i - n]
          BY <2>10, <3>3
        <4>2. k[i] = [seed |-> s, body |-> FixtureBookings[i - n]]
          BY <2>9, <4>1
        <4>. QED
          BY <3>3, <4>1, <4>2
      <3>. QED
        BY <2>9, <3>1, <3>2, <3>3
    <2>12. \A i \in FixtureAt(db.bookings) : db.bookings[i].seed # s
      BY <2>1 DEF CargoInv
    <2>13. SeedsInv /\ MaxResets \in Nat /\ StartSeed' = StartSeed /\ StartSeed = MaxResets + 1 + restarts
           /\ restarts \in Nat /\ resets \in 0..MaxResets
      BY <1>1, PartiesSplit DEF CrashInv, SeedsInv, StartSeed
    <2>14. (s \in 1..resets) \/ (s = StartSeed /\ db.seeds # {})
      BY <2>1, <2>13, PartiesSplit DEF SeedsInv
    <2>15. ASSUME NEW i \in FixtureAt(k)
           PROVE  /\ k[i].seed <= resets \/ k[i].seed \in MaxResets + 1..StartSeed
                  /\ \A d \in Parties : request'[d].at \in Steps => request'[d].seed # k[i].seed
                  /\ k[i].seed = StartSeed => up \/ db.seeds # {}
                  /\ Names # {} /\ k[i].seed \notin db.seeds => \E b \in FixtureBoxes(B) : b.seed = k[i].seed
      <3>1. CASE i \in FixtureAt(db.bookings) /\ k[i] = db.bookings[i]
        <4>1. \A d \in Parties : request'[d].at \in Steps => request'[d].seed # k[i].seed
          BY <1>4, <3>1 DEF CargoInv
        <4>2. Names # {} => k[i].seed \in db.seeds
          BY <2>7, <3>1 DEF CargoInv
        <4>. QED
          BY <3>1, <4>1, <4>2 DEF CargoInv
      <3>2. CASE k[i].seed = s
        <4>1. \A d \in Parties : request'[d].at \in Steps => request'[d].seed # s
          BY <1>4, <2>1 DEF CrashInv, SeedsInv
        <4> HIDE DEF s
        <4>2. s <= resets \/ s \in MaxResets + 1..StartSeed
          BY <2>13, <2>14
        <4>3. s = StartSeed => db.seeds # {}
          BY <2>13, <2>14
        <4>. QED
          BY <2>8, <3>2, <4>1, <4>2, <4>3
      <3>. QED
        BY <2>11, <3>1, <3>2
    <2>16. ASSUME NEW i \in FixtureAt(k), NEW j \in FixtureAt(k), k[i].body = k[j].body
           PROVE  /\ k[i].seed = k[j].seed => i = j
                  /\ i < j => \A b \in FixtureBoxes(B) : b.seed = k[j].seed
      <3> HIDE DEF R, n, s
      <3>1. CASE i \in FixtureAt(db.bookings) /\ i \in 1..n /\ k[i] = db.bookings[i]
                 /\ j \in FixtureAt(db.bookings) /\ j \in 1..n /\ k[j] = db.bookings[j]
        <4>1. k[i].seed = k[j].seed => i = j
          BY <2>16, <3>1 DEF CargoInv
        <4>2. CASE Names = {}
          <5>1. FixtureBoxes(B) = {}
            BY <4>2 DEF FixtureBoxes
          <5>. QED
            BY <4>1, <5>1
        <4>3. CASE Names # {}
          <5>1. k[i].seed \in db.seeds /\ k[j].seed \in db.seeds
            BY <2>7, <3>1, <4>3 DEF CargoInv
          <5>2. k[i].seed = k[j].seed
            BY <5>1 DEF FleetInv
          <5>. QED
            BY <3>1, <4>1, <5>2
        <4>. QED
          BY <4>2, <4>3
      <3>2. CASE i \in FixtureAt(db.bookings) /\ i \in 1..n /\ k[i] = db.bookings[i]
                 /\ j \in n + 1..n + Len(R) /\ k[j].seed = s
        <4>1. k[i].seed # k[j].seed
          BY <2>12, <3>2
        <4>. QED
          BY <2>8, <3>2, <4>1
      <3>3. CASE j \in FixtureAt(db.bookings) /\ j \in 1..n /\ k[j] = db.bookings[j]
                 /\ i \in n + 1..n + Len(R) /\ k[i].seed = s
        <4>1. k[i].seed # k[j].seed
          BY <2>12, <3>3
        <4>2. ~(i < j)
          BY <2>9, <3>3
        <4>. QED
          BY <4>1, <4>2
      <3>4. CASE /\ i \in n + 1..n + Len(R) /\ i - n \in 1..Len(R) /\ k[i].body = FixtureBookings[i - n]
                 /\ j \in n + 1..n + Len(R) /\ j - n \in 1..Len(R) /\ k[j].body = FixtureBookings[j - n]
        <4>1. DOMAIN FixtureBookings = 1..Len(R)
          BY <2>9, LenProperties, WorldAssumption
        <4>2. i - n = j - n
          BY <2>16, <3>4, <4>1, WorldAssumption
        <4>3. i = j
          BY <2>9, <3>4, <4>2
        <4>. QED
          BY <2>9, <3>4, <4>3
      <3>. QED
        BY <2>11, <3>1, <3>2, <3>3, <3>4
    <2>17. /\ \A i \in FixtureAt(k) :
                /\ k[i].seed <= resets' \/ k[i].seed \in MaxResets + 1..StartSeed'
                /\ \A d \in Parties : request'[d].at \in Steps => request'[d].seed # k[i].seed
                /\ k[i].seed = StartSeed' => up' \/ db'.seeds # {}
                /\ Names # {} /\ k[i].seed \notin db'.seeds => \E b \in FixtureBoxes(B) : b.seed = k[i].seed
      BY <1>1, <2>6, <2>13, <2>15
    <2>18. k \in Seq(BookingRow)
      BY <2>10
    <2>. HIDE DEF R, n, s
    <2>. QED
      BY <2>6, <2>8, <2>16, <2>17, <2>18 DEF CargoInv
  <1>. QED
    BY <1>5, <1>6

\* No reset gets a key from a request that changes.
LEMMA KeysGoOn ==
  ASSUME IInv, NEW c \in Parties, NEW r, request' = [request EXCEPT ![c] = r],
         r.at \in Steps => request[c].at \in Steps /\ r.seed = request[c].seed
  PROVE  \A d \in Parties : request'[d].at \in Steps => request[d].at \in Steps /\ request'[d].seed = request[d].seed
  BY DEF IInv, Shapes

\* Bookings and boxes in a step that adds no reset.
LEMMA CargoLeft ==
  ASSUME IInv, CrashInv, CargoInv, db'.bookings = db.bookings, db'.boxes = db.boxes,
         db.seeds \subseteq db'.seeds, UNCHANGED <<resets, restarts>>, up => up',
         \A d \in Parties : request'[d].at \in Steps => request[d].at \in Steps /\ request'[d].seed = request[d].seed
  PROVE  CargoInv'
  <1>1. SeedsInv /\ resets \in Nat
    BY PartiesSplit DEF CrashInv, SeedsInv
  <1>2. resets' \in Nat /\ resets <= resets' /\ restarts' = restarts
    BY <1>1
  <1>. QED
    BY <1>1, <1>2, CargoStays

\* The key of a reset that begins is no booking's.
LEMMA ResetBeginsCargo ==
  ASSUME IInv, CrashInv, FleetInv, CargoInv, NEW c \in Parties, ResetBegins(c) PROVE CargoInv'
  <1> DEFINE r == [Idle EXCEPT !.op = "reset", !.at = "clear", !.seed = NewSeed(c)]
  <1>1. request' = [request EXCEPT ![c] = r] /\ UNCHANGED <<db, up, restarts>>
    BY DEF ResetBegins
  <1>2. r.seed = NewSeed(c)
    BY DEF Idle
  <1> HIDE DEF r
  <1>3. /\ resets \in 0..MaxResets /\ resets' \in Nat /\ resets <= resets' /\ MaxResets \in Nat
        /\ restarts \in Nat /\ StartSeed = MaxResets + 1 + restarts
    BY PartiesSplit DEF ResetBegins, CrashInv, SeedsInv, StartSeed
  <1>4. \/ resets < MaxResets /\ r.seed = resets + 1
        \/ ~up /\ db.seeds = {} /\ r.seed = StartSeed
    BY <1>2, <1>3 DEF ResetBegins, NewSeed, NeedsSeeding, StartSeed
  <1>5. ASSUME NEW i \in FixtureAt(db.bookings) PROVE db.bookings[i].seed # r.seed
    <2>1. db.bookings[i].seed <= resets \/ db.bookings[i].seed \in MaxResets + 1..StartSeed
      BY DEF CargoInv
    <2>2. db.bookings[i].seed = StartSeed => up \/ db.seeds # {}
      BY DEF CargoInv
    <2>3. db.bookings[i].seed \in Nat
      <3>1. PICK q : q = db.bookings
        OBVIOUS
      <3>2. q \in Seq(BookingRow) /\ i \in DOMAIN q
        BY <3>1 DEF CargoInv, FixtureAt
      <3>3. i \in 1..Len(q)
        BY <3>2, LenProperties
      <3>4. q[i] \in BookingRow
        BY <3>2, <3>3, ElementOfSeq
      <3>. QED
        BY <3>1, <3>4 DEF BookingRow
    <2>4. CASE resets < MaxResets /\ r.seed = resets + 1
      BY <1>3, <2>1, <2>3, <2>4
    <2>5. CASE ~up /\ db.seeds = {} /\ r.seed = StartSeed
      BY <2>2, <2>5
    <2>. QED
      BY <1>4, <2>4, <2>5
  <1>6. \A d \in Parties : request'[d].at \in Steps =>
           \/ request[d].at \in Steps /\ request'[d].seed = request[d].seed
           \/ \A i \in FixtureAt(db.bookings) : db.bookings[i].seed # request'[d].seed
    BY <1>1, <1>5 DEF IInv, Shapes
  <1>7. SeedsInv /\ db.seeds \subseteq db'.seeds
    BY <1>1 DEF CrashInv
  <1>. QED
    BY <1>1, <1>3, <1>6, <1>7, CargoStays

LEMMA ResetCargo ==
  ASSUME IInv, CrashInv, FleetInv, CargoInv, NEW c \in Parties, Reset(c) PROVE CargoInv'
  <1>1. CASE Clears(c)
    <2>1. db'.bookings = <<>> /\ db'.boxes = {}
      BY <1>1 DEF Clears, Empty
    <2>2. FixtureAt(db'.bookings) = {}
      BY <2>1 DEF FixtureAt
    <2>. QED
      BY <2>1, <2>2, EmptySeq DEF CargoInv
  <1>2. CASE SeedsFleet(c)
    <2> DEFINE r == [request[c] EXCEPT !.at = "refresh"]
    <2>1. UNCHANGED <<resets, restarts, up>> /\ request[c].at \in Steps
      BY <1>2 DEF SeedsFleet, Steps
    <2>2. CanSeed(db) => request' = [request EXCEPT ![c] = r]
      BY <1>2 DEF SeedsFleet
    <2>3. ~CanSeed(db) => request' = [request EXCEPT ![c] = Idle] /\ db' = db
      BY <1>2 DEF SeedsFleet, Ends
    <2>4. db'.bookings = db.bookings /\ db'.boxes = db.boxes /\ db.seeds \subseteq db'.seeds
      <3> DEFINE s == request[c].seed
                 v == Scheduled(BaseHorizon, BaseFirm, s, s)
                 l == [p \in Ports |-> Lead]
      <3>1. CanSeed(db) => db' = [db EXCEPT !.seeds = @ \cup {s}, !.fleets = @ \cup {s}, !.lead = l, !.voyages = v]
        BY <1>2 DEF SeedsFleet
      <3> HIDE DEF s, v, l
      <3>2. CASE CanSeed(db)
        BY <3>1, <3>2 DEF IInv, Shapes, IsDb
      <3>3. CASE ~CanSeed(db)
        BY <2>3, <3>3
      <3>. QED
        BY <3>2, <3>3
    <2>5. r.seed = request[c].seed
      BY DEF IInv, Shapes, RequestType
    <2>6. Idle.at \notin Steps
      BY IdleShape DEF Steps
    <2> HIDE DEF r
    <2>7. \A d \in Parties : request'[d].at \in Steps => request[d].at \in Steps /\ request'[d].seed = request[d].seed
      BY <2>1, <2>2, <2>3, <2>5, <2>6, KeysGoOn
    <2>. QED
      BY <2>1, <2>7, <2>4, CargoLeft
  <1>3. CASE Refreshes(c)
    <2> DEFINE r == [request[c] EXCEPT !.at = "fill"]
    <2>1. UNCHANGED <<db, resets, restarts, up>> /\ request[c].at \in Steps
          /\ (request' = [request EXCEPT ![c] = r] \/ request' = [request EXCEPT ![c] = Idle])
      BY <1>3 DEF Refreshes, Ends, Steps
    <2>2. r.seed = request[c].seed
      BY DEF IInv, Shapes, RequestType
    <2>3. Idle.at \notin Steps
      BY IdleShape DEF Steps
    <2> HIDE DEF r
    <2>4. \A d \in Parties : request'[d].at \in Steps => request[d].at \in Steps /\ request'[d].seed = request[d].seed
      BY <2>1, <2>2, <2>3, KeysGoOn
    <2>. QED
      BY <2>1, <2>4, CargoLeft
  <1>. QED
    BY <1>1, <1>2, <1>3, ResetBeginsCargo, FillsCargo DEF Reset

\* What is written by requests other than resets, and by edits, leaves the
\* bookings and boxes of the fixtures, the first as a part of the list.
LEMMA CargoKept ==
  ASSUME IInv, CrashInv, CargoInv, NEW k, NEW B, NEW m, db'.bookings = k, db'.boxes = B,
         k \in Seq(BookingRow), \A b \in B : b.port \in Ports /\ b.seed \in Nat,
         \A i \in FixtureAt(k) : m[i] \in DOMAIN db.bookings /\ db.bookings[m[i]] = k[i],
         \A i, j \in FixtureAt(k) : i < j => m[i] < m[j],
         FixtureBoxes(B) \subseteq FixtureBoxes(db.boxes),
         \A b \in FixtureBoxes(db.boxes) : b.seed \in db.seeds \/ b \in B,
         UNCHANGED <<resets, restarts, up>>, db'.seeds = db.seeds,
         \A d \in Parties : request'[d].at \in Steps => request[d].at \in Steps /\ request'[d].seed = request[d].seed
  PROVE  CargoInv'
  <1>1. SeedsInv /\ resets \in Nat
    BY PartiesSplit DEF CrashInv, SeedsInv
  <1>2. resets' \in Nat /\ resets <= resets' /\ restarts' = restarts /\ (up => up') /\ db.seeds \subseteq db'.seeds
    BY <1>1
  <1>. QED
    BY <1>1, <1>2, CargoGoesOn

\* The list without one booking.
LEMMA BookingDeleted ==
  ASSUME IInv, CrashInv, CargoInv, NEW n \in DOMAIN db.bookings,
         db'.bookings = RemoveAt(db.bookings, n), db'.boxes = db.boxes,
         UNCHANGED <<resets, restarts, up>>, db'.seeds = db.seeds,
         \A d \in Parties : request'[d].at \in Steps => request[d].at \in Steps /\ request'[d].seed = request[d].seed
  PROVE  CargoInv'
  <1>1. PICK q : q = db.bookings
    OBVIOUS
  <1>2. PICK k : k = RemoveAt(q, n)
    OBVIOUS
  <1>3. q \in Seq(BookingRow) /\ n \in DOMAIN q
    BY <1>1 DEF CargoInv
  <1>4. Len(q) \in Nat /\ DOMAIN q = 1..Len(q) /\ n \in 1..Len(q) /\ \A i \in 1..Len(q) : q[i] \in BookingRow
    BY <1>3, LenProperties, ElementOfSeq
  <1>5. PICK g : g = SubSeq(q, 1, n - 1)
    OBVIOUS
  <1>6. PICK h : h = SubSeq(q, n + 1, Len(q))
    OBVIOUS
  <1>7. g \in Seq(BookingRow) /\ Len(g) = n - 1 /\ \A i \in 1..n - 1 : g[i] = q[i]
    <2>1. \A i \in 1..n - 1 : q[i] \in BookingRow
      BY <1>4
    <2>2. g \in Seq(BookingRow) /\ (Len(g) = IF 1 <= n - 1 THEN n - 1 - 1 + 1 ELSE 0)
          /\ \A i \in 1..n - 1 - 1 + 1 : g[i] = q[1 + i - 1]
      BY <1>4, <1>5, <2>1, SubSeqProperties
    <2>. QED
      BY <1>4, <2>2
  <1>8. h \in Seq(BookingRow) /\ Len(h) = Len(q) - n /\ \A i \in 1..Len(q) - n : h[i] = q[n + i]
    <2>1. \A i \in n + 1..Len(q) : q[i] \in BookingRow
      BY <1>4
    <2>2. h \in Seq(BookingRow) /\ (Len(h) = IF n + 1 <= Len(q) THEN Len(q) - (n + 1) + 1 ELSE 0)
          /\ \A i \in 1..Len(q) - (n + 1) + 1 : h[i] = q[n + 1 + i - 1]
      BY <1>4, <1>6, <2>1, SubSeqProperties
    <2>3. ASSUME NEW i \in 1..Len(q) - n PROVE h[i] = q[n + i]
      <3>1. i \in 1..Len(q) - (n + 1) + 1 /\ n + 1 + i - 1 = n + i
        BY <1>4
      <3>. QED
        BY <2>2, <3>1
    <2>4. Len(h) = Len(q) - n
      BY <1>4, <2>2
    <2>. QED
      BY <2>2, <2>3, <2>4
  <1>9. k = g \o h
    BY <1>2, <1>5, <1>6 DEF RemoveAt
  <1>10. /\ k \in Seq(BookingRow) /\ Len(k) = n - 1 + (Len(q) - n)
         /\ \A i \in 1..n - 1 + (Len(q) - n) : k[i] = IF i <= n - 1 THEN g[i] ELSE h[i - (n - 1)]
    <2>1. /\ g \o h \in Seq(BookingRow) /\ Len(g \o h) = Len(g) + Len(h)
          /\ \A i \in 1..Len(g) + Len(h) : (g \o h)[i] = IF i <= Len(g) THEN g[i] ELSE h[i - Len(g)]
      BY <1>7, <1>8, ConcatProperties
    <2>. QED
      BY <1>7, <1>8, <1>9, <2>1
  <1>11. DOMAIN k = 1..Len(q) - 1
    BY <1>4, <1>10, LenProperties
  <1> DEFINE m == [i \in 1..Len(q) - 1 |-> IF i < n THEN i ELSE i + 1]
  <1>12. \A i \in 1..Len(q) - 1 : m[i] \in 1..Len(q) /\ k[i] = q[m[i]]
    <2> SUFFICES ASSUME NEW i \in 1..Len(q) - 1 PROVE m[i] \in 1..Len(q) /\ k[i] = q[m[i]]
      OBVIOUS
    <2>1. i \in 1..n - 1 + (Len(q) - n)
      BY <1>4
    <2>2. CASE i < n
      <3>1. i <= n - 1 /\ i \in 1..n - 1 /\ m[i] = i
        BY <1>4, <2>2
      <3>. QED
        BY <1>4, <1>7, <1>10, <2>1, <3>1
    <2>3. CASE ~(i < n)
      <3>1. ~(i <= n - 1) /\ i - (n - 1) \in 1..Len(q) - n /\ m[i] = i + 1 /\ i + 1 \in 1..Len(q)
            /\ n + (i - (n - 1)) = i + 1
        BY <1>4, <2>3
      <3>2. k[i] = h[i - (n - 1)]
        BY <1>10, <2>1, <3>1
      <3>3. h[i - (n - 1)] = q[n + (i - (n - 1))]
        BY <1>8, <3>1
      <3>. QED
        BY <3>1, <3>2, <3>3
    <2>. QED
      BY <2>2, <2>3
  <1>13. \A i, j \in 1..Len(q) - 1 : i < j => m[i] < m[j]
    BY <1>4
  <1> HIDE DEF m
  <1>14. /\ \A i \in FixtureAt(k) : m[i] \in DOMAIN db.bookings /\ db.bookings[m[i]] = k[i]
         /\ \A i, j \in FixtureAt(k) : i < j => m[i] < m[j]
    BY <1>1, <1>4, <1>11, <1>12, <1>13 DEF FixtureAt
  <1>15. PICK B : B = db.boxes
    OBVIOUS
  <1>16. db'.bookings = k /\ db'.boxes = B
    BY <1>1, <1>2, <1>15
  <1>17. FixtureBoxes(B) \subseteq FixtureBoxes(db.boxes) /\ (\A b \in FixtureBoxes(db.boxes) : b \in B)
         /\ \A b \in B : b.port \in Ports /\ b.seed \in Nat
    BY <1>15 DEF FixtureBoxes, CargoInv
  <1>. QED
    BY <1>10, <1>14, <1>16, <1>17, CargoKept

\* Bookings are added or changed, in a list that keeps the places of the fixtures'.
LEMMA BookingsInPlace ==
  ASSUME IInv, CrashInv, CargoInv, NEW k \in Seq(BookingRow), db'.bookings = k, db'.boxes = db.boxes,
         \A i \in FixtureAt(k) : i \in DOMAIN db.bookings /\ db.bookings[i] = k[i],
         UNCHANGED <<resets, restarts, up>>, db'.seeds = db.seeds,
         \A d \in Parties : request'[d].at \in Steps => request[d].at \in Steps /\ request'[d].seed = request[d].seed
  PROVE  CargoInv'
  <1> DEFINE m == [i \in FixtureAt(k) |-> i]
  <1>1. \A i \in FixtureAt(k) : m[i] = i /\ m[i] \in DOMAIN db.bookings /\ db.bookings[m[i]] = k[i]
    OBVIOUS
  <1> HIDE DEF m
  <1>2. /\ \A i \in FixtureAt(k) : m[i] \in DOMAIN db.bookings /\ db.bookings[m[i]] = k[i]
        /\ \A i, j \in FixtureAt(k) : i < j => m[i] < m[j]
    BY <1>1
  <1>3. PICK B : B = db.boxes
    OBVIOUS
  <1>4. FixtureBoxes(B) \subseteq FixtureBoxes(db.boxes) /\ (\A b \in FixtureBoxes(db.boxes) : b \in B)
        /\ (\A b \in B : b.port \in Ports /\ b.seed \in Nat) /\ db'.boxes = B
    BY <1>3 DEF FixtureBoxes, CargoInv
  <1>. QED
    BY <1>2, <1>4, CargoKept

\* The list with one booking more.
LEMMA BookingAppended ==
  ASSUME IInv, CrashInv, CargoInv, NEW n \in NewBookings, NEW s \in Nat, NEW row, row = [seed |-> s, body |-> n],
         db'.bookings = Append(db.bookings, row), db'.boxes = db.boxes,
         UNCHANGED <<resets, restarts, up>>, db'.seeds = db.seeds,
         \A d \in Parties : request'[d].at \in Steps => request[d].at \in Steps /\ request'[d].seed = request[d].seed
  PROVE  CargoInv'
  <1>1. PICK q : q = db.bookings
    OBVIOUS
  <1>2. PICK k : k = Append(q, row)
    OBVIOUS
  <1>3. q \in Seq(BookingRow) /\ row \in BookingRow /\ row.body \notin Range(FixtureBookings)
    BY <1>1, BookedBody DEF CargoInv, BookingRow
  <1>4. /\ k \in Seq(BookingRow) /\ Len(k) = Len(q) + 1 /\ Len(q) \in Nat
        /\ \A i \in 1..Len(q) : k[i] = q[i]
        /\ k[Len(q) + 1] = row
    BY <1>2, <1>3, AppendProperties, LenProperties
  <1>5. DOMAIN k = 1..Len(q) + 1 /\ DOMAIN q = 1..Len(q)
    BY <1>3, <1>4, LenProperties
  <1>6. \A i \in FixtureAt(k) : i \in 1..Len(q) /\ k[i] = q[i]
    BY <1>3, <1>4, <1>5 DEF FixtureAt
  <1>7. \A i \in FixtureAt(k) : i \in DOMAIN db.bookings /\ db.bookings[i] = k[i]
    BY <1>1, <1>5, <1>6
  <1>8. db'.bookings = k
    BY <1>1, <1>2
  <1>. QED
    BY <1>4, <1>7, <1>8, BookingsInPlace

\* Boxes that are no reset's come, boxes whose ports are there go.
LEMMA BoxesChanged ==
  ASSUME IInv, CrashInv, CargoInv, NEW B, db'.boxes = B, db'.bookings = db.bookings,
         \A b \in B : b.port \in Ports /\ b.seed \in Nat,
         \A b \in B : b \in db.boxes \/ b.name \notin Names,
         \A b \in db.boxes : b.seed \in db.seeds \/ b \in B \/ b.name \notin Names,
         UNCHANGED <<resets, restarts, up>>, db'.seeds = db.seeds,
         \A d \in Parties : request'[d].at \in Steps => request[d].at \in Steps /\ request'[d].seed = request[d].seed
  PROVE  CargoInv'
  <1>1. PICK k : k = db.bookings
    OBVIOUS
  <1> DEFINE m == [i \in DOMAIN k |-> i]
  <1>2. \A i \in FixtureAt(k) : m[i] = i /\ m[i] \in DOMAIN db.bookings /\ db.bookings[m[i]] = k[i]
    BY <1>1 DEF FixtureAt
  <1> HIDE DEF m
  <1>3. /\ \A i \in FixtureAt(k) : m[i] \in DOMAIN db.bookings /\ db.bookings[m[i]] = k[i]
        /\ \A i, j \in FixtureAt(k) : i < j => m[i] < m[j]
    BY <1>2
  <1>4. k \in Seq(BookingRow) /\ db'.bookings = k
    BY <1>1 DEF CargoInv
  <1>5. FixtureBoxes(B) \subseteq FixtureBoxes(db.boxes)
        /\ \A b \in FixtureBoxes(db.boxes) : b.seed \in db.seeds \/ b \in B
    BY DEF FixtureBoxes
  <1>. QED
    BY <1>3, <1>4, <1>5, CargoKept

LEMMA OtherCargo ==
  ASSUME IInv, CrashInv, FleetInv, CargoInv, NEW c \in Parties, Generate(c) \/ Insert(c) PROVE CargoInv'
  <1>1. PICK r : request' = [request EXCEPT ![c] = r] /\ r.at \notin Steps
    <2>1. CASE GenerateBegins(c)
      <3> DEFINE r == [Idle EXCEPT !.op = "generate", !.at = "ports"]
      <3>1. request' = [request EXCEPT ![c] = r] /\ r.at = "ports"
        BY <2>1 DEF GenerateBegins, Idle
      <3>. QED
        BY <3>1 DEF Steps
    <2>2. CASE GenerateReadsPorts(c)
      <3> DEFINE r == [request[c] EXCEPT !.at = "ships", !.ports = PortsRead(db)]
      <3>1. request' = [request EXCEPT ![c] = r] /\ r.at = "ships"
        BY <2>2 DEF GenerateReadsPorts, IInv, Shapes, RequestType
      <3>. QED
        BY <3>1 DEF Steps
    <2>3. CASE GenerateReadsShips(c)
      <3> DEFINE r == [request[c] EXCEPT !.at = "write", !.ships = ShipsRead(db)]
      <3>1. request' = [request EXCEPT ![c] = r] /\ r.at = "write"
        BY <2>3 DEF GenerateReadsShips, IInv, Shapes, RequestType
      <3>. QED
        BY <3>1 DEF Steps
    <2>4. CASE InsertBegins(c)
      <3>1. PICK op : request' = [request EXCEPT ![c] =
                                    [Idle EXCEPT !.op = op, !.at = "write", !.ports = PortsRead(db)]]
        BY <2>4 DEF InsertBegins
      <3> DEFINE r == [Idle EXCEPT !.op = op, !.at = "write", !.ports = PortsRead(db)]
      <3>2. request' = [request EXCEPT ![c] = r] /\ r.at = "write"
        BY <3>1 DEF Idle
      <3>. QED
        BY <3>2 DEF Steps
    <2>5. CASE GenerateWrites(c) \/ BookWrites(c) \/ AddWrites(c)
      <3>1. request' = [request EXCEPT ![c] = Idle]
        BY <2>5 DEF GenerateWrites, BookWrites, AddWrites, Ends
      <3>. QED
        BY <3>1, IdleShape DEF Steps
    <2>. QED
      BY <2>1, <2>2, <2>3, <2>4, <2>5 DEF Generate, Insert
  <1>2. \A d \in Parties : request'[d].at \in Steps => request[d].at \in Steps /\ request'[d].seed = request[d].seed
    BY <1>1, KeysGoOn
  <1>3. UNCHANGED <<resets, restarts, up>>
    BY DEF Generate, Insert, GenerateBegins, GenerateReadsPorts, GenerateReadsShips, GenerateWrites,
           InsertBegins, BookWrites, AddWrites
  <1>4. CASE GenerateBegins(c) \/ GenerateReadsPorts(c) \/ GenerateReadsShips(c) \/ InsertBegins(c)
    <2>1. db' = db
      BY <1>4 DEF GenerateBegins, GenerateReadsPorts, GenerateReadsShips, InsertBegins
    <2>. QED
      BY <1>2, <1>3, <2>1, CargoLeft
  <1>5. CASE GenerateWrites(c)
    <2>1. \E v : db' = [db EXCEPT !.voyages = v]
      BY <1>5 DEF GenerateWrites, Committed
    <2>2. db'.bookings = db.bookings /\ db'.boxes = db.boxes /\ db.seeds \subseteq db'.seeds
      BY <2>1 DEF IInv, Shapes, IsDb
    <2>. QED
      BY <1>2, <1>3, <2>2, CargoLeft
  <1>6. CASE BookWrites(c)
    <2>1. PICK n \in NewBookings : db' = [db EXCEPT !.bookings = Append(@, [seed |-> request[c].ports, body |-> n])]
      BY <1>6 DEF BookWrites, Committed
    <2>2. PICK row : row = [seed |-> request[c].ports, body |-> n]
      OBVIOUS
    <2>3. request[c].ports \in Nat
      BY DEF FleetInv
    <2>4. db'.bookings = Append(db.bookings, row) /\ db'.boxes = db.boxes /\ db'.seeds = db.seeds
      BY <2>1, <2>2 DEF IInv, Shapes, IsDb
    <2>. QED
      BY <1>2, <1>3, <2>2, <2>3, <2>4, BookingAppended
  <1>7. CASE AddWrites(c)
    <2>1. PICK p \in Ports :
             db' = [db EXCEPT !.boxes = @ \cup {[name |-> <<p, "X", edits>>, port |-> p, seed |-> request[c].ports]}]
      BY <1>7 DEF AddWrites, Committed
    <2>2. PICK box : box = [name |-> <<p, "X", edits>>, port |-> p, seed |-> request[c].ports]
      OBVIOUS
    <2>3. PICK B : B = db.boxes \cup {box}
      OBVIOUS
    <2>4. db'.boxes = B /\ db'.bookings = db.bookings /\ db'.seeds = db.seeds
      BY <2>1, <2>2, <2>3 DEF IInv, Shapes, IsDb
    <2>5. box.name \notin Names /\ box.port \in Ports /\ box.seed \in Nat
      BY <2>2, AddedName DEF FleetInv
    <2>6. \A b \in B : b.port \in Ports /\ b.seed \in Nat
      BY <2>3, <2>5 DEF CargoInv
    <2>7. (\A b \in B : b \in db.boxes \/ b.name \notin Names) /\ (\A b \in db.boxes : b \in B)
      BY <2>3, <2>5
    <2>. QED
      BY <1>2, <1>3, <2>4, <2>6, <2>7, BoxesChanged
  <1>. QED
    BY <1>4, <1>5, <1>6, <1>7 DEF Generate, Insert

LEMMA AdminCargo ==
  ASSUME IInv, CrashInv, FleetInv, CargoInv, AdminEdit PROVE CargoInv'
  <1>1. UNCHANGED <<resets, restarts, up, request>> /\ db'.seeds = db.seeds
    BY AdminEdits DEF Edit, Written, Committed
  <1>2. \A d \in Parties : request'[d].at \in Steps => request[d].at \in Steps /\ request'[d].seed = request[d].seed
    BY <1>1
  <1>3. ASSUME NEW v, NEW l, db' = [db EXCEPT !.voyages = v] \/ db' = [db EXCEPT !.lead = l] PROVE CargoInv'
    <2>1. db'.bookings = db.bookings /\ db'.boxes = db.boxes /\ db.seeds \subseteq db'.seeds
      BY <1>3 DEF IInv, Shapes, IsDb
    <2>. QED
      BY <1>1, <1>2, <2>1, CargoLeft
  <1>4. CASE UpdateVoyage \/ UpdateLegTime \/ UpdateLegCapacity \/ UpdatePort
    <2>1. \E v, l : db' = [db EXCEPT !.voyages = v] \/ db' = [db EXCEPT !.lead = l]
      <3>2. CASE UpdateVoyage
        <4>0. PICK v \in Touched \cap DOMAIN db.voyages : Edit([db EXCEPT !.voyages[v].blank = ~@])
          BY <3>2 DEF UpdateVoyage
        <4>1. db' = [db EXCEPT !.voyages[v].blank = ~@]
          BY <4>0 DEF Edit, Written, Committed
        <4>. QED
          BY <4>1
      <3>3. CASE UpdateLegTime
        <4>0. PICK v \in Touched \cap DOMAIN db.voyages, day \in DayEdits :
                 \E i \in DOMAIN db.voyages[v].legs :
                    \/ Edit([db EXCEPT !.voyages[v].legs[i].departure = day])
                    \/ Edit([db EXCEPT !.voyages[v].legs[i].arrival = day])
          BY <3>3 DEF UpdateLegTime
        <4>1. PICK i \in DOMAIN db.voyages[v].legs :
                 \/ db' = [db EXCEPT !.voyages[v].legs[i].departure = day]
                 \/ db' = [db EXCEPT !.voyages[v].legs[i].arrival = day]
          BY <4>0 DEF Edit, Written, Committed
        <4>2. ASSUME db' = [db EXCEPT !.voyages[v].legs[i].departure = day]
              PROVE  \E w : db' = [db EXCEPT !.voyages = w]
          BY <4>2
        <4>3. ASSUME db' = [db EXCEPT !.voyages[v].legs[i].arrival = day]
              PROVE  \E w : db' = [db EXCEPT !.voyages = w]
          BY <4>3
        <4>. QED
          BY <4>1, <4>2, <4>3
      <3>4. CASE UpdateLegCapacity
        <4>1. PICK v \in Touched \cap DOMAIN db.voyages, teu \in TeuEdits :
                 \E i \in DOMAIN db.voyages[v].legs :
                    Edit([db EXCEPT !.voyages[v].legs[i] = [@ EXCEPT !.teu = teu, !.set = TRUE]])
          BY <3>4 DEF UpdateLegCapacity
        <4>2. PICK i \in DOMAIN db.voyages[v].legs :
                 db' = [db EXCEPT !.voyages[v].legs[i] = [@ EXCEPT !.teu = teu, !.set = TRUE]]
          BY <4>1 DEF Edit, Written, Committed
        <4>. QED
          BY <4>2
      <3>5. CASE UpdatePort
        <4>1. PICK p, days : db' = [db EXCEPT !.lead[p] = days]
          BY <3>5 DEF UpdatePort, Edit, Written, Committed
        <4>. QED
          BY <4>1
      <3>. QED
        BY <1>4, <3>2, <3>3, <3>4, <3>5
    <2>. QED
      BY <1>3, <2>1
  <1>5. CASE UpdateBooking
    <2>1. PICK n \in DOMAIN db.bookings, x \in NewBookings :
             db' = [db EXCEPT !.bookings[n].body = [x EXCEPT !.origin = db.bookings[n].body.origin,
                                                             !.destination = db.bookings[n].body.destination]]
      BY <1>5 DEF UpdateBooking, Edit, Written, Committed
    <2>2. PICK q : q = db.bookings
      OBVIOUS
    <2>3. PICK e : e = q[n].body
      OBVIOUS
    <2>4. PICK body : body = [x EXCEPT !.origin = e.origin, !.destination = e.destination]
      OBVIOUS
    <2>5. PICK k : k = [q EXCEPT ![n].body = body]
      OBVIOUS
    <2>6. q[n] \in BookingRow
      <3>1. q \in Seq(BookingRow) /\ n \in DOMAIN q
        BY <2>2 DEF CargoInv
      <3>2. n \in 1..Len(q)
        BY <3>1, LenProperties
      <3>. QED
        BY <3>1, <3>2, ElementOfSeq
    <2>7. e \in Body /\ q[n] = [seed |-> q[n].seed, body |-> q[n].body]
      BY <2>3, <2>6 DEF BookingRow
    <2>8. body \in Body /\ body \notin Range(FixtureBookings)
      BY <2>4, <2>7, WrittenBody
    <2>9. PICK row : row = [seed |-> q[n].seed, body |-> body] /\ k = [q EXCEPT ![n] = row]
      <3>1. [q[n] EXCEPT !.body = body] = [seed |-> q[n].seed, body |-> body]
        BY <2>7
      <3>. QED
        BY <2>5, <3>1
    <2>10. db' = [db EXCEPT !.bookings = k]
      BY <2>1, <2>2, <2>3, <2>4, <2>5
    <2>11. db'.bookings = k /\ db'.boxes = db.boxes
      BY <2>10 DEF IInv, Shapes, IsDb
    <2>12. q \in Seq(BookingRow) /\ n \in DOMAIN q
      BY <2>2 DEF CargoInv
    <2>13. k \in Seq(BookingRow) /\ \A i \in FixtureAt(k) : i \in DOMAIN q /\ q[i] = k[i]
      <3>1. row \in BookingRow /\ row.body \notin Range(FixtureBookings)
        BY <2>6, <2>8, <2>9 DEF BookingRow
      <3>2. k = [q EXCEPT ![n] = row]
        BY <2>9
      <3>3. n \in 1..Len(q) /\ DOMAIN q = 1..Len(q)
        BY <2>12, LenProperties
      <3>4. k \in Seq(BookingRow)
        BY <2>12, <3>1, <3>2, <3>3, ExceptSeq
      <3>5. DOMAIN k = DOMAIN q /\ k[n] = row /\ \A i \in DOMAIN q : i # n => k[i] = q[i]
        BY <2>12, <3>2
      <3>. QED
        BY <3>1, <3>4, <3>5 DEF FixtureAt
    <2>. QED
      BY <1>1, <1>2, <2>2, <2>11, <2>13, BookingsInPlace
  <1>6. CASE DeleteBooking
    <2>1. PICK n \in DOMAIN db.bookings : db' = [db EXCEPT !.bookings = RemoveAt(@, n)]
      BY <1>6 DEF DeleteBooking, Edit, Written, Committed
    <2>2. db'.bookings = RemoveAt(db.bookings, n) /\ db'.boxes = db.boxes
      BY <2>1 DEF IInv, Shapes, IsDb
    <2>. QED
      BY <1>1, <1>2, <2>2, BookingDeleted
  <1>7. CASE RemoveBoxes
    <2>1. PICK p \in Ports, n \in 1..Cardinality(db.boxes) :
             \E gone \in kSubset(Min({n, Cardinality({b \in db.boxes : b.port = p /\ b.seed \in db.seeds})}),
                                 {b \in db.boxes : b.port = p /\ b.seed \in db.seeds}) :
                db' = [db EXCEPT !.boxes = @ \ gone]
      BY <1>7 DEF RemoveBoxes, Edit, Written, Committed
    <2>2. PICK gone \in SUBSET {b \in db.boxes : b.port = p /\ b.seed \in db.seeds} :
             db' = [db EXCEPT !.boxes = @ \ gone]
      BY <2>1 DEF kSubset
    <2>3. PICK B : B = db.boxes \ gone
      OBVIOUS
    <2>4. db'.boxes = B /\ db'.bookings = db.bookings
      BY <2>2, <2>3 DEF IInv, Shapes, IsDb
    <2>5. /\ \A b \in B : b.port \in Ports /\ b.seed \in Nat
          /\ \A b \in B : b \in db.boxes
          /\ \A b \in db.boxes : b.seed \in db.seeds \/ b \in B
      BY <2>2, <2>3 DEF CargoInv
    <2>. QED
      BY <1>1, <1>2, <2>4, <2>5, BoxesChanged
  <1>. QED
    BY <1>4, <1>5, <1>6, <1>7 DEF AdminEdit

LEMMA NextCargo == IInv /\ CrashInv /\ FleetInv /\ CargoInv /\ [Next]_vars => CargoInv'
  <1> SUFFICES ASSUME IInv, CrashInv, FleetInv, CargoInv, [Next]_vars PROVE CargoInv'
    OBVIOUS
  <1>1. CASE \E c \in Clients \cup {Starter} : Request(c)
    <2>1. PICK c \in Parties : Request(c)
      BY <1>1 DEF Parties
    <2>. QED
      BY <2>1, ResetCargo, OtherCargo DEF Request
  <1>2. CASE Stop
    <2>1. UNCHANGED <<db, resets>> /\ restarts' = restarts + 1 /\ \A d \in Parties : request'[d] = Idle
      BY <1>2 DEF Stop, IInv, Shapes
    <2>2. SeedsInv /\ resets' \in Nat /\ resets <= resets' /\ db.seeds \subseteq db'.seeds
      BY <2>1, PartiesSplit DEF CrashInv, SeedsInv
    <2>3. \A d \in Parties : request'[d].at \notin Steps
      BY <2>1, IdleShape DEF Steps
    <2>. QED
      BY <2>1, <2>2, <2>3, CargoStays
  <1>3. CASE Started
    <2>1. up' = TRUE /\ UNCHANGED <<db, request, resets, restarts>>
      BY <1>3 DEF Started
    <2>. QED
      BY <2>1, CargoLeft
  <1>4. CASE UNCHANGED vars
    <2>1. UNCHANGED <<db, request, resets, restarts, up>>
      BY <1>4 DEF vars
    <2>. QED
      BY <2>1, CargoLeft
  <1>5. CASE Reassign
    <2>1. /\ UNCHANGED <<request, resets, restarts, up>> /\ db.seeds \subseteq db'.seeds
          /\ db'.bookings = db.bookings /\ db'.boxes = db.boxes
      BY <1>5, Reassignments
    <2>. QED
      BY <2>1, CargoLeft
  <1>6. CASE \E c \in Clients \cup {Starter} : Dies(c)
    <2>1. PICK c \in Parties : Dies(c)
      BY <1>6 DEF Parties
    <2>2. request' = [request EXCEPT ![c] = Idle] /\ UNCHANGED <<db, resets, restarts, up>>
      BY <2>1 DEF Dies, Ends
    <2>3. \A d \in Parties : request'[d].at \in Steps => request[d].at \in Steps /\ request'[d].seed = request[d].seed
      BY <2>2, IdleShape, KeysGoOn DEF Steps
    <2>. QED
      BY <2>2, <2>3, CargoLeft
  <1>. QED
    BY <1>1, <1>2, <1>3, <1>4, <1>5, <1>6, AdminCargo DEF Next

LEMMA TablesFromInv == ASSUME IInv, FleetInv, CargoInv PROVE TablesAreSound
  <1>1. TypeOK
    <2>1. IsFiniteSet(db.seeds) /\ Cardinality(db.seeds) <= 1
      <3>1. CASE db.seeds = {}
        <4>1. Cardinality({}) = 0 /\ IsFiniteSet({})
          BY FS_EmptySet
        <4>. QED
          BY <3>1, <4>1
      <3>2. CASE \E s : db.seeds = {s}
        <4>1. PICK s : db.seeds = {s}
          BY <3>2
        <4>2. IsFiniteSet({s}) /\ Cardinality({s}) = 1
          BY FS_Singleton
        <4>. QED
          BY <4>1, <4>2
      <3>. QED
        BY <3>1, <3>2 DEF FleetInv
    <2>2. \A v \in DOMAIN db.voyages : v[1] \in Loops /\ db.voyages[v] \in VoyageRow
      BY DEF FleetInv, VoyagesSound
    <2>3. db.bookings \in Seq([seed : Nat, body : Body]) /\ \A b \in db.boxes : b.port \in Ports /\ b.seed \in Nat
      BY DEF CargoInv, BookingRow
    <2>4. \A c \in DOMAIN request : request[c].op \in {"none", "reset", "generate", "book", "add"}
      BY DEF IInv, Shapes, RequestType
    <2>5. db.fleets = db.seeds /\ db.lead \in [Ports -> {Lead} \cup LeadEdits] /\ up \in BOOLEAN /\ alone \in BOOLEAN
      BY DEF IInv, Shapes, FleetInv
    <2>. QED
      BY <2>1, <2>2, <2>3, <2>4, <2>5 DEF TypeOK
  <1>2. ResetsDoNotAdd
    BY DEF ResetsDoNotAdd, CargoInv, FixtureAt, FixtureBoxes, Names
  <1>3. LegsCarryUnlessRaced
    <2> SUFFICES ASSUME NEW v \in DOMAIN db.voyages, v \notin raced PROVE CarriesItsShip(db.voyages[v])
      BY DEF LegsCarryUnlessRaced
    <2>1. Carries(db.voyages[v])
      BY DEF FleetInv, VoyagesSound
    <2>. QED
      BY <2>1 DEF Carries, CarriesItsShip
  <1>. QED
    BY <1>1, <1>2, <1>3 DEF TablesAreSound

\* Whatever resets, schedule runs and edits overlap, and wherever the server
\* stops: the tables keep their shape, one fleet with its ports; no cargo of
\* the fixtures is booked by two resets while a box of the first is there;
\* and a leg offers what its ship carries unless an admin set it, or two
\* reassignments of its voyage were in flight at once.
THEOREM TablesStaySound == Spec => []TablesAreSound
  BY InitInv, NextInv, InitCrash, NextCrash, InitFleet, NextFleet, InitSessions, NextSessions,
     InitCargo, NextCargo, TablesFromInv, PTL DEF Spec
=============================================================================
