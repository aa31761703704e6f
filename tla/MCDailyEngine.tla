--------------------------- MODULE MCDailyEngine ---------------------------
(***************************************************************************)
(* Three ports on a line, two voyages that call at the middle one and one  *)
(* back: a booking across has a direct path of two legs and one with a     *)
(* transshipment, a booking back has one. What an administrator may edit   *)
(* is varied: days of the calls, slots booked by others, quantities, lead  *)
(* times.                                                                  *)
(***************************************************************************)
EXTENDS DailyEngine, TLC

West == "CNSHA"
Middle == "SGSIN"
East == "AEDXB"

MCTeu(t) == 1
MCLaden(t) == 2
MCTare(t) == 1

\* The calls of voyage A at the middle port and in the east, of B in the
\* middle and of C in the west are edited, one at a time or none
Scheduled == [a1 |-> 1, a2 |-> 2, a3 |-> 3, a4 |-> 4, b |-> 3, c1 |-> 5, c2 |-> 6]
Calls == {Scheduled,
          [a1 |-> 1, a2 |-> 3, a3 |-> 2, a4 |-> 4, b |-> 3, c1 |-> 5, c2 |-> 6],   \* leaves before it is there
          [a1 |-> 1, a2 |-> 2, a3 |-> 3, a4 |-> 4, b |-> 3, c1 |-> 5, c2 |-> 3],   \* arrives before it departs
          [a1 |-> 0, a2 |-> 2, a3 |-> 3, a4 |-> 4, b |-> 2, c1 |-> 5, c2 |-> 6],   \* departs on day 0
          [a1 |-> 1, a2 |-> 2, a3 |-> 2, a4 |-> 3, b |-> 4, c1 |-> 4, c2 |-> 6]}   \* no day in port

\* Slots booked by others are edited in the schedule as it stands
Edits == {<<c, 0>> : c \in Calls} \cup {<<Scheduled, n>> : n \in {1, 3}}

MCLeg(voyage, vessel, from, to, departure, arrival, booked) ==
    [voyage |-> voyage, vessel |-> vessel, from |-> from, to |-> to,
     departure |-> departure, arrival |-> arrival, teu |-> 2, booked_teu |-> booked,
     mt |-> 5, booked_mt |-> 0]

MCDatasets ==
    {[ports |-> [p \in Ports |-> [storage |-> 2, safety |-> 1, lead |-> lead]],
      vessels |-> [v \in Vessels |-> 2],
      legs |-> <<MCLeg("A", "pt", West, Middle, c.a1, c.a2, 0),
                 MCLeg("A", "pt", Middle, East, c.a3, c.a4, booked),
                 MCLeg("B", "ep", Middle, East, c.b, c.b + 1, 0),
                 MCLeg("C", "ep", East, West, c.c1, c.c2, 0)>>,
      bookings |-> ("k1" :> [origin |-> West, destination |-> East, type |-> "20FT_DRY",
                             quantity |-> q, ready |-> s, cutoff |-> 2, deadline |-> 4])
                @@ ("k2" :> [origin |-> East, destination |-> West, type |-> "20FT_DRY",
                             quantity |-> 1, ready |-> 2, cutoff |-> 4, deadline |-> 6]),
      stock |-> [p \in Ports |-> [t \in Types |-> IF p = West THEN 2 ELSE s]]] :
        lead \in 0..1, <<c, booked>> \in Edits, q \in {1, 2}, s \in {0, 1}}
=============================================================================
