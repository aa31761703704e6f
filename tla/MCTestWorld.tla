----------------------------- MODULE MCTestWorld -----------------------------
(***************************************************************************)
(* World 1: its loops, ships and legs as the repository has them; two of   *)
(* its 33 bookings and a few of its boxes. Two requests overlap and may    *)
(* die, the server stops once, two edits, which may be reassignments of    *)
(* one voyage in flight at once.                                           *)
(***************************************************************************)
EXTENDS TestWorld

MCLoops == {"A", "B"}
MCFirstDays == [A |-> <<2, 16, 28>>, B |-> <<4, 20, 34>>]
MCFrequency == [A |-> 14, B |-> 15]
MCRotation == [A |-> <<"CNSHA", "SGSIN", "INMAA", "AEDXB">>,
               B |-> <<"AEDXB", "INMAA", "SGSIN", "CNSHA">>]
MCArrivalOffset == <<0, 5, 10, 16>>
MCDepartureOffset == <<0, 6, 11, 16>>

MCShipOrder == <<"Trader", "Pioneer">>
MCShipTeu == [Trader |-> 1200, Pioneer |-> 1500]
MCRules == (<<"A", 1>> :> "Trader") @@ (<<"B", 1>> :> "Pioneer") @@ (<<"A", 2>> :> "Pioneer")
        @@ (<<"B", 2>> :> "Trader") @@ (<<"A", 3>> :> "Trader") @@ (<<"B", 3>> :> "Pioneer")

\* voyage_legs of fixtures.py: voyage, ship, and the days of its three legs
FixtureRow(v, ship, teu, days) ==
    {[voyage |-> v, leg |-> i, ship |-> ship,
      from |-> MCRotation[v[1]][i], to |-> MCRotation[v[1]][i + 1],
      departure |-> days[i][1], arrival |-> days[i][2], teu |-> teu] : i \in 1..3}
MCFixtureLegs ==
    FixtureRow(<<"A", 1>>, "Trader", 1200, << <<2, 7>>, <<8, 12>>, <<13, 18>> >>) \cup
    FixtureRow(<<"B", 1>>, "Pioneer", 1500, << <<4, 9>>, <<10, 14>>, <<15, 20>> >>) \cup
    FixtureRow(<<"A", 2>>, "Pioneer", 1500, << <<16, 21>>, <<22, 26>>, <<27, 32>> >>) \cup
    FixtureRow(<<"B", 2>>, "Trader", 1200, << <<20, 25>>, <<26, 30>>, <<31, 36>> >>) \cup
    FixtureRow(<<"A", 3>>, "Trader", 1200, << <<28, 33>>, <<34, 38>>, <<39, 44>> >>) \cup
    FixtureRow(<<"B", 3>>, "Pioneer", 1500, << <<34, 39>>, <<40, 44>>, <<45, 50>> >>)

MCFixtureBookings == << [origin |-> "AEDXB", destination |-> "CNSHA", quantity |-> 400],
                        [origin |-> "CNSHA", destination |-> "INMAA", quantity |-> 250] >>
MCNewBookings == {[origin |-> "SGSIN", destination |-> "AEDXB", quantity |-> 1]}
MCFixtureStock == [CNSHA |-> 1, SGSIN |-> 0, INMAA |-> 0, AEDXB |-> 1]
MCTouched == {<<"A", 1>>, <<"A", 4>>}

=============================================================================
