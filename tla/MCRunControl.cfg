CONSTANTS
    c1 = c1
    c2 = c2
    r1 = r1
    r2 = r2
    NoRun = NoRun
    Clients = {c1, c2}
    Runs = {r1, r2}
    MaxTime = 2
SPECIFICATION FairSpec

INVARIANTS
    EventsOfTheRun
    ClockOfTheRun

PROPERTIES
    StartsAreAtomic
    RequestsAnswered
