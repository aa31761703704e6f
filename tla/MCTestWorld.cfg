SPECIFICATION Spec
CONSTANTS
    Loops <- MCLoops
    FirstDays <- MCFirstDays
    Frequency <- MCFrequency
    Rotation <- MCRotation
    ArrivalOffset <- MCArrivalOffset
    DepartureOffset <- MCDepartureOffset
    LongHorizon = 40
    ShipOrder <- MCShipOrder
    ShipTeu <- MCShipTeu
    Rules <- MCRules
    DefaultShip = "Trader"
    DefaultTeu = 1200
    Clients = {c1, c2}
    BaseHorizon = 40
    BaseFirm = 14
    Horizons = {10, 45}
    Firms = {30}
    FixtureLegs <- MCFixtureLegs
    FixtureBookings <- MCFixtureBookings
    FixtureStock <- MCFixtureStock
    NewBookings <- MCNewBookings
    Lead = 2
    LeadEdits = {0}
    DayEdits = {1}
    TeuEdits = {100}
    Words = {"HELD"}
    DefaultFrom = "CNSHA"
    DefaultTo = "SGSIN"
    DefaultDestination = "AEDXB"
    Touched <- MCTouched
    MaxResets = 2
    MaxEdits = 2
    MaxRestarts = 1
CHECK_DEADLOCK FALSE

INVARIANTS
    TablesAreSound
    CrashIsInvisible
    PortsWheneverServed

PROPERTIES
    ServedAgain
