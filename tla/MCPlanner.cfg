\* Two runs of the engine with days between them. It stops when both are over
\* and the time is up.
CONSTANTS
    a = a
    b = b
    out = out
    back = back
    late = late
    NoVoyage = NoVoyage
    Ports = {a, b}
    Types = {"20DC", "40DC"}
    Voyages = {out, back, late}
    Bookings = {1, 2}
    Teu <- MCTeu
    From <- MCFrom
    To <- MCTo
    Departure <- MCDeparture
    Arrival <- MCArrival
    Capacity <- MCCapacity
    Origin <- MCOrigin
    Destination <- MCDestination
    TypeOf <- MCTypeOf
    Quantity <- MCQuantity
    CargoReady <- MCCargoReady
    SeedVoyage <- MCSeedVoyage
    SeedPools <- MCSeedPools
    Target <- MCTarget
    Empties = 2
    MaxLease = 1
    LeasePools <- MCLeasePools
    Periods = 4
    Week = 7
    MaxTime = 2
    MaxRuns = 2

SPECIFICATION Spec

CHECK_DEADLOCK FALSE

INVARIANTS
    StockIsSound
    MissingBoxesAreMoved

PROPERTIES
    RunsFitVoyages
