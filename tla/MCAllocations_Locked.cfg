CONSTANTS
    b1 = b1
    b2 = b2
    b3 = b3
    c1 = c1
    c2 = c2
    c3 = c3
    c4 = c4
    soon = soon
    mid = mid
    late = late
    NoVoyage = NoVoyage
    Nobody = Nobody
    Bookings = {b1, b2, b3}
    Containers = {c1, c2, c3, c4}
    Voyages = {soon, mid, late}
    Departure <- MCDeparture
    CargoReady <- MCCargoReady
    Cutoff <- MCCutoff
    Quantity <- MCQuantity
    LockTime = 4
    Day = 2
    SeedVoyage <- MCSeedVoyage
    SeedHolder <- MCSeedHolder
    SeedLocked = {b3}
    MaxTime = 7
SPECIFICATION Spec
PROPERTY LockedAllocationsFrozen
