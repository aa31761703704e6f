CONSTANTS
    port = port
    v1 = v1
    v2 = v2
    v3 = v3
    d1 = d1
    d2 = d2
    Ports = {port}
    Vessels = {v1, v2, v3}
    Strikes = {d1, d2}
    BerthsTotal <- MCBerthsTotal
    SeedHours <- MCSeedHours
    Turnarounds <- MCTurnarounds
    Severities <- MCSeverities
    Durations <- MCDurations
    MaxTime = 4
SPECIFICATION FairSpec

INVARIANTS
    EveryVesselAccounted
    StrikesAreLifted

PROPERTIES
    GrantsWithinCapacity
    FirstComeFirstServed
    WaitingVesselsBerth
