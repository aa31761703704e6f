SPECIFICATION VoyageSpec
CONSTANTS
    port = port
    v1 = v1
    v2 = v2
    d1 = d1
    d2 = d2
    Ports = {port}
    Vessels = {v1, v2}
    Storms = {d1, d2}
    Strikes = {}
    BerthsTotal <- MCBerthsTotal
    BaseSpeed <- MCBaseSpeed
    SeedHours <- MCSeedHours
    Turnarounds <- MCTurnarounds
    Distances <- MCDistances
    StormAreas <- MCStormAreas
    StormForces <- MCStormForces
    StormHours <- MCStormHours
    Steps <- MCSteps
    FailureGaps <- MCFailureGaps
    RecoveryHours = 3
    MaxFailures = 2
    LastCall = 2
    Severities = {50}
    Durations = {1}
    MaxTime = 40
CHECK_DEADLOCK FALSE

INVARIANTS
    VesselsAreSound

PROPERTIES
    PositionContinuity
    DamageIsRepaired
