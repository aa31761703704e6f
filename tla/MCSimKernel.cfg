CONSTANTS
    arrival = arrival
    persistence = persistence
    EventTypes = {arrival, persistence}
    Priority <- MCPriority
    MaxDelta = 2
    Delays <- MCDelays
    MaxTime = 2
    MaxEvents = 3
    MaxRuns = 2
SPECIFICATION BoundedSpec

INVARIANTS
    NothingOverdue
    ExactlyOnce
    

PROPERTIES
    ImplementsAgenda
