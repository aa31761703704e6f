\* Baselines, starts and parameters, with a database that may fail once and
\* one restart. It stops when every request is answered.
CONSTANTS
    w1 = w1
    w2 = w2
    MaxRequests = 3
    Worlds = {w1, w2}
    StartWith = {"DEMAND_SPIKE"}
    Edits <- MCEdits
    Overrides <- MCOverrides
    MaxEdits = 1
    MaxFailures = 1
    MaxSecond = 2
    MaxRestarts = 1

SPECIFICATION WorldRunsSpec

SYMMETRY Symmetry

CHECK_DEADLOCK FALSE

INVARIANTS
    WorldRunsTypeOK
    RightBaseline
    RunsStartAsSeeded


    
