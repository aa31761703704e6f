CONSTANTS
    Ports = {"CNSHA", "SGSIN", "AEDXB"}
    Vessels = {"pt", "ep"}
    Voyages = {"A", "B", "C"}
    Types = {"20FT_DRY"}
    Bookings = {"k1", "k2"}
    MaxWait = 2
    Overshoot = 1
    Horizon = 7
    Teu <- MCTeu
    Laden <- MCLaden
    Tare <- MCTare
    None = None
    Datasets <- MCDatasets
    MaxEmpties = 1
    HomePort = "CNSHA"
SPECIFICATION FairSpec
CHECK_DEADLOCK FALSE

INVARIANTS
    StockFollowsPlan
    BoxesConserved
    SnapshotIsTrue

PROPERTIES
    StatusMovesForward
    RunCompletes
