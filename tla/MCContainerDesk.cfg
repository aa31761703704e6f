CONSTANTS
    Boxes = {box}
    BookingIds = {k1}
    Assignments = {a1, a2, a3}
    Locations = {l1}
    VoyageIds = {v1}
    Clerks = {c1, c2}
    None = None
SYMMETRY Symmetry
SPECIFICATION DeskSpec
CHECK_DEADLOCK FALSE

INVARIANTS
    AssignedBoxIsHeld
    UnracedBoxIsConsistent
