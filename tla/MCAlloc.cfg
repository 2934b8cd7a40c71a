\* A fault ends the process, so the specification may stop.
CONSTANTS
    NFREELISTS = 3
    NOBJS = 2
    Request = {5, 12, 20, 25}
    Bases = {1, 21, 41}
    MaxHeld = 2
SPECIFICATION Spec
INVARIANTS NoOverlap MemoryAccounted
PROPERTY KeepsPromise
CHECK_DEADLOCK FALSE
