CONSTANTS
    Val = {v1, v2}
    Raw = Raw
    Moved = Moved
    MaxCapa = 5
SPECIFICATION SoundSpec
INVARIANTS
    Whole
PROPERTIES
    CallsExact
    Growth
SYMMETRY Symmetry
