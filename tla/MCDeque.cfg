SPECIFICATION Spec
CONSTANTS
    Deque = {d1, d2}
    Buffer = {b1, b2, b3}
    Val = {u, v}
    Widths = {1, 2}
    MapInit = 3
    Nil = Nil
    Stale = Stale
    Raw = Raw
SYMMETRY Interchangeable
INVARIANTS Whole JumpsRight
PROPERTY KeepsElements
