CONSTANTS
    Node = {n1, n2, n3, n4}
    Key = {0, 1, 2, 3, 4, 6}
    Blank = 0
    Primes <- OnePrime
    Buckets = {0, 2}
    MaxHint = 4
    Nil = Nil
SPECIFICATION Spec
INVARIANTS
    Placed
    Iterates
PROPERTIES
    KeepsKeys
SYMMETRY Symmetry
CHECK_DEADLOCK FALSE
