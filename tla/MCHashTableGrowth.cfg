CONSTANTS
    Node = {n1, n2}
    Key = {0, 1}
    Blank = 0
    Primes <- FourPrimes
    Buckets = {0}
    MaxHint = 0
    Nil = Nil
SPECIFICATION Spec
PROPERTIES
    InsertReturns
CHECK_DEADLOCK FALSE
