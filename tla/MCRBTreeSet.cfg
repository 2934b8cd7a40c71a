CONSTANTS
    Node = {1, 2, 3, 4, 5, 6}
    Header = header
    Nil = nil
    MaxKey = 6
    KeyOf <- MCKeyOf
SPECIFICATION SetSpec
INVARIANTS LeftMostTracked IterationInOrder
PROPERTY CallsReturn
CHECK_DEADLOCK FALSE
