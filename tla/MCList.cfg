CONSTANTS
    Node = {n1, n2, n3, n4}
    List = {l1, l2}
    Carry = Carry
    Fills = 3
    Value = {1, 2}
    Nil = Nil
    MaxCount = 1
SPECIFICATION Spec
INVARIANTS
    Whole
PROPERTIES
    ImplementsListSeq
    CallsExact
    Progress
SYMMETRY Symmetry
