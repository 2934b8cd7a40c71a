CONSTANTS
    Node = {n1, n2, n3, n4}
    Header = {h1, h2}
    List = {l1, l2}
    Nil = Nil
    Free = Free
    User = User
    Val = {1, 2}
    Dead = Dead
    MaxCount = 2
SPECIFICATION LoopsSpec
INVARIANTS
    TypeOK
    ChainInv
    LooseReset
    WellChained
    PositionsLive
PROPERTIES
    ImplementsNodeSeq
    CallsExact
    LoopsRight
    Progress
SYMMETRY Symmetry
CONSTRAINT HeldApart
