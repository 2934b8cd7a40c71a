\* 8 nodes holding 6 keys, so that two of them come twice.
CONSTANTS
    Node = {1, 2, 3, 4, 5, 6, 7, 8}
    Header = header
    Nil = nil
    MaxKey = 6
    KeyOf <- MCKeyOf
SPECIFICATION QueueSpec
INVARIANTS WellLinked SearchOrder RedBlack EndsTracked FindCorrect
PROPERTY UniqueInsertions
