SPECIFICATION Spec
CONSTANTS
    Sizes = {1, 2}
    Tags = {"a", "b"}
    MaxLength = 4
    Named = {"void", "nullptr", "uchar", "int", "double", "class", "enum"}
    MaxLayers = 3
    Item = {1, 2, 3}
    MaxRange = 5
    MaxOther = 3
    Letter = {1, 2}
    MaxText = 4
    MaxPattern = 2
    Width = 5
    Value = {1, 2, 3}
    MaxSize = 6
INVARIANTS ListsRight TraitsRight RangesRight SearchesRight HeapOrdered
PROPERTY HeapCallsRight
CHECK_DEADLOCK FALSE
