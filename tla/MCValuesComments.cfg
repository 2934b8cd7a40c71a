SPECIFICATION TogetherSpec
CONSTANTS
    Sizes = {1}
    Tags = {"a", "b"}
    MaxLength = 1
    Named = {"void"}
    MaxLayers = 3
    Item = {1, 2}
    MaxRange = 3
    MaxOther = 2
    Letter = {1}
    MaxText = 0
    MaxPattern = 0
    Width = 2
    Value = {1}
    MaxSize = 0
INVARIANT SomeCommentHolds
CHECK_DEADLOCK FALSE
