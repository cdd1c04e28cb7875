CONSTANTS
    ObjectIds = {o1, o2}
    Positions = {origin}
    Sizes = {small, large}
    Styles = {red, blue}
    Texts = {hello}
    Points = {p1}
    Invalid = Invalid
    MaxInk = 2
    StateCommands <- MCCommands
SPECIFICATION MCSpec
INVARIANT StateTypeOK
INVARIANT DistinctObjectsCommute
PROPERTY DeletedForever
PROPERTY InkIsAppendOnly
CHECK_DEADLOCK FALSE
