CONSTANTS
    b1 = b1
    p1 = p1
    p2 = p2
    ObjectIds = {o1, o2}
    Positions = {}
    Sizes = {}
    Styles = {red}
    Texts = {}
    Points = {p1, p2}
    Invalid = Invalid
    Sessions = {ann, bob, cleo}
    Boards = {b1}
    Principals = {ann, bob, cleo}
    Identity <- MCIdentity
    Owners = {cleo}
    Commands = {}
    NoBoard = NoBoard
    NewClient <- MCNewClient
    Heard <- MCHandle
    MaxRequests = 2
    MaxRevision = 0
    Ink <- MCInk
    Cabinet = {cleo}
    TheBoard = b1
    Erasers = {ann}
SYMMETRY MCSymmetry
SPECIFICATION TogetherSpec
INVARIANT TogetherTypeOK
INVARIANT LiveObjectsConverge
INVARIANT StrokesAreWhole
INVARIANT DeletionReachesAll
CHECK_DEADLOCK FALSE
