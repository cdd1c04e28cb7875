CONSTANTS
    b1 = b1
    p1 = p1
    p2 = p2
    ObjectIds = {o1, o2}
    Positions = {}
    Sizes = {}
    Styles = {red}
    Texts = {}
    Points = {p1, p2}
    Invalid = Invalid
    Sessions = {ann, bob}
    Boards = {b1}
    Principals = {ann, bob}
    Identity <- MCIdentity
    Owners = {}
    Commands = {}
    NoBoard = NoBoard
    NewClient <- MCNewClient
    Heard <- MCHandle
    MaxRequests = 2
    MaxRevision = 0
    Ink <- MCInk
    Cabinet = {}
    TheBoard = b1
    Erasers = {ann, bob}
SPECIFICATION TogetherSpec
INVARIANT StrokesAreWhole
CHECK_DEADLOCK FALSE
