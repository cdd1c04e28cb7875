CONSTANTS
    b1 = b1
    s1 = s1
    red = red
    p1 = p1
    ann = ann
    bob = bob
    ObjectIds = {s1}
    Positions = {}
    Sizes = {}
    Styles = {red}
    Texts = {}
    Points = {p1}
    Invalid = Invalid
    Sessions = {ann, bob}
    Boards = {b1}
    Principals = {ann, bob}
    Identity <- MCIdentity
    Owners = {ann}
    Commands <- MCCommands
    NoBoard = NoBoard
    NewClient <- Nothing
    Heard <- Remember
    MaxRequests = 3
    MaxRevision = 1
SPECIFICATION Spec
INVARIANT LaterOperationsFollow
CHECK_DEADLOCK FALSE
