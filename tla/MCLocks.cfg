CONSTANTS
    Workers = {w1, w2, w3}
    Boards = {b1}
    MaxRequests = 3
SPECIFICATION FairSpec
INVARIANT NoCircularWait
PROPERTY HandlersReturn
CHECK_DEADLOCK FALSE
