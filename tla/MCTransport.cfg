CONSTANTS
    MaxLinks = 2
    MaxPosted = 2
SPECIFICATION FairSpec
INVARIANT WholeAndInOrder
PROPERTY NothingStuck
PROPERTY ShutdownReachesAll
CHECK_DEADLOCK FALSE
