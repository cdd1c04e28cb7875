SPECIFICATION Spec
CONSTANTS
    a = a
    b = b
    nul = nul
    ObjectIds = {a, b}
    Positions <- MCPositions
    Sizes <- MCSizes
    Styles <- MCStyles
    Texts <- MCTexts
    Points <- MCPositions
    Invalid <- MCInvalid
    Principals <- MCPrincipals
    Orders <- MCOrders
    Foreign <- MCForeign
    Settings <- MCSettings
    Nul = nul
    NoFill = NoFill
    NoPassword = NoPassword
    TicksPerMilli = 2
    MaxTime = 2
    MaxOps = 3
INVARIANTS
    TypeOK
    LogTellsWhatWasMeant
    LogRebuildsObjects
    RestartIsInvisible
    FollowersAndNewcomersAgree
PROPERTY LivesOn
CHECK_DEADLOCK FALSE
