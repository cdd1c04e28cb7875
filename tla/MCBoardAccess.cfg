SPECIFICATION Spec
CONSTANTS
    s1 = s1
    s2 = s2
    s3 = s3
    u1 = u1
    u2 = u2
    g = g
    Callers = {s1, s2, s3}
    Users = {u1, u2}
    Parties <- MCParties
    Passwords = {"p"}
    Changes <- MCChanges
    Nothing = Nothing
    MaxCalls = 3
    MaxOps = 2
INVARIANTS
    TypeOK
    DeletedLeavesNothing
    CachedRoleIsCurrent
    SettingsStayAtRest
    RevisionCoversLog
CHECK_DEADLOCK FALSE
