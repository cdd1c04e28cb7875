CONSTANTS
    Nothing = Nothing
    Connections = {a, b}
    Logins = {bob, eve}
    Passwords = {p, q}
    Lifetime = 1
    MaxIds = 2
    MaxBoots = 2
    MaxTime = 2
SPECIFICATION Spec
SYMMETRY Symmetry
INVARIANT PromisesKept
INVARIANT TakenIsTaken
INVARIANT NobodyLeftBehind
CHECK_DEADLOCK FALSE
