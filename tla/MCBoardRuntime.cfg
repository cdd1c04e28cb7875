CONSTANTS
    s1 = s1
    red = red
    p1 = p1
    ObjectIds = {s1}
    Positions = {}
    Sizes = {}
    Styles = {red}
    Texts = {}
    Points = {p1}
    Invalid = Invalid
    Handlers = {owner, editor, viewer}
    Editors = {owner, editor}
    Owners = {owner}
    Commands <- MCCommands
    MaxRevision = 2
SPECIFICATION Spec
VIEW Relevant
INVARIANT RuntimeMatchesStore
INVARIANT AckedIsDurable
INVARIANT LogExplainsObjects
INVARIANT FreshInstall
INVARIANT DeletedStaysDeleted
INVARIANT ExclusiveWhileAlive
PROPERTY KeepsPromise
