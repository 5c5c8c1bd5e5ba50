SPECIFICATION Spec
SYMMETRY Symmetry
CONSTANTS
    Handlers = {h1}
    Paths = {p1, p2}
    NoPath = NoPath
    Sources = {s1}
    MaxCrashes = 1
    MayFail = {"hub", "load", "entry", "mode", "name", "record", "restart"}
INVARIANTS
    ChangeIsTaken
PROPERTIES
    HomeIsKept
