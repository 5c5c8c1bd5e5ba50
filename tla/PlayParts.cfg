SPECIFICATION Spec
CONSTANTS
    Devs = {1, 2}
    Points = {1, 2}
    Busy = {1}
    Plugs = 4
    Alone = TRUE
    Sources = {"cam", "srv"}
    ModeOf <- MModes
    Clips = 3
    Steered = TRUE
    Tree <- MTree
    Sticks <- MSticks
    Pdf = TRUE
    ScreenRows = 2
    Renders = {r1}
    PageCount = 3
    PruneCut = FALSE
    Room = 2
INVARIANTS
    SticksAreTrue
    PickIsHonoured
    ShowsEachOnce
    ListIsHonest
    CachedIsWhole
    BusSettles
CHECK_DEADLOCK FALSE
