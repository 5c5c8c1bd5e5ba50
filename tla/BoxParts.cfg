SPECIFICATION BoxSpec
CONSTANTS
    CamConfigs <- MConfigs
    Cameras <- MCameras
    Posters = {p1}
    SystemctlFails = TRUE
    CamRuns <- MRuns
    CamFaults = {"stop", "mark", "launch", "sink", "dial", "library", "point", "back", "crash"}
    Chooses = FALSE
    Packages = {"gateway", "omt", "play"}
    CutIn = {"gateway", "play"}
    Overlaps = FALSE
    Moves = {"omt"}
    Removes = {"gateway", "omt"}
    PathNames = {"cam", "live", "all"}
    StreamKeys = {"k1", "k2"}
    Ids = {"i1", "i2"}
    Tabs = {t1}
    Renames = FALSE
    MaxForwards = 2
    MaxEdits = 1
    Daemons = {"omt", "gateway", "output", "tailscale"}
    Callers = {c1, c2}
    Kept = 2
    Patience = 1
    Sizes <- MSizes
    Rates = {24, 60, 120}
    Timings <- MTimings
    Unit = 1000
    Areas <- MAreas
    Pictures <- MPictures
    Screens <- MScreens
    Devices = {kbd, mouse}
    Keys = {a}
    NdiSources = {s1, s2}
    Off = Off
INVARIANTS
    SavedIsSent
    FormatsAreTaken
PROPERTIES
    TakenGoesBack
    PagesAreWhole
    KeysAreKept
    VerdictIsRecent
    TypedGoesToScreen
