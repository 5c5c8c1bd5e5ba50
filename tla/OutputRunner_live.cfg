SPECIFICATION FairSpec
CONSTANTS
    Callers = {c1}
    Formats = {Source, f1, f2}
    Source = Source
    None = None
    BootTask = BootTask
    MaxTrials = 2
    MayFail = {}
    LateStart = FALSE
INVARIANTS
    UnkeptIsOnTrial
PROPERTIES
    ScreenComesBack
