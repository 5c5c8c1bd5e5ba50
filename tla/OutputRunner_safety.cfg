SPECIFICATION Spec
CONSTANTS
    Callers = {c1, c2}
    Formats = {Source, f1, f2}
    Source = Source
    None = None
    BootTask = BootTask
    MaxTrials = 2
    MayFail = {"config", "shim"}
    LateStart = TRUE
INVARIANTS
    TrialHasOwner
PROPERTIES
    KeptOnlyByKeep
