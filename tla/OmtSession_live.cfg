CONSTANTS
    Callers = {c1, c2}
    Runs = {r1, r2}
    None = None
    Budget = 0
    HoldOnLoss = TRUE
SPECIFICATION FairSpec
CHECK_DEADLOCK FALSE
PROPERTIES
    CallsReturn
    ErrorGivesBack
    SilenceEndsLive
