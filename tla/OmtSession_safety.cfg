CONSTANTS
    Callers = {c1, c2}
    Runs = {r1, r2, r3}
    None = None
    Budget = 1
    HoldOnLoss = FALSE
SPECIFICATION Spec
SYMMETRY Symmetry
CHECK_DEADLOCK FALSE
INVARIANTS
    OneRunDraws
    SettledState
PROPERTIES
    LiveByItsOwnFrame
    HandoverKept
