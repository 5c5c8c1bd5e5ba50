SPECIFICATION FairSpec
CONSTANTS
    w1 = w1  l1 = l1  l2 = l2  p1 = p1  p2 = p2  p3 = p3  m1 = m1
    Web = {w1}
    Menus = {m1}
    Loops = {l1, l2}
    NoLoop = NoLoop
    Threads = {w1, m1, l1, l2}
    Plays = {p1, p2}
    NoPlay = NoPlay
    Limit = 2
    Outlasts = {"restoring"}
    Ops = {"play", "exit and stop", "eject", "refresh"}
    Keys = {"ok", "back", "red"}
    KeyRoom = 1
    EventRoom = 3
    Backlog = 1
    Intrudes = FALSE
INVARIANTS
    OneDrawsAndHolds
    HandsBack
PROPERTIES
    SessionGoesOn
CHECK_DEADLOCK FALSE
