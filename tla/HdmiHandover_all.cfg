SPECIFICATION FairSpec
CONSTANTS
    Modules = {"omt", "player", "cam"}
    MayDie = {"omt"}
    MayFail = {"stop", "start"}
    Straggles = {"omt"}
    Aborts = TRUE
    OwnerStartsToo = TRUE
INVARIANTS DarkHasOwner
PROPERTIES StaysStopped DarkEnds
