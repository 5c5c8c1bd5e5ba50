SPECIFICATION Spec
CONSTANTS
    Modules = {"player"}
    MayDie = {}
    MayFail = {}
    Straggles = {"player"}
    Aborts = FALSE
    OwnerStartsToo = FALSE
INVARIANTS DarkHasOwner
