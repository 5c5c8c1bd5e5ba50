SPECIFICATION PartsSpec
CONSTANTS
    Handlers = {h1}
    Boot = boot
    Sources = {camA, camB}
    NoSource = NoSource
    Settings = {low, high}
    MayFail = {"save", "display"}
    MayRestart = TRUE
    OneByOne = TRUE
    Limit = 3
    Window = 4
    Horizon = 9
    Senders = {home, other}
    Home = home
    None = None
    Audio = TRUE
    Tally = TRUE
    Fickle = {home, other}
    MayStop = TRUE
    Readers = {r1, r2}
    Frames = {f1, f2, f3, f4, f5}
    NoFrame = NoFrame
    FreeCap = 3
    Buffers = {b1, b2, b3}
    QueueCap = 1
    NoBuffer = NoBuffer
    Chunks = {1, 2}
    Budget = 3
    Lookers = {k1, k2}
    Nobody = Nobody
    Extras <- MExtras
INVARIANTS
    RecordIsTrue
    StopSticks
    LoopIsCut
    FollowsRedirect
    PoolsAreSound
    ListIsCurrent
PROPERTIES
    StaysConnected
    NothingHangs
