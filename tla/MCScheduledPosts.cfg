SPECIFICATION PostFairSpec
CONSTANTS
    None = None
    b1 = b1
    Bots = {b1}
    MaxSends = 2
    Window = 3
    MaxTime = 5
    Posts = {p1}
    BotOf <- Owner
    RunTimes = {1, 4}
    Grace = 1
    PastGrace = 1
    MaxTimeout = 2
    MaxRevisions = 3
    MaxCrashes = 1
INVARIANTS
    WindowBound
    RetryAfterIsExact
    OnTimeOrNever
    PendingIsArmed
    OncePerProcess
PROPERTIES
    EveryPostIsDecided
CHECK_DEADLOCK FALSE
