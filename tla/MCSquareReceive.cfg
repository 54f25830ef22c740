SPECIFICATION FairSpec
CONSTANTS
    StallAfter = 2
    Cooldown = 2
    EscalateAfter = 2
    Proactive = 3
    ConnectTimeout = 1
    MaxEvents = 2
    MaxQueue = 1
    MaxBreaks = 1
    MaxChains = 2
    None = None
CONSTRAINT Bounded
INVARIANTS
    NothingSkipped
    ChainKept
    BoundedDeafness
CHECK_DEADLOCK FALSE
PROPERTIES
    EventsAreHeard
