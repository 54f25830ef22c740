SPECIFICATION FairSpec
CONSTANTS
    None = None
    Lanes = {l1, l2}
    SendLanes = {}
    MaxSessions = 3
    MaxAfterRedial = 2
    Requests = {r1}
CONSTRAINT Bounded
INVARIANTS
    InFlightExact
    NoLaneIsForgotten
    NoSocketLeaks
    MeasuredOnThisRoute
PROPERTIES
    MaintenanceKeepsServing
    LaneReturns
CHECK_DEADLOCK FALSE
