SPECIFICATION FairSpec
CONSTANTS
    b1 = b1
    b2 = b2
    token = token
    square = square
    v1 = v1
    Absent = Absent
    Closed = Closed
    Bots = {b1, b2}
    Keys = {token, square}
    Values = {v1}
    Events = {"crash", "refused", "throws", "broken", "late"}
    MaxWrites = 3
INVARIANTS
    CachesAreCurrent
    NothingLost
    DeletedStaysDeleted
PROPERTIES
    LogSpec
    EveryWriteLands
CHECK_DEADLOCK FALSE
