SPECIFICATION SlotSpec
CONSTANTS
    NoRoom = NoRoom
    b1 = b1
    b2 = b2
    b3 = b3
    Bots <- MCBots
    Owner <- MCOwner
    Edited = {b1}
    r1 = r1
    r2 = r2
    Rooms = {r1, r2}
    Joined <- MCJoined
    Capacity = 1
INVARIANTS
    NoIdleSlot
    Covered
    DeniedStaysDenied
PROPERTIES
    StableAdmission
CHECK_DEADLOCK FALSE
