SPECIFICATION Spec
CONSTANTS
    Bots = {b1, b2}
    Tokens = {t1, t2}
    Processes = {owner, other}
    Owner = owner
    TTL = 2
    MaxTime = 2
    MaxCrashes = 1
    None = None
SYMMETRY Symmetry
INVARIANTS
    ConsentIsHonoured
PROPERTIES
    ConsentSpec
CHECK_DEADLOCK FALSE
