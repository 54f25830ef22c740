SPECIFICATION Spec
CONSTANTS
    None = None
    hi = hi
    bye = bye
    Texts = {hi, bye}
    Variants = 3
    MAX_RESENDS = 2
    Events = {"stop", "rebuilt", "expired", "refused", "fails", "jitter"}
    MaxReplies = 2
    MaxUpsets = 1
INVARIANTS
    BudgetHolds
    NeverTheSameTwice
CHECK_DEADLOCK FALSE
