SPECIFICATION FairSpec
CONSTANTS
    None = None
    Runtimes = {r1}
    Attempts = {a1, a2}
    Mids = {m1}
    Names = {n1, n2}
    MaxGen = 2
    MaxCrashes = 0
PROPERTIES
    EveryLoginSettles
    RenameIsCaught
