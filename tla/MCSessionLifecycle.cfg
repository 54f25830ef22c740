SPECIFICATION Spec
CONSTANTS
    None = None
    Runtimes = {r1, r2}
    Attempts = {a1, a2}
    Mids = {m1, m2}
    Names = {n1}
    MaxGen = 2
    MaxCrashes = 1
VIEW Seen
SYMMETRY Symmetry
INVARIANTS
    SingleSession
    StatusIsTrue
    LiveSessionMatchesLock
PROPERTIES
    StaleAttemptsAreInert
    ServiceSpec
