SPECIFICATION Spec
CONSTANTS
    None = None
    b1 = b1
    b2 = b2
    b3 = b3
    alice = alice
    ping = ping
    pong = pong
    Bots = {b1, b2, b3}
    Texts = {ping, pong}
    HumanTexts = {pong}
    Posters = {None}
    Square = TRUE
    OwnerTesting = {b1}
    Events = {"handpick", "refused"}
    Variants = 2
    MaxClaims = 6
    MaxMessages = 2
    MaxUpsets = 1
    OwnerOf <- Fleet
    Age <- Created
    Rule <- Rules
INVARIANTS
    NoSelfAnswer
    TriggersAreAnswered
