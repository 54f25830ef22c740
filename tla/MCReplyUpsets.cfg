SPECIFICATION Spec
CONSTANTS
    None = None
    b1 = b1
    b2 = b2
    b3 = b3
    alice = alice
    ping = ping
    pong = pong
    Bots = {b1, b2}
    Texts = {ping, pong}
    HumanTexts = {ping}
    Posters = {None, b1}
    Square = TRUE
    OwnerTesting = {}
    Events = {"stop", "listener", "lost", "refused", "expired", "forgotten"}
    Variants = 2
    MaxClaims = 3
    MaxMessages = 2
    MaxUpsets = 1
    OwnerOf <- Fleet
    Age <- Created
    Rule <- Rules
INVARIANTS
    TypeOK
    AnswerOnce
