SPECIFICATION Spec
CONSTANTS
    Recipients = {r1, r2}
    TopUps = {}
    Deltas = {}
    Requested = {}
    MinPrice = 1
    DefaultPrice = 1
    Opening = 1
    NoRecipient = none
    Workers = {w1, w2}
    Fans = {f1}
    Hooks = {h1}
    Apis = {}
    Reapers = {}
    OptedOut = {}
    Attempts = 1
    FanoutAttempts = 1
    Ops = {}
    LateFailures = TRUE
    Bursts = TRUE
    MaxMessages = 1
    MaxFaults = 0
    MaxOps = 0
SYMMETRY Symmetry
CHECK_DEADLOCK FALSE
INVARIANTS
    SentIsBilled
PROPERTIES
    DeliveredKeepsItsCharge
    
