SPECIFICATION FairSpec
CONSTANTS
    Recipients = {r1}
    TopUps = {}
    Deltas = {}
    Requested = {}
    MinPrice = 1
    DefaultPrice = 1
    Opening = 2
    NoRecipient = none
    Workers = {w1}
    Fans = {f1}
    Hooks = {h1}
    Apis = {a1}
    Reapers = {p1}
    OptedOut = {}
    Attempts = 1
    FanoutAttempts = 1
    Ops = {"rerun"}
    LateFailures = FALSE
    Bursts = FALSE
    MaxMessages = 1
    MaxFaults = 1
    MaxOps = 1
CHECK_DEADLOCK FALSE
PROPERTIES
    FailedIsRefunded
