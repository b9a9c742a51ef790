SPECIFICATION Spec
CONSTANTS
    Recipients = {r1}
    TopUps = {}
    Deltas = {}
    Requested = {}
    MinPrice = 1
    DefaultPrice = 1
    Opening = 2
    NoRecipient = none
    Workers = {w1, w2}
    Fans = {f1, f2}
    Hooks = {}
    Apis = {a1}
    Reapers = {}
    OptedOut = {}
    Attempts = 2
    FanoutAttempts = 1
    Ops = {"pause", "resume", "cancel"}
    LateFailures = FALSE
    Bursts = FALSE
    MaxMessages = 4
    MaxFaults = 2
    MaxOps = 2
SYMMETRY Symmetry
CHECK_DEADLOCK FALSE
INVARIANTS
    ChargesBackedByAccept
    SettledIsLeftAlone
    StopIsPrompt
