SPECIFICATION FairSpec
CONSTANTS
    Broadcasts = {x1}
    Csv = {x1}
    Requests = {a1, a2}
    Fans = {f1, f2}
    NoBroadcast = none
    Batches = 2
    Cap = 1
    FanoutAttempts = 2
    MaxOps = 3
    MaxFaults = 1
CHECK_DEADLOCK FALSE
INVARIANTS
    LaunchesWithinCap
    AudienceIsWhole
PROPERTIES
    LaunchesEnd
