SPECIFICATION FairSpec
CONSTANTS
    Deliveries = {d1}
    Slots = {w1, w2}
    NoJob = none
    MaxAttempts = 2
    QueueAttempts = 3
    Threshold = 2
    MaxRetries = 1
    MaxFaults = 1
CHECK_DEADLOCK FALSE
INVARIANTS
    PostsAreBounded
    ThresholdDisables
PROPERTIES
    KeepsPromise
    DeliveryEnds
