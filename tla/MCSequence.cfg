SPECIFICATION FairSpec
CONSTANTS
    Recipients = {}
    TopUps = {1}
    Deltas = {}
    Requested = {2}
    MinPrice = 1
    DefaultPrice = 1
    Opening = 1
    NoEnrollment = none
    Enrollments = {e1, e2}
    Ticks = {p1, p2}
    Take = 2
    Overruns = FALSE
    Requests = {"cancel", "optout", "replace", "wallet"}
    MaxSteps = 2
    MaxMessages = 2
    MaxFaults = 1
    MaxOps = 2
CHECK_DEADLOCK FALSE
INVARIANTS
    TypeOK
    StepIsSentOnce
    StepsArePaid
    OverIsOver
PROPERTIES
    NeverGoesBack
    
