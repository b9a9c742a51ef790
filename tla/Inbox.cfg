SPECIFICATION FairSpec
CONSTANTS
    Numbers = {n1}
    Messages = {m1, m2}
    Stops = {m2}
    Hooks = {h1, h2}
    Ops = {o1}
    NoNumber = none
    NoMessage = none
    NoHook = none
    MaxOps = 1
    MaxFaults = 1
CHECK_DEADLOCK FALSE
INVARIANTS
    KeptOnce
    
PROPERTIES
    MessagesAreHeard
