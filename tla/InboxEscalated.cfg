SPECIFICATION FairSpec
CONSTANTS
    Numbers = {n1}
    Messages = {m1, m2}
    Stops = {}
    Hooks = {h1}
    Ops = {}
    NoNumber = none
    NoMessage = none
    NoHook = none
    MaxOps = 0
    MaxFaults = 0
CHECK_DEADLOCK FALSE
PROPERTIES
    EscalatedUntilOperator
