SPECIFICATION FairSpec
CONSTANTS
    Carts = {c1, c2}
    Items = {i1}
    Turns = {h1}
    Hooks = {k1, k2}
    NoCart = none
    Channels = {"whatsapp", "messenger", "call", "desk"}
    Gateways = {"echo", "invoice"}
    MaxLinks = 2
    MaxTurns = 2
    MaxFaults = 1
    MaxExtra = 0
CHECK_DEADLOCK FALSE
INVARIANTS
    
    NotifiedOnce
    TotalsMatchLines
PROPERTIES
    PaidStaysPaid
    
