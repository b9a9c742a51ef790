SPECIFICATION Spec
CONSTANTS
    Devices = {d1}
    Rows = {s1, s2}
    Logins = {i1}
    Refreshes = {r1, r2}
    NoRow = none
    MaxSeconds = 3
SYMMETRY Symmetry
CHECK_DEADLOCK FALSE
INVARIANTS
    CookieIsCurrent
    ExchangedOnce
    ReplayIsOld
    PlaceholderIsClaimed
