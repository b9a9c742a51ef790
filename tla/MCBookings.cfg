SPECIFICATION Spec
CONSTANTS
    Bookings = {b1, b2}
    Threads = {t1}
    Captures = {h1, h2}
    Ops = {o1, o2}
    Ticks = {k1, k2}
    NoThread = none
    NoBooking = none
    Capacity = 1
    MaxTime = 2
    MaxEdits = 4
    MaxFaults = 1
CONSTRAINT Scenarios
SYMMETRY Symmetry
CHECK_DEADLOCK FALSE
INVARIANTS
    TypeOK
    RemindersAreCounted
    OvershootIsFlagged
    OnePerThread
