CONSTANTS
    Seats = {s1, s2}
    Users = {u1}
    Bookings = {b1, b2}
    Runs = {r1, r2, r3}
    Batch = 1
    MaxFaults = 1
    Nil = Nil
SPECIFICATION FairSpec
INVARIANTS
    WorkersTypeOK
    OneRunInTime
    FreedOnce
PROPERTIES
    OverdueEnds
CHECK_DEADLOCK FALSE
