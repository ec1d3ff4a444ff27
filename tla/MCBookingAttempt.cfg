CONSTANTS
    Seats = {s1, s2}
    Users = {u}
    User = u
    Bookings = {r1, r2, r3}
    Keys = {k1, k2}
    Nil = Nil
    MaxLapses = 1
SPECIFICATION AttemptSpec
SYMMETRY Symmetry
VIEW View
INVARIANTS
    IdempotencyTypeOK
    OwnersWithinLapses
    OneBookingPerKey
    AnswersAreTrue
    AnswersAreKept
    NeverWrongSeat
    NoStaleAnswer
CHECK_DEADLOCK FALSE
