CONSTANTS
    Seats = {s1, s2, s3}
    Users = {u1}
    Bookings = {b1, b2}
    Nil = Nil
SPECIFICATION DashboardSpec
INVARIANT OccupancyIsPossible
CHECK_DEADLOCK FALSE
