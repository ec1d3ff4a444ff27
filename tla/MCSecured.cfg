CONSTANTS
    Seats = {s1, s2}
    Users = {u1}
    Bookings = {b1, b2}
    Nil = Nil
    Me = u1
    Calls = {c1, c2}
SPECIFICATION Spec
INVARIANT SecuredIsPaid
CHECK_DEADLOCK FALSE
