CONSTANTS
    e1 = e1
    s1 = s1
    Events = {e1}
    EventOf <- OneHall
    Event = e1
    Seats = {s1}
    Users = {u1}
    Bookings = {b1, b2}
    Procs = {p1}
    Nil = Nil
    MaxOffers = 1
    MaxSkips = 1
    MaxClock = 1
    MaxFaults = 0
SPECIFICATION FalseFixSpec
INVARIANT NoFalseFix
