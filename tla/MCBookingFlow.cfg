CONSTANTS
    e1 = e1
    e2 = e2
    s1 = s1
    s2 = s2
    Events = {e1, e2}
    EventOf <- TwoHalls
    Seats = {s1, s2}
    Users = {u1}
    Bookings = {b1, b2}
    Procs = {p1, p2}
    Nil = Nil
    MaxOffers = 1
    MaxSkips = 2
    MaxClock = 2
    MaxFaults = 1
SPECIFICATION Spec
SYMMETRY Symmetry
VIEW View
INVARIANTS
    FlowTypeOK
    OnSaleSeatsStartFresh
    SaleIsSafe
    CounterWithinFaults
PROPERTIES
    ReleasesRunDown
    PlacesAreKept
