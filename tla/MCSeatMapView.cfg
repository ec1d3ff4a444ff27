CONSTANTS
    Seats = {s1, s2}
    Users = {u1}
    Bookings = {b1, b2}
    Procs = {p1, p2}
    Fetches = {f1, f2}
    Nil = Nil
SPECIFICATION ViewSpec
SYMMETRY Symmetry
VIEW View
INVARIANTS
    ViewTypeOK
    MapIsTrue
