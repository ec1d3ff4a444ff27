--------------------------- MODULE MCSeatMapView ---------------------------
EXTENDS SeatMapView, TLC

Symmetry == Permutations(Seats) \cup Permutations(Bookings) \cup Permutations(Procs)
                \cup Permutations(Fetches)

\* Nothing in SeatMapView reads the audit log.
View == <<seat, bstatus, bseat, buser, news, viewVars>>
=============================================================================
