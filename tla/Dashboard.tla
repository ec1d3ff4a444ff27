----------------------------- MODULE Dashboard -----------------------------
(***************************************************************************)
(* The admin dashboard beside a running sale: GET /dashboard asks three     *)
(* queries one after the other while the handlers' transactions go on, and   *)
(* the page keeps the last complete answer until the next refresh.           *)
(*                                                                          *)
(* One event; every booking costs the same, so revenue counts bookings.      *)
(***************************************************************************)
EXTENDS SeatLedger, Integers, FiniteSets

VARIABLES
    refresh,    \* what the route awaits next, "idle" between two refreshes
    answer,     \* what it has been answered so far
    data        \* the page's state: the last complete answer

dashboardVars == <<ledgerVars, refresh, answer, data>>

Rows(statuses) == {b \in Bookings : bstatus[b] \in statuses}

\* The event joined with all its seats and all its bookings: every seat once for
\* each booking, or once if there is none.
Copies(rows) == IF rows = {} THEN 1 ELSE Cardinality(rows)

SeatsCounted(status) ==
    Copies(Rows(BookingStatus)) * Cardinality({s \in Seats : seat[s] = status})

Empty == [stats |-> Nil, revenue |-> Nil, event |-> Nil]

DashboardInit ==
    /\ LedgerInit
    /\ refresh = "idle" /\ answer = Empty /\ data = Nil

\* The page has been opened, or its fifteen seconds are over.
Refresh ==
    /\ refresh = "idle"
    /\ refresh' = "stats"
    /\ UNCHANGED <<ledgerVars, answer, data>>

CountBookings ==
    /\ refresh = "stats"
    /\ answer' = [answer EXCEPT !.stats =
         [total |-> Cardinality(Rows(BookingStatus)),
          by    |-> [status \in BookingStatus \ {"cancelled"} |-> Cardinality(Rows({status}))]]]
    /\ refresh' = "revenue"
    /\ UNCHANGED <<ledgerVars, data>>

SumRevenue ==
    /\ refresh = "revenue"
    /\ answer' = [answer EXCEPT !.revenue = Cardinality(Rows({"confirmed"}))]
    /\ refresh' = "event"
    /\ UNCHANGED <<ledgerVars, data>>

\* The query over the joined tables, the answer, and what the page makes of it.
CountSeats ==
    /\ refresh = "event"
    /\ data' = [answer EXCEPT !.event =
         [booked    |-> SeatsCounted("booked"),
          reserved  |-> SeatsCounted("reserved"),
          available |-> SeatsCounted("available"),
          revenue   |-> Copies(Seats) * Cardinality(Rows({"confirmed"}))]]
    /\ answer' = Empty /\ refresh' = "idle"
    /\ UNCHANGED ledgerVars

\* A query fails, or the answer is lost: the page keeps what it had.
RefreshFails ==
    /\ refresh # "idle"
    /\ refresh' = "idle" /\ answer' = Empty
    /\ UNCHANGED <<ledgerVars, data>>

DashboardNext ==
    \/ LedgerNext /\ UNCHANGED <<refresh, answer, data>>
    \/ Refresh \/ CountBookings \/ SumRevenue \/ CountSeats \/ RefreshFails

DashboardSpec == DashboardInit /\ [][DashboardNext]_dashboardVars

\* What the row of the event says: how many seats are left, and from the rest of
\* the hall how full it is.
SeatsLeft == data.event.available
Taken     == Cardinality(Seats) - SeatsLeft

-----------------------------------------------------------------------------
\* "Admin dashboard with bookings, revenue, audit log, and live event occupancy"
\* (README.md): no more seats are shown as left than the hall has, so that the
\* occupancy is between none and all of them.
OccupancyIsPossible ==
    data # Nil => SeatsLeft \in 0 .. Cardinality(Seats) /\ Taken \in 0 .. Cardinality(Seats)
=============================================================================
