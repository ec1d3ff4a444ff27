---------------------------- MODULE SeatMapView ----------------------------
(***************************************************************************)
(* The seat map of one browser.  It is fetched from the database once, when *)
(* the event page opens, and from then on follows seat:updated messages,    *)
(* which a handler sends some awaits after its transaction has committed.   *)
(* Neither the fetch nor a message carries a version: whatever arrives last *)
(* is shown.                                                                *)
(*                                                                          *)
(* Messages of one connection arrive in the order in which they are sent.   *)
(* Some names carry a prefix, so that one module can extend this one and    *)
(* Checkout.                                                                *)
(***************************************************************************)
EXTENDS SeatLedger, Sequences

CONSTANTS
    Procs,      \* handlers that change seats, on any instance
    Fetches     \* requests for the seat list that can be under way at once

VARIABLES
    news,       \* what a handler has yet to announce, Nil while idle
    joined,     \* the browser's socket is in the room event:<id>
    inbox,      \* messages on their way to it
    asked,      \* fetches the server has not answered
    lists,      \* the seat list each fetch brings, Blank if none is on its way
    map,        \* seatStatuses of the store
    smooth      \* nothing has overtaken anything since a fetch in calm

viewVars == <<joined, inbox, asked, lists, map, smooth>>
mapVars == <<ledgerVars, news, viewVars>>

Message == [seat : Seats, status : SeatStatus]
News    == [seat : Seats, status : SeatStatus \cup {"undecided"}]

ASSUME ViewAssumption == Nil \notin News

Blank == [s \in Seats |-> "unknown"]

ViewInit ==
    /\ LedgerInit
    /\ news = [p \in Procs |-> Nil]
    /\ joined = FALSE /\ inbox = <<>>
    /\ asked = {} /\ lists = [f \in Fetches |-> Blank]
    /\ map = Blank
    /\ smooth = FALSE

-----------------------------------------------------------------------------
(* The server.                                                              *)

\* A seat list is on its way.
Answered == {f \in Fetches : lists[f] # Blank}

\* Nobody else has this seat in hand, and no list that misses the change is on
\* its way.
Undisturbed(p, s) ==
    /\ \A q \in Procs \ {p} : news[q] # Nil => news[q].seat # s
    /\ Answered = {}

\* Handler p has committed a change of seat s and will announce it.
Commits(p, s, status) ==
    /\ news' = [news EXCEPT ![p] = [seat |-> s, status |-> status]]
    /\ smooth' = (smooth /\ Undisturbed(p, s))
    /\ UNCHANGED <<joined, inbox, asked, lists, map>>

\* createBooking.
Book(p, b, u, s) ==
    /\ news[p] = Nil
    /\ Reserve(b, u, s)
    /\ Commits(p, s, "reserved")

\* confirmBooking.
Pay(p, b) ==
    /\ news[p] = Nil
    /\ Confirm(b)
    /\ Commits(p, bseat[b], "booked")

\* cancelBooking, a failed payment, the expiry worker: the seat is free, and
\* what to announce is decided by the release.
Free(p, b) ==
    /\ news[p] = Nil
    /\ (\E u \in Users : Cancel(b, u)) \/ Compensate(b) \/ Expire(b)
    /\ Commits(p, bseat[b], "undecided")

Undecided(p) == news[p] # Nil /\ news[p].status = "undecided"

\* _offerToWaiter.
HoldForWaiter(p, b, u) ==
    /\ Undecided(p)
    /\ Reserve(b, u, news[p].seat)
    /\ Commits(p, news[p].seat, "reserved")

\* Mutant: the seat goes back on sale without a broadcast.
PutOnSaleQuietly(p) ==
    /\ Undecided(p)
    /\ news' = [news EXCEPT ![p] = Nil]
    /\ UNCHANGED <<ledgerVars, viewVars>>

\* _releaseToPublic, also after the hold for a waiter has failed.
PutOnSale(p) ==
    /\ Undecided(p)
    /\ news' = [news EXCEPT ![p].status = "available"]
    /\ UNCHANGED <<ledgerVars, viewVars>>

\* broadcastSeatUpdate; a browser that is not in the room gets nothing.
Announce(p) ==
    /\ news[p] # Nil /\ ~Undecided(p)
    /\ inbox' = IF joined THEN Append(inbox, news[p]) ELSE inbox
    /\ news' = [news EXCEPT ![p] = Nil]
    /\ UNCHANGED <<ledgerVars, joined, asked, lists, map, smooth>>

\* An await between the commit and the broadcast rejects, or the process dies.
Crash(p) ==
    /\ news[p] # Nil
    /\ news' = [news EXCEPT ![p] = Nil]
    /\ smooth' = FALSE
    /\ UNCHANGED <<ledgerVars, joined, inbox, asked, lists, map>>

-----------------------------------------------------------------------------
(* The browser.                                                             *)

\* The socket connects and subscribes, at first or again; nothing is fetched.
Join ==
    /\ ~joined
    /\ joined' = TRUE
    /\ UNCHANGED <<ledgerVars, news, inbox, asked, lists, map, smooth>>

\* Mutant: the page is left without disconnecting.
DisconnectOpen ==
    /\ joined
    /\ joined' = FALSE /\ smooth' = FALSE
    /\ UNCHANGED <<ledgerVars, news, inbox, asked, lists, map>>

\* The connection is lost or the page closed.  The store keeps its map.
Disconnect ==
    /\ joined
    /\ joined' = FALSE /\ inbox' = <<>> /\ smooth' = FALSE
    /\ UNCHANGED <<ledgerVars, news, asked, lists, map>>

\* The effect of EventPage.
Ask(f) ==
    /\ f \notin asked \cup Answered
    /\ asked' = asked \cup {f}
    /\ UNCHANGED <<ledgerVars, news, joined, inbox, lists, map, smooth>>

\* Nothing is under way between server and browser.
Calm ==
    /\ joined /\ inbox = <<>> /\ Answered = {}
    /\ \A p \in Procs : news[p] = Nil

\* getSeatsForEvent.
ReadSeats(f) ==
    /\ f \in asked
    /\ asked' = asked \ {f}
    /\ lists' = [lists EXCEPT ![f] = seat]
    /\ smooth' = (smooth \/ Calm)
    /\ UNCHANGED <<ledgerVars, news, joined, inbox, map>>

\* setSeatStatuses.
Arrive(f) ==
    /\ f \in Answered
    /\ map' = lists[f]
    /\ lists' = [lists EXCEPT ![f] = Blank]
    /\ UNCHANGED <<ledgerVars, news, joined, inbox, asked, smooth>>

\* The seat list or the event's details do not come: neither is used.
FetchFails(f) ==
    /\ f \in asked \cup Answered
    /\ asked' = asked \ {f}
    /\ lists' = [lists EXCEPT ![f] = Blank]
    /\ smooth' = FALSE
    /\ UNCHANGED <<ledgerVars, news, joined, inbox, map>>

\* updateSeatStatus.
Deliver ==
    /\ inbox # <<>>
    /\ map' = [map EXCEPT ![Head(inbox).seat] = Head(inbox).status]
    /\ inbox' = Tail(inbox)
    /\ UNCHANGED <<ledgerVars, news, joined, asked, lists, smooth>>

ViewNext ==
    \/ \E p \in Procs, b \in Bookings, u \in Users :
        HoldForWaiter(p, b, u) \/ \E s \in Seats : Book(p, b, u, s)
    \/ \E p \in Procs, b \in Bookings : Pay(p, b) \/ Free(p, b)
    \/ \E p \in Procs : PutOnSale(p) \/ Announce(p) \/ Crash(p)
    \/ \E f \in Fetches : Ask(f) \/ ReadSeats(f) \/ Arrive(f) \/ FetchFails(f)
    \/ Join \/ Disconnect \/ Deliver

ViewSpec == ViewInit /\ [][ViewNext]_mapVars

-----------------------------------------------------------------------------
(* Properties.                                                              *)

\* A browser outside the room has no messages coming, and a message says what
\* the seat is, never that a release is under way.
ViewTypeOK ==
    /\ LedgerTypeOK
    /\ news \in [Procs -> News \cup {Nil}]
    /\ joined \in BOOLEAN /\ smooth \in BOOLEAN
    /\ inbox \in Seq(Message) /\ (inbox # <<>> => joined)
    /\ lists \in [Fetches -> [Seats -> SeatStatus] \cup {Blank}]
    /\ asked \subseteq Fetches \ Answered
    /\ map \in [Seats -> SeatStatus \cup {"unknown"}]

\* "Real-time seat availability updates" (README.md): once everything sent has
\* arrived the map shows what the tables say, for as long as the connection
\* lasts, no two handlers have had the same seat in hand at once, and no change
\* was committed while a seat list was on its way.  Fetches may come at any
\* time and in any order, and messages sent before a list may arrive after it.
MapIsTrue == smooth /\ Calm => map = seat
=============================================================================
