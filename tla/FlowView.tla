------------------------------ MODULE FlowView ------------------------------
(***************************************************************************)
(* What of a state of BookingFlow has an influence on what follows, for the *)
(* views of its model checking.  No guard and no property reads the rest.   *)
(***************************************************************************)
EXTENDS BookingFlow

When(p, labels, value) == IF pc[p] \in labels THEN value ELSE Nil

\* A handler reads its variables at these awaits and sets them anew elsewhere.
Live(p) ==
    <<pc[p],
      When(p, PCs \ {"idle", "paid"}, pevent[p]),
      When(p, {"reserve", "leave", "join", "check", "hold"}, puser[p]),
      When(p, ReleasePcs \cup {"reserve", "paid"}, pseat[p]),
      When(p, {"check", "hold"}, pscore[p]),
      When(p, {"pop", "check"}, tries[p]),
      skipped[p], pcount[p]>>

\* Past the limit an offer count is only compared with it, and with 0.
Offered(s) == IF offers[s] < MaxOffers THEN offers[s] ELSE MaxOffers

\* How a booking ended and its name do not matter: the active ones differ in
\* their seats, whose status they tell.  Nor does the audit log.
InForce == {<<bstatus[b], bseat[b], buser[b], bevent[b]>> : b \in {c \in Bookings : bstatus[c] \in ActiveStatus}}
Unused  == Cardinality({b \in Bookings : bstatus[b] = "none"})

FlowView ==
    <<InForce, Unused, counter, hasCounter, waiting,
      [s \in Seats |-> Offered(s)], [p \in Procs |-> Live(p)], faults>>
=============================================================================
