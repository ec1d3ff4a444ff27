-------------------------- MODULE MCBookingAttempt --------------------------
(* Model checking of BookingAttempt: three requests for two seats. *)
EXTENDS BookingAttempt, TLC

Symmetry == Permutations(Bookings) \cup Permutations(Keys) \cup Permutations(Seats)

\* A request that has failed, made no booking and has nobody waiting for it.
Over(r) ==
    /\ At(r, "done") /\ answer[r].status \in Failures \cup {"conflict"}
    /\ bstatus[r] = "none" /\ r \notin Awaited

\* How a booking ended, why a request was refused, what failed requests asked
\* for, and the audit log have no influence on what follows.
Seen(r) ==
    IF Over(r) THEN <<rkey[r]>>
    ELSE <<pc[r], rkey[r], rseat[r],
           IF answer[r].status = "conflict" THEN Plain("refused") ELSE answer[r],
           IF bstatus[r] \in ActiveStatus \cup {"none"} THEN bstatus[r] ELSE "over">>

\* Once there is no request left to send, the panel's next key does not matter.
Page == IF \E r \in Bookings : At(r, "idle") THEN clientVars ELSE <<Awaited, heard, client>>

View == <<seat, stored, lapses, lost, Page, [r \in Bookings |-> Seen(r)]>>
=============================================================================
