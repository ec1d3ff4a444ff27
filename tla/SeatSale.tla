------------------------------- MODULE SeatSale -------------------------------
(***************************************************************************)
(* What buying a seat promises, with nothing of how it is done: a seat has  *)
(* one holder or none, only its holder can have it paid, and it is free for *)
(* the next one only when it has been given back.  SeatLedger implements    *)
(* this, with the holder read from the table bookings and the payment from  *)
(* the table seats.                                                         *)
(***************************************************************************)
CONSTANTS
    Seats,      \* the seats of one event
    Users,      \* the people who may hold one
    Nobody      \* the holder of a free seat

VARIABLES
    holder,     \* who has a seat
    paid        \* the seats whose holder has paid

saleVars == <<holder, paid>>

Init ==
    /\ holder = [s \in Seats |-> Nobody]
    /\ paid   = {}

Take(s, u) ==
    /\ holder[s] = Nobody /\ s \notin paid
    /\ holder' = [holder EXCEPT ![s] = u]
    /\ UNCHANGED paid

Pay(s) ==
    /\ holder[s] # Nobody /\ s \notin paid
    /\ paid' = paid \cup {s}
    /\ UNCHANGED holder

\* A hold that has run out or is given up, a payment that has failed, or a
\* ticket that its holder returns.
GiveBack(s) ==
    /\ holder[s] # Nobody
    /\ holder' = [holder EXCEPT ![s] = Nobody]
    /\ paid' = paid \ {s}

Next ==
    \/ \E s \in Seats, u \in Users : Take(s, u)
    \/ \E s \in Seats : Pay(s) \/ GiveBack(s)

Spec == Init /\ [][Next]_saleVars
=============================================================================
