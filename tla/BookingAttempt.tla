--------------------------- MODULE BookingAttempt ---------------------------
(***************************************************************************)
(* The browser's side of a booking: the useBooking hook on top of           *)
(* Idempotency.  One page, one user; every click sends a request, the       *)
(* button is off while one is under way, and the request goes on at the     *)
(* server after the browser has given up on it.  Or the client is a script, *)
(* such as the load test: it may send any key for any seat at any time.     *)
(***************************************************************************)
EXTENDS Idempotency

ASSUME AttemptAssumption == Nil \notin Bookings

VARIABLES
    attempt,    \* attempt.current: the seat and key in use, or no seat
    waiting,    \* the panel's request under way, Nil when the button is on
    left,       \* requests under way of panels that have unmounted
    heard,      \* history: keys whose response has come to the page
    client      \* what the user's client is, "page" or "script"

clientVars == <<attempt, waiting, left, heard, client>>
allVars == <<vars, clientVars>>

NoAttempt == [seat |-> Nil, key |-> Nil]

AttemptInit ==
    /\ Init
    /\ attempt = NoAttempt /\ waiting = Nil /\ left = {} /\ heard = {}
    /\ client \in {"page", "script"}

\* Requests whose answer the page still acts on.
Awaited == left \cup ({waiting} \ {Nil})

FreshKeys == {k \in Keys : \A r \in Bookings : rkey[r] # k}

\* Mutant: the key is made once and kept for every seat.
KeyForAnySeat(s, k) ==
    IF attempt = NoAttempt THEN k \in FreshKeys ELSE k = attempt.key

\* One key per seat attempt, reused on retry.
KeyFor(s, k) ==
    IF attempt.seat = s THEN k = attempt.key ELSE k \in FreshKeys

Click(r, k, s) ==
    /\ client = "page" /\ waiting = Nil
    /\ KeyFor(s, k)
    /\ Receive(r, k, s)
    /\ attempt' = [seat |-> s, key |-> k]
    /\ waiting' = r
    /\ UNCHANGED <<left, heard, client>>

\* The request's promise has settled; a panel that is gone only gets toasts.
Settles(r) ==
    /\ r \in Awaited
    /\ left' = left \ {r}
    /\ waiting' = IF waiting = r THEN Nil ELSE waiting
    /\ UNCHANGED <<vars, client>>

EndsAttempt(r) == attempt' = IF waiting = r THEN NoAttempt ELSE attempt

\* The panel unmounts.  Its attempt goes with it, its request does not.
Unmount(remaining) == attempt' = NoAttempt /\ waiting' = Nil /\ left' = remaining

\* A held seat: the page goes to the checkout, whichever panel asked for it.
GetSeat(r) ==
    /\ r \in Awaited /\ At(r, "done") /\ answer[r].status = "pending"
    /\ Unmount(Awaited \ {r})
    /\ heard' = heard \cup {rkey[r]}
    /\ UNCHANGED <<vars, client>>

\* Mutant: the key is kept for the next click.
GetInLineWithKey(r) ==
    /\ At(r, "done") /\ answer[r].status = "queued"
    /\ Settles(r) /\ UNCHANGED attempt
    /\ heard' = heard \cup {rkey[r]}

\* A place in the waiting list.
GetInLine(r) ==
    /\ At(r, "done") /\ answer[r].status = "queued"
    /\ Settles(r) /\ EndsAttempt(r)
    /\ heard' = heard \cup {rkey[r]}

\* A 4xx ends the attempt: the next click draws a new key.
Refused(r) ==
    /\ At(r, "done") /\ answer[r].status \in Rebuffs \cup {"refused"}
    /\ Settles(r) /\ EndsAttempt(r)
    /\ UNCHANGED heard

\* A 5xx, a lost connection or ten seconds without an answer keep the key.
GiveUp(r) ==
    /\ Settles(r)
    /\ UNCHANGED <<attempt, heard>>

\* A link or the back button; the user may come back, to a new panel.
Navigate ==
    /\ attempt # NoAttempt
    /\ Unmount(Awaited)
    /\ UNCHANGED <<vars, heard, client>>

\* Reloading the page, or closing it, ends its requests' answers as well.
Reload ==
    /\ attempt # NoAttempt \/ left # {}
    /\ Unmount({})
    /\ UNCHANGED <<vars, heard, client>>

\* A script does as it likes.
Scripted(r, k, s) ==
    /\ client = "script"
    /\ Receive(r, k, s)
    /\ UNCHANGED clientVars

AttemptNext ==
    \/ \E r \in Bookings, k \in Keys, s \in Seats : Click(r, k, s) \/ Scripted(r, k, s)
    \/ \E r \in Bookings : GetSeat(r) \/ GetInLine(r) \/ Refused(r) \/ GiveUp(r)
    \/ Navigate \/ Reload
    \/ (\E r \in Bookings : Handle(r) \/ Fail(r)) /\ UNCHANGED clientVars
    \/ (\E k \in Keys : Lapse(k)) /\ UNCHANGED clientVars
    \/ (\E b \in Bookings : Settle(b)) /\ UNCHANGED clientVars

AttemptSpec == AttemptInit /\ [][AttemptNext]_allVars

-----------------------------------------------------------------------------
(* Properties.                                                              *)

\* The page never uses a key for a second seat, so its user never sees the 422
\* of a reused key, in whatever order seats are tried, given up and retried.
NeverWrongSeat ==
    client = "page" => \A r \in Bookings : answer[r].status # "wrong_seat"

\* The page never asks again with a key whose response it has heard: the store
\* keeps that response for a day, so a user who was queued would stay queued, and
\* one whose hold is over would be taken back to its checkout.  It is so whatever
\* was given up, left behind or answered late before (useBooking.ts).
NoStaleAnswer == \A r \in Awaited : rkey[r] \notin heard
=============================================================================
