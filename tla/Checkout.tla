------------------------------ MODULE Checkout ------------------------------
(***************************************************************************)
(* One browser tab of one user, from a hold to its payment: the event page  *)
(* that books and receives offers, the store they share, and the checkout   *)
(* page with its countdown and its requests.  Answers may be late, or come   *)
(* after the page has gone or has turned to another booking; React keeps a   *)
(* page's state when only the booking in its route changes.                  *)
(*                                                                          *)
(* The server's side of a request is a step of SeatLedger.                  *)
(***************************************************************************)
EXTENDS SeatLedger

CONSTANTS
    Me,         \* the user of the tab
    Calls       \* requests that can be under way at once

ASSUME CheckoutAssumption ==
    Me \in Users /\ {Nil, "event", "other"} \cap Bookings = {}

VARIABLES
    page,       \* the booking of the checkout page, "event" or "other"
    pstate,     \* paymentState
    loading,    \* loading: the page has no buttons yet
    shown,      \* bookings this mounted page has been routed to
    active,     \* the store's activeBookingId, whose deadline it also holds
    toasts,     \* offers with a "Pay now" button on the screen
    bounce,     \* the timer that goes home after a failed payment
    due,        \* bookings with expires_at < now()
    calls       \* requests under way

tabVars == <<page, pstate, loading, shown, active, toasts, bounce>>
vars == <<ledgerVars, tabVars, due, calls>>

PaymentState == {"idle", "processing", "success", "failed"}

NoCall == [kind |-> "none", booking |-> Nil, stage |-> "done", here |-> FALSE]

\* A request is sent, then served ("ok" or "error"), then answered; "late" is
\* one the browser no longer waits for.  here: the page that sent it is mounted.
Call ==
    [kind : {"book", "initiate", "pay", "fail"}, booking : Bookings,
     stage : {"sent", "late", "ok", "error"}, here : BOOLEAN]

Payments == {c \in Calls : calls[c].kind \in {"pay", "fail"} /\ calls[c].here}

Init ==
    /\ LedgerInit
    /\ page = "other" /\ pstate = "idle" /\ loading = FALSE /\ shown = {}
    /\ active = Nil /\ toasts = {} /\ bounce = FALSE /\ due = {}
    /\ calls = [c \in Calls |-> NoCall]

Sent(kind, b) == [kind |-> kind, booking |-> b, stage |-> "sent", here |-> TRUE]

\* What becomes of the requests of a page that unmounts: nobody looks at the
\* answer of an initiate.
Abandoned(call) ==
    IF call.kind \in {"initiate", "none"} THEN NoCall ELSE [call EXCEPT !.here = FALSE]

-----------------------------------------------------------------------------
(* Routing.  rest is calls without the one whose answer leads there.        *)

\* To a page that is not the checkout page.
GoAway(to) ==
    /\ page' = to
    /\ pstate' = "idle" /\ loading' = FALSE /\ shown' = {}
    /\ calls' = [c \in Calls |-> Abandoned(calls[c])]

\* To /checkout/b: a new page, or the one that is there with another booking.
\* Its effect asks for the payment's details.
GoCheckout(b, rest) ==
    /\ page' = b
    /\ IF page \in Bookings
       THEN UNCHANGED <<pstate, loading>> /\ shown' = shown \cup {b}
       ELSE pstate' = "idle" /\ loading' = TRUE /\ shown' = {b}
    /\ LET kept == [c \in Calls |-> IF page \in Bookings THEN rest[c] ELSE Abandoned(rest[c])]
       IN  IF page = b THEN calls' = kept
           ELSE \E c \in Calls :
                /\ kept[c] = NoCall
                /\ calls' = [kept EXCEPT ![c] = Sent("initiate", b)]

\* The user follows a link.
Leave(to) ==
    /\ page # to
    /\ GoAway(to)
    /\ UNCHANGED <<ledgerVars, active, toasts, bounce, due>>

\* setTimeout(() => navigate('/'), 2000), whichever page is there by then.
Bounce ==
    /\ bounce /\ bounce' = FALSE
    /\ GoAway("other")
    /\ UNCHANGED <<ledgerVars, active, toasts, due>>

-----------------------------------------------------------------------------
(* The event page.                                                          *)

ClickReserve(c, b) ==
    /\ page = "event" /\ calls[c] = NoCall
    /\ bstatus[b] = "none" /\ \A d \in Calls : calls[d].booking # b
    /\ \A d \in Calls : calls[d].kind # "book" \/ ~calls[d].here
    /\ calls' = [calls EXCEPT ![c] = Sent("book", b)]
    /\ UNCHANGED <<ledgerVars, tabVars, due>>

\* waitlist:offered, over the socket of the event page.
Offered(b) ==
    /\ page = "event"
    /\ \A d \in Calls : calls[d].booking # b
    /\ \E s \in Seats : Reserve(b, Me, s)
    /\ active' = b
    /\ toasts' = toasts \cup {b}
    /\ UNCHANGED <<page, pstate, loading, shown, bounce, due, calls>>

PayNow(b) ==
    /\ b \in toasts
    /\ toasts' = toasts \ {b}
    /\ GoCheckout(b, calls)
    /\ UNCHANGED <<ledgerVars, active, bounce, due>>

-----------------------------------------------------------------------------
(* The checkout page.                                                       *)

\* submit(success): the buttons are off while a payment is processing.
Submit(c, kind) ==
    /\ page \in Bookings /\ ~loading
    /\ pstate \in {"idle", "failed"}
    /\ calls[c] = NoCall
    /\ calls' = [calls EXCEPT ![c] = Sent(kind, page)]
    /\ pstate' = "processing"
    /\ UNCHANGED <<ledgerVars, page, loading, shown, active, toasts, bounce, due>>

\* handleExpiry: the countdown on the store's deadline has run out.
CountdownEnds ==
    /\ page \in Bookings /\ active \in due
    /\ active' = Nil
    /\ GoAway("other")
    /\ UNCHANGED <<ledgerVars, toasts, bounce, due>>

-----------------------------------------------------------------------------
(* The server.                                                              *)

\* What a request does to the tables, and whether that is a success.
Effect(call, ok) ==
    LET b == call.booking IN
    \/ call.kind = "book" /\ ok /\ \E s \in Seats : Reserve(b, Me, s)
    \/ call.kind = "pay"  /\ ok /\ Confirm(b)
    \/ call.kind = "fail" /\ ok /\ Compensate(b)
    \/ /\ \/ call.kind = "book" /\ ~ok
          \/ call.kind = "initiate" /\ ok = (bstatus[b] = "pending")
          \/ call.kind = "pay"  /\ bstatus[b] # "pending" /\ ok = (bstatus[b] = "confirmed")
          \/ call.kind = "fail" /\ bstatus[b] # "pending" /\ ok
       /\ UNCHANGED ledgerVars

\* A request is served; a late one has nobody to answer to.  An error after the
\* commit (Redis) or before it (the database) is an error for the browser.
Serve(c) ==
    /\ calls[c].stage \in {"sent", "late"}
    /\ \E ok, fault \in BOOLEAN :
        /\ Effect(calls[c], ok) \/ (fault /\ UNCHANGED ledgerVars)
        /\ calls' = [calls EXCEPT ![c] =
             IF calls[c].stage = "late" THEN NoCall
             ELSE [@ EXCEPT !.stage = IF ok /\ ~fault THEN "ok" ELSE "error"]]
    /\ UNCHANGED <<tabVars, due>>

\* The user cancels in another tab, or the worker ends the hold.
EndElsewhere(b) ==
    /\ Cancel(b, Me) \/ (b \in due /\ Expire(b))
    /\ UNCHANGED <<tabVars, due, calls>>

\* Only told apart where it matters: for a hold, and for the store's deadline.
RunOut(b) ==
    /\ b \notin due /\ (bstatus[b] = "pending" \/ active = b)
    /\ due' = due \cup {b}
    /\ UNCHANGED <<ledgerVars, tabVars, calls>>

-----------------------------------------------------------------------------
(* Answers.                                                                 *)

\* The store and the route follow a booking's answer wherever the user is.
BookAnswered(c) ==
    /\ calls[c].kind = "book" /\ calls[c].stage = "ok"
    /\ active' = calls[c].booking
    /\ GoCheckout(calls[c].booking, [calls EXCEPT ![c] = NoCall])
    /\ UNCHANGED <<ledgerVars, toasts, bounce, due>>

InitiateAnswered(c) ==
    /\ calls[c].kind = "initiate" /\ calls[c].stage = "ok"
    /\ loading' = FALSE
    /\ calls' = [calls EXCEPT ![c] = NoCall]
    /\ UNCHANGED <<ledgerVars, page, pstate, shown, active, toasts, bounce, due>>

Shows(c, state) == pstate' = IF calls[c].here THEN state ELSE pstate

\* Mutant: whatever the server answers to a payment is a success.
PayAnsweredAnyhow(c) ==
    /\ calls[c].kind = "pay" /\ calls[c].stage \in {"ok", "error"}
    /\ Shows(c, "success")
    /\ active' = Nil
    /\ calls' = [calls EXCEPT ![c] = NoCall]
    /\ UNCHANGED <<ledgerVars, page, loading, shown, toasts, bounce, due>>

PayAnswered(c) ==
    /\ calls[c].kind = "pay" /\ calls[c].stage = "ok"
    /\ Shows(c, "success")
    /\ active' = Nil
    /\ calls' = [calls EXCEPT ![c] = NoCall]
    /\ UNCHANGED <<ledgerVars, page, loading, shown, toasts, bounce, due>>

FailAnswered(c) ==
    /\ calls[c].kind = "fail" /\ calls[c].stage = "ok"
    /\ Shows(c, "failed")
    /\ bounce' = TRUE
    /\ calls' = [calls EXCEPT ![c] = NoCall]
    /\ UNCHANGED <<ledgerVars, page, loading, shown, active, toasts, due>>

\* Mutant: the catch block reports the error and leaves the page as it is.
FailsQuietly(c) ==
    /\ calls[c].stage \in {"sent", "ok", "error"}
    /\ calls' = [calls EXCEPT ![c] =
         IF @.stage = "sent" /\ @.kind # "initiate" THEN [@ EXCEPT !.stage = "late", !.here = FALSE]
         ELSE NoCall]
    /\ loading' = (loading /\ calls[c].kind # "initiate")
    /\ UNCHANGED <<ledgerVars, page, pstate, shown, active, toasts, bounce, due>>

\* An error, a lost connection, or ten seconds without an answer, after which
\* the request may still be served.
Fails(c) ==
    /\ calls[c].stage \in {"sent", "ok", "error"}
    /\ calls' = [calls EXCEPT ![c] =
         IF @.stage = "sent" /\ @.kind # "initiate" THEN [@ EXCEPT !.stage = "late", !.here = FALSE]
         ELSE NoCall]
    /\ IF calls[c].kind = "book" THEN UNCHANGED pstate ELSE Shows(c, "failed")
    /\ loading' = (loading /\ calls[c].kind # "initiate")
    /\ UNCHANGED <<ledgerVars, page, shown, active, toasts, bounce, due>>

Answer(c) ==
    BookAnswered(c) \/ InitiateAnswered(c) \/ PayAnswered(c) \/ FailAnswered(c) \/ Fails(c)

Next ==
    \/ \E c \in Calls, b \in Bookings : ClickReserve(c, b)
    \/ \E b \in Bookings : Offered(b) \/ PayNow(b) \/ EndElsewhere(b) \/ RunOut(b)
    \/ \E c \in Calls, kind \in {"pay", "fail"} : Submit(c, kind)
    \/ \E c \in Calls : Serve(c) \/ Answer(c)
    \/ \E to \in {"event", "other"} : Leave(to)
    \/ Bounce \/ CountdownEnds

Spec == Init /\ [][Next]_vars

-----------------------------------------------------------------------------
(* Properties.                                                              *)

\* A page says it is processing, or loading, only while a request of its own is
\* under way: late answers and other bookings in the route never leave it so.
CheckoutTypeOK ==
    /\ LedgerTypeOK
    /\ page \in Bookings \cup {"event", "other"} /\ pstate \in PaymentState
    /\ loading \in BOOLEAN /\ bounce \in BOOLEAN
    /\ active \in Bookings \cup {Nil} /\ toasts \in SUBSET Bookings /\ due \in SUBSET Bookings
    /\ calls \in [Calls -> Call \cup {NoCall}]
    /\ shown \in SUBSET Bookings /\ (page \in Bookings => page \in shown)
    /\ pstate = "processing" => Payments # {}
    /\ loading => \E c \in Calls : calls[c].kind = "initiate"

Paid(b) == [old |-> "pending", new |-> "confirmed"] \in audit[b]

\* The success screen appears only after a payment of a booking this page has
\* shown has been committed, whatever was lost, late, repeated or turned to
\* another booking in between (CheckoutPage.tsx, submit).
SuccessWasPaid == pstate = "success" => \E b \in shown : Paid(b)

\* "Booking Confirmed!  Your ticket is secured." (CheckoutPage.tsx): the booking
\* in the route of the success screen has been paid.
SecuredIsPaid == page \in Bookings /\ pstate = "success" => Paid(page)
=============================================================================
