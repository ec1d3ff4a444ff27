----------------------------- MODULE SeatLedger -----------------------------
(***************************************************************************)
(* What the PostgreSQL tables seats, bookings and booking_audit_log         *)
(* promise: every transaction of bookingService, paymentService and         *)
(* expiryWorker as one atomic step.  SeatTransactions shows that the        *)
(* statement-by-statement transactions implement these steps; BookingFlow   *)
(* uses them for the database half of its handlers.                         *)
(*                                                                          *)
(* Names carry a Ledger prefix where a module that extends this one has its *)
(* own Init, Next and Spec.                                                 *)
(***************************************************************************)
CONSTANTS
    Seats,      \* seat rows
    Users,      \* registered users
    Bookings,   \* booking ids (uuids) that requests may draw
    Nil         \* NULL

ASSUME NilAssumption == Nil \notin Seats \cup Users

VARIABLES
    seat,       \* seats.status
    bstatus,    \* bookings.status, "none" while the id has no row
    bseat,      \* bookings.seat_id
    buser,      \* bookings.user_id
    audit       \* booking_audit_log, by booking: a set of (old, new) rows

ledgerVars == <<seat, bstatus, bseat, buser, audit>>

SeatStatus    == {"available", "reserved", "booked"}
ActiveStatus  == {"pending", "confirmed"}
BookingStatus == ActiveStatus \cup {"cancelled", "expired", "compensated"}

AuditRow == [old : BookingStatus \cup {"none"}, new : BookingStatus]

\* The bookings the partial unique index holds for seat s.
Active(s) == {b \in Bookings : bseat[b] = s /\ bstatus[b] \in ActiveStatus}

AvailableSeats == {s \in Seats : seat[s] = "available"}

LedgerInit ==
    /\ seat    = [s \in Seats |-> "available"]
    /\ bstatus = [b \in Bookings |-> "none"]
    /\ bseat   = [b \in Bookings |-> Nil]
    /\ buser   = [b \in Bookings |-> Nil]
    /\ audit   = [b \in Bookings |-> {}]

-----------------------------------------------------------------------------
(* Transactions.                                                            *)

\* Booking b moves from one status to another, its seat follows, one audit
\* row records it.
Transition(b, from, to, seatTo) ==
    /\ bstatus[b] = from
    /\ bstatus' = [bstatus EXCEPT ![b] = to]
    /\ seat'    = [seat EXCEPT ![bseat[b]] = seatTo]
    /\ audit'   = [audit EXCEPT ![b] = @ \cup {[old |-> from, new |-> to]}]
    /\ UNCHANGED <<bseat, buser>>

\* Mutant: no status check after the seat's row is locked.
MayReserveUnchecked(s) == seat[s] \in SeatStatus

\* The check on the locked seat row.
MayReserve(s) == seat[s] = "available"

\* _createBookingInTransaction: hold an available seat for u.
Reserve(b, u, s) ==
    /\ bstatus[b] = "none"
    /\ MayReserve(s)
    /\ seat'    = [seat EXCEPT ![s] = "reserved"]
    /\ bstatus' = [bstatus EXCEPT ![b] = "pending"]
    /\ bseat'   = [bseat EXCEPT ![b] = s]
    /\ buser'   = [buser EXCEPT ![b] = u]
    /\ audit'   = [audit EXCEPT ![b] = @ \cup {[old |-> "none", new |-> "pending"]}]

\* confirmBooking: only a pending booking can be paid; the hold's deadline is
\* not looked at, so a payment that beats the worker wins.
Confirm(b) == Transition(b, "pending", "confirmed", "booked")

\* cancelBooking: by its owner, while it is pending or confirmed.
Cancel(b, u) ==
    /\ buser[b] = u
    /\ \E from \in ActiveStatus : Transition(b, from, "cancelled", "available")

\* simulatePayment(success = false).
Compensate(b) == Transition(b, "pending", "compensated", "available")

\* _expireSingleBooking.
Expire(b) == Transition(b, "pending", "expired", "available")

LedgerNext ==
    \/ \E b \in Bookings, u \in Users, s \in Seats : Reserve(b, u, s)
    \/ \E b \in Bookings, u \in Users : Cancel(b, u)
    \/ \E b \in Bookings : Confirm(b)
    \/ \E b \in Bookings : Compensate(b)
    \/ \E b \in Bookings : Expire(b)

LedgerSpec == LedgerInit /\ [][LedgerNext]_ledgerVars

-----------------------------------------------------------------------------
(* The sale that the two tables carry out.                                  *)

Holder(s) == IF Active(s) = {} THEN Nil ELSE buser[CHOOSE b \in Active(s) : TRUE]

Sale == INSTANCE SeatSale WITH
    Nobody <- Nil,
    holder <- [s \in Seats |-> Holder(s)],
    paid   <- {s \in Seats : seat[s] = "booked"}

-----------------------------------------------------------------------------
(* Properties.                                                              *)

\* Whatever the requests and their order, what people see of the two tables is
\* an orderly sale: nobody loses a seat to somebody else, no seat is paid for
\* that nobody holds, and none is free that still counts as paid.
ImplementsSale == Sale!Spec

\* Every column holds a value its CHECK constraint allows, and a booking row
\* has a seat and a user exactly when it exists (backend/src/db/migrate.ts).
LedgerTypeOK ==
    /\ seat    \in [Seats -> SeatStatus]
    /\ bstatus \in [Bookings -> BookingStatus \cup {"none"}]
    /\ bseat   \in [Bookings -> Seats \cup {Nil}]
    /\ buser   \in [Bookings -> Users \cup {Nil}]
    /\ audit   \in [Bookings -> SUBSET AuditRow]
    /\ \A b \in Bookings : bstatus[b] = "none" <=> bseat[b] = Nil
    /\ \A b \in Bookings : bseat[b] = Nil <=> buser[b] = Nil

\* At most one active booking per seat: what uniq_active_booking_per_seat
\* enforces, and what the transactions keep true without it.
NoDoubleBooking ==
    \A s \in Seats : \A b, c \in Active(s) : b = c

\* The two tables tell the same story: a seat is on sale exactly when no active
\* booking holds it, reserved exactly for a pending one and booked exactly for
\* a confirmed one.  Five transactions write both tables and none of them
\* reads the other table's row first.
SeatMatchesBooking ==
    \A s \in Seats :
        /\ seat[s] = "available" <=> Active(s) = {}
        /\ seat[s] = "reserved"  <=> \E b \in Active(s) : bstatus[b] = "pending"
        /\ seat[s] = "booked"    <=> \E b \in Active(s) : bstatus[b] = "confirmed"

\* Replaying the audit rows of a booking gives the status it has: its rows form
\* one path that starts at creation, has no gap and no fork, and ends at the
\* current status ("every state transition produces an immutable row in
\* booking_audit_log", backend/src/db/migrate.ts).
AuditReplays ==
    \A b \in Bookings :
        /\ bstatus[b] # "none" => \E r \in audit[b] : r.new = bstatus[b]
        /\ \A r \in audit[b] :
            /\ r.old # bstatus[b]
            /\ r.old # "none" => \E q \in audit[b] : q.new = r.old
            /\ r.new # bstatus[b] => \E q \in audit[b] : q.old = r.new
            /\ \A q \in audit[b] : r.old = q.old => r = q

\* A settled booking is never brought back: a late payment, a second cancel or
\* a repeated expiry of a booking that has ended leaves it ended, and a
\* confirmed booking only ends by cancellation.  No row changes hands.
BookingsOnlyMoveForward ==
    [][\A b \in Bookings :
        /\ bstatus[b] \in BookingStatus \ ActiveStatus => bstatus'[b] = bstatus[b]
        /\ bstatus[b] = "confirmed" => bstatus'[b] \in {"confirmed", "cancelled"}
        /\ bstatus[b] # "none" => bseat'[b] = bseat[b] /\ buser'[b] = buser[b]]_ledgerVars
=============================================================================
