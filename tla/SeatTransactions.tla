-------------------------- MODULE SeatTransactions --------------------------
(***************************************************************************)
(* The five transactions that write seats and bookings, statement by        *)
(* statement, on concurrent database sessions: READ COMMITTED, row locks    *)
(* held to the end, an UPDATE or FOR UPDATE that waits for the lock and     *)
(* then looks at the newest committed row, and FOR UPDATE NOWAIT that fails *)
(* instead of waiting.  The rows are those of SeatLedger and change at      *)
(* COMMIT only; LedgerSpec is what the sessions together must implement.    *)
(*                                                                          *)
(* The INSERT into booking_audit_log touches no row anybody else can lock   *)
(* or read, so it is part of the commit step.  Session functions are reset  *)
(* when a transaction ends.                                                 *)
(***************************************************************************)
EXTENDS SeatLedger, Naturals, Sequences

CONSTANT Sessions   \* pooled connections (backend/src/db/index.ts)

ASSUME SessionAssumption == Nil \notin Sessions

VARIABLES
    kind,       \* transaction a session runs, "none" when idle
    at,         \* index of its next statement in Script(kind), 0 when idle
    tbook,      \* the booking it is about
    tuser,      \* the requesting user
    tseat,      \* the seat it is about
    from,       \* booking status it has read, for the audit row
    seatLock,   \* session that holds the row lock of a seat
    bookLock    \* session that holds the row lock of a booking

sessionVars == <<kind, at, tbook, tuser, tseat, from, seatLock, bookLock>>
vars == <<ledgerVars, sessionVars>>

Kinds == {"create", "cancel", "confirm", "fail", "expire"}

\* Mutant: a failed payment frees the seat before it settles the booking.
ScriptSeatFirst(k) ==
    CASE k = "create" -> <<"lock_seat", "update_seat", "insert_booking", "commit">>
      [] k = "fail"   -> <<"update_seat", "update_booking", "commit">>
      [] k = "confirm" -> <<"read_booking", "update_booking", "update_seat", "commit">>
      [] OTHER        -> <<"lock_booking", "update_booking", "update_seat", "commit">>

\* The statements of a transaction, in the order the code sends them.
Script(k) ==
    CASE k = "create"  -> <<"lock_seat", "update_seat", "insert_booking", "commit">>
      [] k = "confirm" -> <<"read_booking", "update_booking", "update_seat", "commit">>
      [] k = "fail"    -> <<"update_booking", "update_seat", "commit">>
      [] OTHER         -> <<"lock_booking", "update_booking", "update_seat", "commit">>

NextStatement(p, statement) == at[p] > 0 /\ Script(kind[p])[at[p]] = statement

\* The statuses a transaction accepts, by an if on the locked row (cancel,
\* expire) or in the WHERE of its UPDATE (confirm, fail).
Accepts(k) == IF k = "cancel" THEN ActiveStatus ELSE {"pending"}

\* Mutant: a status the CHECK constraint does not know.
StatusAfterTypo(k) ==
    CASE k = "create" -> "pending"    [] k = "confirm" -> "confirmed"
      [] k = "cancel" -> "cancelled"  [] k = "expire"  -> "expired"  [] k = "fail" -> "failed"

StatusAfter(k) ==
    CASE k = "create" -> "pending"    [] k = "confirm" -> "confirmed"
      [] k = "cancel" -> "cancelled"  [] k = "expire"  -> "expired"  [] k = "fail" -> "compensated"

\* Mutant: a cancellation leaves the seat as sold.
SeatAfterKept(k) ==
    CASE k = "create" -> "reserved" [] k \in {"confirm", "cancel"} -> "booked" [] OTHER -> "available"

SeatAfter(k) ==
    CASE k = "create" -> "reserved" [] k = "confirm" -> "booked" [] OTHER -> "available"

Init ==
    /\ LedgerInit
    /\ kind  = [p \in Sessions |-> "none"]
    /\ at    = [p \in Sessions |-> 0]
    /\ tbook = [p \in Sessions |-> Nil]
    /\ tuser = [p \in Sessions |-> Nil]
    /\ tseat = [p \in Sessions |-> Nil]
    /\ from  = [p \in Sessions |-> "none"]
    /\ seatLock = [s \in Seats |-> Nil]
    /\ bookLock = [b \in Bookings |-> Nil]

-----------------------------------------------------------------------------
(* Row locks and the end of a transaction.                                  *)

Available(lock, row, p) == lock[row] \in {Nil, p}

Proceed(p) ==
    /\ at' = [at EXCEPT ![p] = @ + 1]
    /\ UNCHANGED <<ledgerVars, kind, tbook, tuser, tseat>>

ResetSession(p) ==
    /\ kind'  = [kind EXCEPT ![p] = "none"]
    /\ at'    = [at EXCEPT ![p] = 0]
    /\ tbook' = [tbook EXCEPT ![p] = Nil]
    /\ tuser' = [tuser EXCEPT ![p] = Nil]
    /\ tseat' = [tseat EXCEPT ![p] = Nil]
    /\ from'  = [from EXCEPT ![p] = "none"]

ReleaseLocks(p) ==
    /\ seatLock' = [s \in Seats |-> IF seatLock[s] = p THEN Nil ELSE seatLock[s]]
    /\ bookLock' = [b \in Bookings |-> IF bookLock[b] = p THEN Nil ELSE bookLock[b]]

\* Mutant: no ROLLBACK, the session goes back to the pool with its locks.
FinishHoldsLocks(p) == ResetSession(p) /\ UNCHANGED <<seatLock, bookLock, ledgerVars>>

\* ROLLBACK, or COMMIT of a transaction that wrote nothing.
Finish(p) == ResetSession(p) /\ ReleaseLocks(p) /\ UNCHANGED ledgerVars

-----------------------------------------------------------------------------
(* Statements.                                                              *)

Begin(p, k, b, u, s) ==
    /\ at[p] = 0
    /\ IF k = "create"
       THEN bstatus[b] = "none" /\ \A q \in Sessions : tbook[q] # b
       ELSE bstatus[b] # "none" /\ s = bseat[b]
    /\ k \notin {"create", "cancel"} => u = buser[b]
    /\ kind'  = [kind EXCEPT ![p] = k]
    /\ at'    = [at EXCEPT ![p] = 1]
    /\ tbook' = [tbook EXCEPT ![p] = b]
    /\ tuser' = [tuser EXCEPT ![p] = u]
    /\ tseat' = [tseat EXCEPT ![p] = s]
    /\ UNCHANGED <<ledgerVars, from, seatLock, bookLock>>

\* SELECT ... FOR UPDATE NOWAIT on the seat: 423 when another session has it.
LockSeat(p) ==
    /\ NextStatement(p, "lock_seat")
    /\ IF Available(seatLock, tseat[p], p)
       THEN /\ seatLock' = [seatLock EXCEPT ![tseat[p]] = p]
            /\ Proceed(p) /\ UNCHANGED <<from, bookLock>>
       ELSE Finish(p)

\* Mutant: the audit row of a cancellation always says pending.
LockBookingUnread(p) ==
    /\ NextStatement(p, "lock_booking")
    /\ IF buser[tbook[p]] # tuser[p]
       THEN Finish(p)
       ELSE /\ Available(bookLock, tbook[p], p)
            /\ bookLock' = [bookLock EXCEPT ![tbook[p]] = p]
            /\ from' = [from EXCEPT ![p] = "pending"]
            /\ Proceed(p) /\ UNCHANGED seatLock

\* SELECT ... FOR UPDATE on the booking; a cancel by somebody else finds no
\* row (404) and so waits for none.
LockBooking(p) ==
    /\ NextStatement(p, "lock_booking")
    /\ IF buser[tbook[p]] # tuser[p]
       THEN Finish(p)
       ELSE /\ Available(bookLock, tbook[p], p)
            /\ bookLock' = [bookLock EXCEPT ![tbook[p]] = p]
            /\ from' = [from EXCEPT ![p] = bstatus[tbook[p]]]
            /\ Proceed(p) /\ UNCHANGED seatLock

\* confirmBooking's first SELECT takes no lock: a booking already confirmed
\* ends the transaction as a success.
ReadBooking(p) ==
    /\ NextStatement(p, "read_booking")
    /\ IF bstatus[tbook[p]] = "confirmed"
       THEN Finish(p)
       ELSE Proceed(p) /\ UNCHANGED <<from, seatLock, bookLock>>

\* Mutant: the UPDATE has no status in its WHERE, the if is gone.
UpdateBookingUnchecked(p) ==
    /\ NextStatement(p, "update_booking")
    /\ Available(bookLock, tbook[p], p)
    /\ bookLock' = [bookLock EXCEPT ![tbook[p]] = p]
    /\ from' = [from EXCEPT ![p] = IF kind[p] = "cancel" THEN @ ELSE "pending"]
    /\ Proceed(p) /\ UNCHANGED seatLock

\* UPDATE bookings: waits for the row, then only goes on if the status is
\* still one the transaction accepts.
UpdateBooking(p) ==
    /\ NextStatement(p, "update_booking")
    /\ Available(bookLock, tbook[p], p)
    /\ IF bstatus[tbook[p]] \in Accepts(kind[p])
       THEN /\ bookLock' = [bookLock EXCEPT ![tbook[p]] = p]
            /\ from' = [from EXCEPT ![p] = IF kind[p] = "cancel" THEN @ ELSE "pending"]
            /\ Proceed(p) /\ UNCHANGED seatLock
       ELSE Finish(p)

\* UPDATE seats: a create has read the locked row and gives up unless it is
\* available; the others do not look at it.
UpdateSeat(p) ==
    /\ NextStatement(p, "update_seat")
    /\ Available(seatLock, tseat[p], p)
    /\ IF kind[p] = "create" /\ ~MayReserve(tseat[p])
       THEN Finish(p)
       ELSE /\ seatLock' = [seatLock EXCEPT ![tseat[p]] = p]
            /\ Proceed(p) /\ UNCHANGED <<from, bookLock>>

\* INSERT INTO bookings: fails on a duplicate in uniq_active_booking_per_seat.
InsertBooking(p) ==
    /\ NextStatement(p, "insert_booking")
    /\ IF Active(tseat[p]) = {}
       THEN /\ bookLock' = [bookLock EXCEPT ![tbook[p]] = p]
            /\ Proceed(p) /\ UNCHANGED <<from, seatLock>>
       ELSE Finish(p)

\* The audit INSERT and COMMIT: everything the transaction wrote appears.
Commit(p) ==
    LET k == kind[p]
        b == tbook[p]
    IN  /\ NextStatement(p, "commit")
        /\ seat'    = [seat EXCEPT ![tseat[p]] = SeatAfter(k)]
        /\ bstatus' = [bstatus EXCEPT ![b] = StatusAfter(k)]
        /\ bseat'   = [bseat EXCEPT ![b] = tseat[p]]
        /\ buser'   = [buser EXCEPT ![b] = IF k = "create" THEN tuser[p] ELSE @]
        /\ audit'   = [audit EXCEPT ![b] = @ \cup {[old |-> from[p], new |-> StatusAfter(k)]}]
        /\ ResetSession(p)
        /\ ReleaseLocks(p)

\* A statement fails, the connection drops or the process dies: ROLLBACK.
Abort(p) == at[p] > 0 /\ Finish(p)

Statement(p) ==
    \/ LockSeat(p) \/ LockBooking(p) \/ ReadBooking(p)
    \/ UpdateBooking(p) \/ UpdateSeat(p) \/ InsertBooking(p) \/ Commit(p)

Next ==
    \/ \E p \in Sessions, k \in Kinds, b \in Bookings, u \in Users, s \in Seats : Begin(p, k, b, u, s)
    \/ \E p \in Sessions : Statement(p)
    \/ \E p \in Sessions : Abort(p)

Spec == Init /\ [][Next]_vars

\* A session is served again and again, and PostgreSQL hands a row lock to
\* its waiters in turn, so a wait that can end does end.
FairSpec == Spec /\ \A p \in Sessions : SF_vars(Statement(p))

-----------------------------------------------------------------------------
(* Properties.  LedgerSpec, from SeatLedger, is the main one.               *)

\* Session state is what the code's local variables can be.
TxTypeOK ==
    /\ LedgerTypeOK
    /\ kind  \in [Sessions -> Kinds \cup {"none"}]
    /\ at    \in [Sessions -> 0..4]
    /\ tbook \in [Sessions -> Bookings \cup {Nil}]
    /\ tuser \in [Sessions -> Users \cup {Nil}]
    /\ tseat \in [Sessions -> Seats \cup {Nil}]
    /\ from  \in [Sessions -> BookingStatus \cup {"none"}]
    /\ seatLock \in [Seats -> Sessions \cup {Nil}]
    /\ bookLock \in [Bookings -> Sessions \cup {Nil}]
    /\ \A p \in Sessions : at[p] = 0 <=> kind[p] = "none"

\* The unique index is a second line of defence that the first never reaches:
\* whoever gets as far as the INSERT finds no active booking on the seat.
UniqueIndexNeverFires ==
    \A p \in Sessions : NextStatement(p, "insert_booking") => Active(tseat[p]) = {}

Waiting(p) ==
    \/ /\ NextStatement(p, "lock_booking") \/ NextStatement(p, "update_booking")
       /\ ~Available(bookLock, tbook[p], p)
    \/ NextStatement(p, "update_seat") /\ ~Available(seatLock, tseat[p], p)

\* No deadlock between transactions: bookings are locked before seats, and a
\* create, which locks a seat first, never waits after it.  So whoever holds
\* a seat's row is running, and every chain of waits ends there.
SeatHolderRuns ==
    \A s \in Seats : seatLock[s] # Nil => ~Waiting(seatLock[s])

\* Every transaction ends, however many sessions queue for the same rows.
TransactionsEnd == \A p \in Sessions : at[p] > 0 ~> at[p] = 0
=============================================================================
