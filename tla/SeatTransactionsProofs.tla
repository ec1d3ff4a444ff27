----------------------- MODULE SeatTransactionsProofs -----------------------
(***************************************************************************)
(* Row locks are enough: for any number of sessions, seats, users and       *)
(* bookings, the interleaved statements of SeatTransactions implement the   *)
(* atomic transactions of SeatLedger, and so inherit what SeatLedgerProofs  *)
(* shows of them.                                                           *)
(***************************************************************************)
EXTENDS SeatTransactions, SeatLedgerProofs

\* The statements after which a session has its seat's row, its booking's row,
\* and has found the booking in a status it accepts.
HasSeat(p) ==
    \/ kind[p] = "create" /\ at[p] > 1
    \/ kind[p] = "fail" /\ at[p] = 3
    \/ kind[p] \in {"cancel", "confirm", "expire"} /\ at[p] = 4

HasBooking(p) ==
    \/ kind[p] = "create" /\ at[p] = 4
    \/ kind[p] \in {"cancel", "expire", "fail"} /\ at[p] > 1
    \/ kind[p] = "confirm" /\ at[p] > 2

IsSettling(p) ==
    \/ kind[p] = "fail" /\ at[p] > 1
    \/ kind[p] \in {"cancel", "confirm", "expire"} /\ at[p] > 2

\* What a session's transaction is about; a create draws an id of its own.
Subject(p) ==
    /\ at[p] = 0 => from[p] = "none" /\ tbook[p] = Nil
    /\ kind[p] = "fail" => at[p] < 4
    /\ at[p] > 0 => tbook[p] \in Bookings /\ tuser[p] \in Users /\ tseat[p] \in Seats
    /\ kind[p] = "create" =>
        /\ tbook[p] # Nil
        /\ bstatus[tbook[p]] = "none"
        /\ \A q \in Sessions : q # p => tbook[q] # tbook[p]
    /\ kind[p] \in {"cancel", "confirm", "expire", "fail"} =>
        /\ bstatus[tbook[p]] # "none"
        /\ tseat[p] = bseat[tbook[p]]
    /\ kind[p] \in {"confirm", "expire", "fail"} => tuser[p] = buser[tbook[p]]

\* The locks of the two tables are those the sessions have reached.
LockTable ==
    /\ \A s \in Seats, p \in Sessions : seatLock[s] = p <=> HasSeat(p) /\ tseat[p] = s
    /\ \A b \in Bookings, p \in Sessions : bookLock[b] = p <=> HasBooking(p) /\ tbook[p] = b

\* What a session has read of a row it has locked is still so.
ReadsHold(p) ==
    /\ kind[p] = "create" => from[p] = "none"
    /\ kind[p] = "create" /\ at[p] > 2 => MayReserve(tseat[p])
    /\ kind[p] = "cancel" /\ at[p] > 1 =>
        buser[tbook[p]] = tuser[p] /\ from[p] = bstatus[tbook[p]]
    /\ IsSettling(p) => bstatus[tbook[p]] \in Accepts(kind[p]) /\ from[p] = bstatus[tbook[p]]

TxInv ==
    /\ TxTypeOK
    /\ LedgerInv
    /\ LockTable
    /\ \A p \in Sessions : Subject(p) /\ ReadsHold(p)

-----------------------------------------------------------------------------
\* Where in its script each statement finds a session.
LEMMA Statements ==
    ASSUME TxTypeOK, NEW p \in Sessions, Subject(p)
    PROVE  /\ NextStatement(p, "lock_seat")    => kind[p] = "create" /\ at[p] = 1
           /\ NextStatement(p, "lock_booking") => kind[p] \in {"cancel", "expire"} /\ at[p] = 1
           /\ NextStatement(p, "read_booking") => kind[p] = "confirm" /\ at[p] = 1
           /\ NextStatement(p, "update_booking") =>
                \/ kind[p] = "fail" /\ at[p] = 1
                \/ kind[p] \in {"cancel", "confirm", "expire"} /\ at[p] = 2
           /\ NextStatement(p, "update_seat") =>
                \/ kind[p] \in {"create", "fail"} /\ at[p] = 2
                \/ kind[p] \in {"cancel", "confirm", "expire"} /\ at[p] = 3
           /\ NextStatement(p, "insert_booking") => kind[p] = "create" /\ at[p] = 3
           /\ NextStatement(p, "commit") =>
                \/ kind[p] = "fail" /\ at[p] = 3
                \/ kind[p] \in {"create", "cancel", "confirm", "expire"} /\ at[p] = 4
  <1>1. at[p] \in 0..4 /\ (at[p] = 0 <=> kind[p] = "none") /\ (kind[p] = "fail" => at[p] < 4)
    BY DEF TxTypeOK, Subject
  <1>2. kind[p] \in {"none", "create", "cancel", "confirm", "fail", "expire"}
    BY DEF TxTypeOK, Kinds
  <1> QED BY <1>1, <1>2 DEF NextStatement, Script

\* No session, no lock, an empty hall.
LEMMA TxInitInv == Init => TxInv
  <1> SUFFICES ASSUME Init PROVE TxInv
    OBVIOUS
  <1>1. LedgerInv
    BY LedgerInitInv DEF Init
  <1>2. TxTypeOK
    BY <1>1 DEF Init, TxTypeOK, LedgerInv
  <1>3. LockTable
    BY SessionAssumption DEF Init, LockTable, HasSeat, HasBooking
  <1>4. \A p \in Sessions : Subject(p) /\ ReadsHold(p)
    BY DEF Init, Subject, ReadsHold, IsSettling
  <1> QED BY <1>1, <1>2, <1>3, <1>4 DEF TxInv

\* Only a commit writes rows.
LEMMA LedgerKept ==
    ASSUME LedgerInv, UNCHANGED ledgerVars
    PROVE  LedgerInv' /\ LedgerTypeOK'
  BY LedgerStepInv DEF LedgerInv

\* BEGIN: a session that has locked nothing takes up a request.
LEMMA BeginInv ==
    ASSUME TxInv, NEW p \in Sessions, NEW k \in Kinds, NEW b \in Bookings, NEW u \in Users,
           NEW s \in Seats, Begin(p, k, b, u, s)
    PROVE  TxInv'
  <1> USE DEF TxInv, TxTypeOK, Begin, ledgerVars
  <1>1. LedgerInv' /\ LedgerTypeOK'
    BY LedgerKept
  <1>2. /\ kind[p] = "none" /\ kind'[p] = k /\ at'[p] = 1
        /\ tbook'[p] = b /\ tuser'[p] = u /\ tseat'[p] = s
        /\ \A q \in Sessions : q # p => /\ kind'[q] = kind[q] /\ at'[q] = at[q] /\ tbook'[q] = tbook[q]
                                       /\ tuser'[q] = tuser[q] /\ tseat'[q] = tseat[q]
    OBVIOUS
  <1>3. TxTypeOK'
    BY <1>1 DEF Kinds
  <1>4. LockTable'
    BY <1>2 DEF LockTable, HasSeat, HasBooking, Kinds
  <1>5. \A q \in Sessions : Subject(q)'
    <2>1. Subject(p)'
      <3>1. k = "create" =>
                b # Nil /\ bstatus'[b] = "none" /\ \A q \in Sessions : q # p => tbook'[q] # b
        BY <1>2 DEF Subject
      <3>2. k # "create" => bstatus'[b] # "none" /\ s = bseat'[b]
        OBVIOUS
      <3> QED BY <1>2, <3>1, <3>2 DEF Subject, Kinds
    <2>2. ASSUME NEW q \in Sessions, q # p PROVE Subject(q)'
      BY <1>2, <2>2 DEF Subject, Kinds
    <2> QED BY <2>1, <2>2
  <1>6. \A q \in Sessions : ReadsHold(q)'
    BY <1>2 DEF Subject, ReadsHold, IsSettling, MayReserve, Kinds
  <1> QED BY <1>1, <1>3, <1>4, <1>5, <1>6

\* ROLLBACK, wherever the transaction had got to.
LEMMA FinishInv ==
    ASSUME TxInv, NEW p \in Sessions, Finish(p)
    PROVE  TxInv'
  <1> USE DEF TxInv, TxTypeOK, Finish, ResetSession, ReleaseLocks, ledgerVars
  <1>1. LedgerInv' /\ LedgerTypeOK'
    BY LedgerKept
  <1>2. /\ kind'[p] = "none" /\ at'[p] = 0 /\ tbook'[p] = Nil /\ from'[p] = "none"
        /\ \A q \in Sessions : q # p => /\ kind'[q] = kind[q] /\ at'[q] = at[q] /\ tbook'[q] = tbook[q]
                                       /\ tuser'[q] = tuser[q] /\ tseat'[q] = tseat[q] /\ from'[q] = from[q]
    OBVIOUS
  <1>3. TxTypeOK'
    BY <1>1
  <1>4. LockTable'
    BY <1>2, SessionAssumption DEF LockTable, HasSeat, HasBooking
  <1>5. ASSUME NEW q \in Sessions PROVE Subject(q)' /\ ReadsHold(q)'
    <2>1. CASE q = p
      BY <1>2, <2>1 DEF Subject, ReadsHold, IsSettling
    <2>2. CASE q # p
      BY <1>2, <2>2 DEF Subject, ReadsHold, IsSettling, MayReserve
    <2> QED BY <2>1, <2>2
  <1> QED BY <1>1, <1>3, <1>4, <1>5

\* A statement that goes on to the next one: what it may have changed.
LEMMA Others ==
    ASSUME TxInv, NEW p \in Sessions, Proceed(p)
    PROVE  /\ at'[p] = at[p] + 1
           /\ \A q \in Sessions : q # p => at'[q] = at[q]
           /\ kind' = kind /\ tbook' = tbook /\ tuser' = tuser /\ tseat' = tseat
           /\ seat' = seat /\ bstatus' = bstatus /\ bseat' = bseat /\ buser' = buser
           /\ LedgerInv' /\ LedgerTypeOK'
           /\ at[p] < 4 => at' \in [Sessions -> 0..4]
  <1>1. LedgerInv' /\ LedgerTypeOK'
    BY LedgerKept DEF TxInv, Proceed
  <1> QED BY <1>1 DEF TxInv, TxTypeOK, Proceed, ledgerVars

\* The seat row of a create is locked, or the request fails.
LEMMA LockSeatInv ==
    ASSUME TxInv, NEW p \in Sessions, LockSeat(p)
    PROVE  TxInv'
  <1>1. Subject(p) /\ TxTypeOK
    BY DEF TxInv
  <1>2. kind[p] = "create" /\ at[p] = 1 /\ tseat[p] \in Seats
    BY <1>1, Statements DEF LockSeat, Subject
  <1>3. CASE Finish(p)
    BY <1>3, FinishInv
  <1>4. CASE /\ Proceed(p) /\ Available(seatLock, tseat[p], p)
             /\ seatLock' = [seatLock EXCEPT ![tseat[p]] = p] /\ UNCHANGED <<from, bookLock>>
    <2> USE <1>2, <1>4, Others DEF TxInv, TxTypeOK
    <2>1. TxTypeOK'
      OBVIOUS
    <2>2. LockTable'
      BY SessionAssumption DEF LockTable, HasSeat, HasBooking, Available
    <2>3. \A q \in Sessions : Subject(q)'
      BY DEF Subject
    <2>4. \A q \in Sessions : ReadsHold(q)'
      BY DEF ReadsHold, IsSettling, MayReserve
    <2> QED BY <2>1, <2>2, <2>3, <2>4, Others
  <1> QED BY <1>3, <1>4 DEF LockSeat

\* The booking row of a cancellation or an expiry is locked and read.
LEMMA LockBookingInv ==
    ASSUME TxInv, NEW p \in Sessions, LockBooking(p)
    PROVE  TxInv'
  <1>1. Subject(p) /\ TxTypeOK
    BY DEF TxInv
  <1>2. kind[p] \in {"cancel", "expire"} /\ at[p] = 1 /\ tbook[p] \in Bookings
    BY <1>1, Statements DEF LockBooking, Subject
  <1>3. CASE Finish(p)
    BY <1>3, FinishInv
  <1>4. CASE /\ buser[tbook[p]] = tuser[p] /\ Available(bookLock, tbook[p], p)
             /\ bookLock' = [bookLock EXCEPT ![tbook[p]] = p]
             /\ from' = [from EXCEPT ![p] = bstatus[tbook[p]]]
             /\ Proceed(p) /\ UNCHANGED seatLock
    <2> USE <1>2, <1>4, Others DEF TxInv, TxTypeOK
    <2>1. TxTypeOK'
      BY DEF LedgerTypeOK
    <2>2. LockTable'
      BY SessionAssumption DEF LockTable, HasSeat, HasBooking, Available
    <2>3. \A q \in Sessions : Subject(q)'
      BY DEF Subject
    <2>4. \A q \in Sessions : ReadsHold(q)'
      BY DEF ReadsHold, IsSettling, MayReserve
    <2> QED BY <2>1, <2>2, <2>3, <2>4, Others
  <1> QED BY <1>3, <1>4 DEF LockBooking

\* confirmBooking's unlocked SELECT: what it has seen may be stale at once, and
\* nothing later relies on it.
LEMMA ReadBookingInv ==
    ASSUME TxInv, NEW p \in Sessions, ReadBooking(p)
    PROVE  TxInv'
  <1>1. Subject(p) /\ TxTypeOK
    BY DEF TxInv
  <1>2. kind[p] = "confirm" /\ at[p] = 1 /\ tbook[p] \in Bookings
    BY <1>1, Statements DEF ReadBooking, Subject
  <1>3. CASE Finish(p)
    BY <1>3, FinishInv
  <1>4. CASE Proceed(p) /\ UNCHANGED <<from, seatLock, bookLock>>
    <2> USE <1>2, <1>4, Others DEF TxInv, TxTypeOK
    <2>1. TxTypeOK'
      BY DEF LedgerTypeOK, BookingStatus, ActiveStatus
    <2>2. LockTable'
      BY SessionAssumption DEF LockTable, HasSeat, HasBooking, Available
    <2>3. \A q \in Sessions : Subject(q)'
      BY DEF Subject
    <2>4. \A q \in Sessions : ReadsHold(q)'
      BY DEF ReadsHold, IsSettling, MayReserve
    <2> QED BY <2>1, <2>2, <2>3, <2>4, Others
  <1> QED BY <1>3, <1>4 DEF ReadBooking

\* The status is checked on the locked row and can no longer change.
LEMMA UpdateBookingInv ==
    ASSUME TxInv, NEW p \in Sessions, UpdateBooking(p)
    PROVE  TxInv'
  <1>1. Subject(p) /\ TxTypeOK
    BY DEF TxInv
  <1>2. /\ tbook[p] \in Bookings
        /\ \/ kind[p] = "fail" /\ at[p] = 1
           \/ kind[p] \in {"cancel", "confirm", "expire"} /\ at[p] = 2
    BY <1>1, Statements DEF UpdateBooking, Subject
  <1>3. CASE Finish(p)
    BY <1>3, FinishInv
  <1>4. CASE /\ Available(bookLock, tbook[p], p)
             /\ bstatus[tbook[p]] \in Accepts(kind[p])
             /\ bookLock' = [bookLock EXCEPT ![tbook[p]] = p]
             /\ from' = [from EXCEPT ![p] = IF kind[p] = "cancel" THEN @ ELSE "pending"]
             /\ Proceed(p) /\ UNCHANGED seatLock
    <2> USE <1>2, <1>4, Others DEF TxInv, TxTypeOK
    <2>1. TxTypeOK'
      BY DEF LedgerTypeOK, BookingStatus, ActiveStatus
    <2>2. LockTable'
      BY SessionAssumption DEF LockTable, HasSeat, HasBooking, Available
    <2>3. \A q \in Sessions : Subject(q)'
      BY DEF Subject
    <2>4. \A q \in Sessions : ReadsHold(q)'
      BY DEF ReadsHold, IsSettling, MayReserve, Accepts
    <2> QED BY <2>1, <2>2, <2>3, <2>4, Others
  <1> QED BY <1>3, <1>4 DEF UpdateBooking

\* A create goes on only with an available seat; the others have settled a
\* booking whose seat this is.
LEMMA UpdateSeatInv ==
    ASSUME TxInv, NEW p \in Sessions, UpdateSeat(p)
    PROVE  TxInv'
  <1>1. Subject(p) /\ TxTypeOK
    BY DEF TxInv
  <1>2. /\ tseat[p] \in Seats
        /\ \/ kind[p] \in {"create", "fail"} /\ at[p] = 2
           \/ kind[p] \in {"cancel", "confirm", "expire"} /\ at[p] = 3
    BY <1>1, Statements DEF UpdateSeat, Subject
  <1>3. CASE Finish(p)
    BY <1>3, FinishInv
  <1>4. CASE /\ Available(seatLock, tseat[p], p)
             /\ kind[p] = "create" => MayReserve(tseat[p])
             /\ seatLock' = [seatLock EXCEPT ![tseat[p]] = p]
             /\ Proceed(p) /\ UNCHANGED <<from, bookLock>>
    <2> USE <1>2, <1>4, Others DEF TxInv, TxTypeOK
    <2>1. TxTypeOK'
      BY DEF LedgerTypeOK, BookingStatus, ActiveStatus
    <2>2. LockTable'
      BY SessionAssumption DEF LockTable, HasSeat, HasBooking, Available
    <2>3. \A q \in Sessions : Subject(q)'
      BY DEF Subject
    <2>4. \A q \in Sessions : ReadsHold(q)'
      BY DEF ReadsHold, IsSettling, MayReserve
    <2> QED BY <2>1, <2>2, <2>3, <2>4, Others
  <1> QED BY <1>3, <1>4 DEF UpdateSeat

\* The new booking's row is the session's own.
LEMMA InsertBookingInv ==
    ASSUME TxInv, NEW p \in Sessions, InsertBooking(p)
    PROVE  TxInv'
  <1>1. Subject(p) /\ TxTypeOK
    BY DEF TxInv
  <1>2. kind[p] = "create" /\ at[p] = 3 /\ tbook[p] \in Bookings /\ tbook[p] # Nil
    BY <1>1, Statements DEF InsertBooking, Subject
  <1>3. CASE Finish(p)
    BY <1>3, FinishInv
  <1>4. CASE /\ bookLock' = [bookLock EXCEPT ![tbook[p]] = p]
             /\ Proceed(p) /\ UNCHANGED <<from, seatLock>>
    <2> USE <1>2, <1>4, Others DEF TxInv, TxTypeOK
    <2>1. TxTypeOK'
      BY DEF LedgerTypeOK, BookingStatus, ActiveStatus
    <2>2. LockTable'
      <3>1. bookLock[tbook[p]] = Nil
        BY SessionAssumption DEF LockTable, HasBooking, Subject
      <3> QED BY <3>1, SessionAssumption DEF LockTable, HasSeat, HasBooking, Available
    <2>3. \A q \in Sessions : Subject(q)'
      BY DEF Subject
    <2>4. \A q \in Sessions : ReadsHold(q)'
      BY DEF ReadsHold, IsSettling, MayReserve
    <2> QED BY <2>1, <2>2, <2>3, <2>4, Others
  <1> QED BY <1>3, <1>4 DEF InsertBooking

-----------------------------------------------------------------------------
\* COMMIT makes one transaction of SeatLedger appear, whatever the other
\* sessions did between its statements.
LEMMA CommitIsLedgerStep ==
    ASSUME TxInv, NEW p \in Sessions, Commit(p)
    PROVE  LedgerNext
  <1> DEFINE b == tbook[p]
  <1>1. Subject(p) /\ ReadsHold(p) /\ TxTypeOK /\ LedgerTypeOK
    BY DEF TxInv, TxTypeOK
  <1>2. /\ b \in Bookings /\ tuser[p] \in Users /\ tseat[p] \in Seats
        /\ \/ kind[p] = "fail" /\ at[p] = 3
           \/ kind[p] \in {"create", "cancel", "confirm", "expire"} /\ at[p] = 4
    BY <1>1, Statements DEF Commit, Subject
  <1>3. /\ seat'    = [seat EXCEPT ![tseat[p]] = SeatAfter(kind[p])]
        /\ bstatus' = [bstatus EXCEPT ![b] = StatusAfter(kind[p])]
        /\ bseat'   = [bseat EXCEPT ![b] = tseat[p]]
        /\ buser'   = [buser EXCEPT ![b] = IF kind[p] = "create" THEN tuser[p] ELSE @]
        /\ audit'   = [audit EXCEPT ![b] = @ \cup {[old |-> from[p], new |-> StatusAfter(kind[p])]}]
    BY DEF Commit
  <1>4. CASE kind[p] = "create"
    <2>1. bstatus[b] = "none" /\ from[p] = "none" /\ MayReserve(tseat[p])
      BY <1>1, <1>2, <1>4 DEF Subject, ReadsHold
    <2>2. SeatAfter(kind[p]) = "reserved" /\ StatusAfter(kind[p]) = "pending"
      BY <1>4 DEF SeatAfter, StatusAfter
    <2>3. Reserve(b, tuser[p], tseat[p])
      BY <1>3, <1>4, <2>1, <2>2 DEF Reserve
    <2> QED BY <1>2, <2>3 DEF LedgerNext
  <1>5. CASE kind[p] \in {"cancel", "confirm", "fail", "expire"}
    <2>1. tseat[p] = bseat[b] /\ bstatus[b] \in Accepts(kind[p]) /\ from[p] = bstatus[b]
      BY <1>1, <1>2, <1>5 DEF Subject, ReadsHold, IsSettling
    <2>2. bseat' = bseat /\ buser' = buser
      BY <1>1, <1>2, <1>3, <1>5, <2>1 DEF LedgerTypeOK
    <2>3. Transition(b, bstatus[b], StatusAfter(kind[p]), SeatAfter(kind[p]))
      BY <1>3, <2>1, <2>2 DEF Transition
    <2>4. kind[p] = "cancel" => Cancel(b, tuser[p])
      BY <1>1, <1>2, <2>1, <2>3 DEF Cancel, Accepts, StatusAfter, SeatAfter, ReadsHold
    <2>5. kind[p] = "confirm" => Confirm(b)
      BY <2>1, <2>3 DEF Confirm, Accepts, StatusAfter, SeatAfter
    <2>6. kind[p] = "fail" => Compensate(b)
      BY <2>1, <2>3 DEF Compensate, Accepts, StatusAfter, SeatAfter
    <2>7. kind[p] = "expire" => Expire(b)
      BY <2>1, <2>3 DEF Expire, Accepts, StatusAfter, SeatAfter
    <2> QED BY <1>2, <1>5, <2>4, <2>5, <2>6, <2>7 DEF LedgerNext
  <1> QED BY <1>2, <1>4, <1>5

\* A commit disturbs no other session: the rows it writes are its own.
LEMMA CommitInv ==
    ASSUME TxInv, NEW p \in Sessions, Commit(p)
    PROVE  TxInv'
  <1>1. LedgerInv' /\ LedgerTypeOK'
    BY CommitIsLedgerStep, LedgerStepInv DEF TxInv, LedgerInv
  <1>2. Subject(p) /\ TxTypeOK /\ LedgerTypeOK
    BY DEF TxInv, TxTypeOK
  <1>3. /\ tbook[p] \in Bookings /\ tseat[p] \in Seats
        /\ \/ kind[p] = "fail" /\ at[p] = 3
           \/ kind[p] \in {"create", "cancel", "confirm", "expire"} /\ at[p] = 4
    BY <1>2, Statements DEF Commit, Subject
  <1>4. HasSeat(p) /\ HasBooking(p)
    BY <1>3 DEF HasSeat, HasBooking
  <1>5. ResetSession(p) /\ ReleaseLocks(p)
    BY DEF Commit
  <1>6. /\ kind'[p] = "none" /\ at'[p] = 0 /\ tbook'[p] = Nil /\ from'[p] = "none"
        /\ \A q \in Sessions : q # p => /\ kind'[q] = kind[q] /\ at'[q] = at[q] /\ tbook'[q] = tbook[q]
                                       /\ tuser'[q] = tuser[q] /\ tseat'[q] = tseat[q] /\ from'[q] = from[q]
    BY <1>2, <1>5 DEF TxTypeOK, ResetSession
  <1>7. /\ \A s \in Seats : s # tseat[p] => seat'[s] = seat[s]
        /\ \A b \in Bookings : b # tbook[p] => bstatus'[b] = bstatus[b] /\ bseat'[b] = bseat[b] /\ buser'[b] = buser[b]
        /\ bstatus'[tbook[p]] = StatusAfter(kind[p]) /\ StatusAfter(kind[p]) # "none"
        /\ kind[p] # "create" => bseat'[tbook[p]] = bseat[tbook[p]] /\ buser'[tbook[p]] = buser[tbook[p]]
    BY <1>2, <1>3 DEF Commit, LedgerTypeOK, StatusAfter, Subject
  <1>8. TxTypeOK'
    BY <1>1, <1>2, <1>5 DEF TxTypeOK, ResetSession, ReleaseLocks
  <1>9. LockTable'
    BY <1>2, <1>5, <1>6, SessionAssumption DEF TxInv, LockTable, HasSeat, HasBooking, ReleaseLocks, TxTypeOK
  <1>10. ASSUME NEW q \in Sessions PROVE Subject(q)'
    <2>1. CASE q = p
      BY <1>6, <2>1 DEF Subject
    <2>2. CASE q # p
      <3>1. Subject(q) /\ TxTypeOK /\ at[q] \in 0..4
        BY DEF TxInv, TxTypeOK
      <3>2. kind[q] = "create" => tbook[q] # tbook[p]
        BY <2>2, <3>1 DEF Subject
      <3>3. kind[p] = "create" => tbook[q] # tbook[p]
        BY <1>2, <2>2 DEF Subject
      <3>4. kind[q] # "none" => tbook[q] \in Bookings
        BY <3>1 DEF Subject, TxTypeOK
      <3> QED BY <1>6, <1>7, <2>2, <3>1, <3>2, <3>3, <3>4 DEF Subject
    <2> QED BY <2>1, <2>2
  <1>11. ASSUME NEW q \in Sessions PROVE ReadsHold(q)'
    <2>1. CASE q = p
      BY <1>6, <2>1 DEF ReadsHold, IsSettling
    <2>2. CASE q # p
      <3>1. Subject(q) /\ ReadsHold(q) /\ TxTypeOK /\ at[q] \in 0..4 /\ (at[q] = 0 <=> kind[q] = "none")
        BY DEF TxInv, TxTypeOK
      <3>2. HasSeat(q) => tseat[q] \in Seats /\ tseat[q] # tseat[p]
        BY <1>3, <1>4, <2>2, <3>1 DEF TxInv, LockTable, HasSeat, Subject
      <3>3. HasBooking(q) => tbook[q] \in Bookings /\ tbook[q] # tbook[p]
        BY <1>3, <1>4, <2>2, <3>1 DEF TxInv, LockTable, HasBooking, Subject
      <3>4. kind[q] = "create" /\ at[q] > 2 => MayReserve(tseat[q])'
        BY <1>6, <1>7, <2>2, <3>1, <3>2 DEF ReadsHold, MayReserve, HasSeat
      <3>5. kind[q] = "cancel" /\ at[q] > 1 => buser'[tbook[q]] = tuser[q] /\ from[q] = bstatus'[tbook[q]]
        BY <1>7, <2>2, <3>1, <3>3 DEF ReadsHold, HasBooking
      <3>6. IsSettling(q) => bstatus'[tbook[q]] \in Accepts(kind[q]) /\ from[q] = bstatus'[tbook[q]]
        BY <1>7, <2>2, <3>1, <3>3 DEF ReadsHold, HasBooking, IsSettling
      <3> QED BY <1>6, <2>2, <3>1, <3>4, <3>5, <3>6 DEF ReadsHold, IsSettling
    <2> QED BY <2>1, <2>2
  <1> QED BY <1>1, <1>8, <1>9, <1>10, <1>11 DEF TxInv

\* One lemma per statement makes the invariant inductive.
LEMMA TxStepInv == TxInv /\ [Next]_vars => TxInv'
  <1> SUFFICES ASSUME TxInv, [Next]_vars PROVE TxInv'
    OBVIOUS
  <1>1. CASE \E p \in Sessions, k \in Kinds, b \in Bookings, u \in Users, s \in Seats : Begin(p, k, b, u, s)
    BY <1>1, BeginInv
  <1>2. ASSUME NEW p \in Sessions, Statement(p) PROVE TxInv'
    BY <1>2, LockSeatInv, LockBookingInv, ReadBookingInv, UpdateBookingInv, UpdateSeatInv,
       InsertBookingInv, CommitInv DEF Statement
  <1>3. ASSUME NEW p \in Sessions, Abort(p) PROVE TxInv'
    BY <1>3, FinishInv DEF Abort
  <1>4. CASE UNCHANGED vars
    <2>1. LedgerInv' /\ LedgerTypeOK'
      BY <1>4, LedgerKept DEF TxInv, vars
    <2> QED BY <1>4, <2>1 DEF vars, ledgerVars, sessionVars, TxInv, TxTypeOK, LockTable, HasSeat, HasBooking,
                Subject, ReadsHold, IsSettling, MayReserve
  <1> QED BY <1>1, <1>2, <1>3, <1>4 DEF Next

\* Locks, reads and rows stay in step for ever.
LEMMA TxInvariant == Spec => []TxInv
  BY TxInitInv, TxStepInv, PTL DEF Spec

\* Statement by statement, the sessions carry out the ledger's transactions.
LEMMA TxStepLedger == TxInv /\ [Next]_vars => [LedgerNext]_ledgerVars
  <1> SUFFICES ASSUME TxInv, [Next]_vars PROVE LedgerNext \/ UNCHANGED ledgerVars
    OBVIOUS
  <1>1. ASSUME NEW p \in Sessions, Statement(p) PROVE LedgerNext \/ UNCHANGED ledgerVars
    <2>1. CASE Commit(p)
      BY <2>1, CommitIsLedgerStep
    <2>2. CASE LockSeat(p) \/ LockBooking(p) \/ ReadBooking(p) \/ UpdateBooking(p) \/ UpdateSeat(p) \/ InsertBooking(p)
      BY <2>2 DEF LockSeat, LockBooking, ReadBooking, UpdateBooking, UpdateSeat, InsertBooking, Finish, Proceed
    <2> QED BY <1>1, <2>1, <2>2 DEF Statement
  <1>2. ASSUME NEW p \in Sessions, NEW k, NEW b, NEW u, NEW s, Begin(p, k, b, u, s) PROVE UNCHANGED ledgerVars
    BY <1>2 DEF Begin
  <1>3. ASSUME NEW p \in Sessions, Abort(p) PROVE UNCHANGED ledgerVars
    BY <1>3 DEF Abort, Finish
  <1>4. UNCHANGED vars => UNCHANGED ledgerVars
    BY DEF vars, ledgerVars
  <1> QED BY <1>1, <1>2, <1>3, <1>4 DEF Next

-----------------------------------------------------------------------------
\* Session state is always what the code's local variables can be.
THEOREM TxTypeCorrect == Spec => []TxTypeOK
  <1>1. TxInv => TxTypeOK
    BY DEF TxInv
  <1> QED BY <1>1, TxInvariant, PTL

\* Whoever gets as far as the INSERT finds no active booking on the seat: it
\* has the seat's lock and has seen it available, and the tables agree.
THEOREM IndexNeverFires == Spec => []UniqueIndexNeverFires
  <1>1. TxInv => UniqueIndexNeverFires
    <2> SUFFICES ASSUME TxInv, NEW p \in Sessions, NextStatement(p, "insert_booking")
                 PROVE  Active(tseat[p]) = {}
      BY DEF UniqueIndexNeverFires
    <2>1. TxTypeOK /\ Subject(p) /\ ReadsHold(p) /\ HeldSeats
      BY DEF TxInv, LedgerInv
    <2>2. seat[tseat[p]] = "available" /\ tseat[p] \in Seats
      BY <2>1, Statements DEF ReadsHold, Subject, MayReserve
    <2> QED BY <2>1, <2>2 DEF HeldSeats, Active, ActiveStatus
  <1> QED BY <1>1, TxInvariant, PTL

\* No deadlock, however many transactions queue for the same rows: whoever
\* holds a seat's lock has nothing left to wait for.
THEOREM SeatHolderAlwaysRuns == Spec => []SeatHolderRuns
  <1>1. TxInv => SeatHolderRuns
    <2> SUFFICES ASSUME TxInv, NEW s \in Seats, seatLock[s] # Nil PROVE ~Waiting(seatLock[s])
      BY DEF SeatHolderRuns
    <2> DEFINE p == seatLock[s]
    <2>1. p \in Sessions /\ TxTypeOK /\ Subject(p)
      BY DEF TxInv, TxTypeOK
    <2>2. HasSeat(p) /\ tseat[p] = s
      BY <2>1 DEF TxInv, LockTable
    <2> HIDE DEF p
    <2>3. ~NextStatement(p, "lock_booking") /\ ~NextStatement(p, "update_booking")
      BY <2>1, <2>2, Statements DEF HasSeat
    <2>4. Available(seatLock, tseat[p], p)
      BY <2>2 DEF Available, p
    <2>5. ~Waiting(p)
      BY <2>3, <2>4 DEF Waiting
    <2> QED BY <2>5 DEF p
  <1> QED BY <1>1, TxInvariant, PTL

\* Among the sessions that are in a transaction, one can go on.
SomebodyRuns == \A p \in Sessions : Waiting(p) => \E q \in Sessions : at[q] > 0 /\ ~Waiting(q)

\* No circle of waits: a session waits for a booking's holder, that one at most
\* for a seat's holder, and that one for nobody.
THEOREM NoDeadlock == Spec => []SomebodyRuns
  <1>1. TxInv /\ SeatHolderRuns => SomebodyRuns
    <2> SUFFICES ASSUME TxInv, SeatHolderRuns, NEW p \in Sessions, Waiting(p)
                 PROVE  \E q \in Sessions : at[q] > 0 /\ ~Waiting(q)
      BY DEF SomebodyRuns
    <2>1. ASSUME NEW r \in Sessions, NextStatement(r, "update_seat"), ~Available(seatLock, tseat[r], r)
          PROVE  \E q \in Sessions : at[q] > 0 /\ ~Waiting(q)
      <3>1. TxTypeOK /\ Subject(r) /\ at[r] > 0 /\ tseat[r] \in Seats
        BY <2>1 DEF TxInv, Subject, NextStatement
      <3>2. PICK q \in Sessions : q = seatLock[tseat[r]]
        BY <2>1, <3>1 DEF Available, TxTypeOK
      <3>3. ~Waiting(q)
        BY <3>1, <3>2, SessionAssumption DEF SeatHolderRuns
      <3>4. HasSeat(q) /\ at[q] \in 0..4
        BY <3>1, <3>2 DEF TxInv, TxTypeOK, LockTable
      <3> QED BY <3>3, <3>4 DEF HasSeat
    <2>2. CASE NextStatement(p, "update_seat") /\ ~Available(seatLock, tseat[p], p)
      BY <2>1, <2>2
    <2>3. CASE /\ NextStatement(p, "lock_booking") \/ NextStatement(p, "update_booking")
               /\ ~Available(bookLock, tbook[p], p)
      <3>1. TxTypeOK /\ Subject(p) /\ tbook[p] \in Bookings
        BY <2>3 DEF TxInv, Subject, NextStatement
      <3>2. PICK q \in Sessions : q = bookLock[tbook[p]]
        BY <2>3, <3>1 DEF Available, TxTypeOK
      <3>3. Subject(q) /\ HasBooking(q) /\ at[q] \in 0..4
        BY <3>1, <3>2 DEF TxInv, TxTypeOK, LockTable
      <3>4. ~NextStatement(q, "lock_booking") /\ at[q] > 0
        BY <3>1, <3>3, Statements DEF HasBooking
      <3>5. NextStatement(q, "update_booking") => Available(bookLock, tbook[q], q)
        BY <3>1, <3>2, <3>3 DEF Available, TxInv, LockTable
      <3>6. CASE Waiting(q)
        BY <2>1, <3>4, <3>5, <3>6 DEF Waiting
      <3> QED BY <3>4, <3>6
    <2> QED BY <2>2, <2>3 DEF Waiting
  <1> QED BY <1>1, TxInvariant, SeatHolderAlwaysRuns, PTL

\* Row locks make the transactions atomic: what the sessions do together is
\* what SeatLedger does in single steps.
THEOREM TransactionsImplementLedger == Spec => LedgerSpec
  <1>1. Init => LedgerInit
    BY DEF Init
  <1> QED BY <1>1, TxInvariant, TxStepLedger, PTL DEF Spec, LedgerSpec

\* So after every statement no seat is held twice and the tables agree,
THEOREM SessionsKeepTables == Spec => []NoDoubleBooking /\ []SeatMatchesBooking
  BY TransactionsImplementLedger, NeverDoubleBooked, SeatsAgree

\* the interleaved transactions leave a log that can be replayed,
THEOREM SessionsAudit == Spec => []AuditReplays
  BY TransactionsImplementLedger, AuditComplete

\* never bring a settled booking back,
THEOREM SessionsMoveForward == Spec => BookingsOnlyMoveForward
  BY TransactionsImplementLedger, BookingsForward

\* and carry out an orderly sale.
THEOREM SessionsImplementSale == Spec => ImplementsSale
  BY TransactionsImplementLedger, LedgerImplementsSale
=============================================================================
