-------------------------- MODULE SeatLedgerProofs --------------------------
(***************************************************************************)
(* What SeatLedger's transactions keep true for any number of seats, users  *)
(* and bookings.                                                            *)
(***************************************************************************)
EXTENDS SeatLedger, TLAPS

Row(from, to) == [old |-> from, new |-> to]

\* The audit rows of a booking in each status.  AuditReplays follows from it,
\* and unlike AuditReplays it is kept by every transaction.
AuditPath(b) ==
    /\ bstatus[b] = "none"    => audit[b] = {}
    /\ bstatus[b] = "pending" => audit[b] = {Row("none", "pending")}
    /\ bstatus[b] \in {"confirmed", "expired", "compensated"} =>
            audit[b] = {Row("none", "pending"), Row("pending", bstatus[b])}
    /\ bstatus[b] = "cancelled" =>
            \/ audit[b] = {Row("none", "pending"), Row("pending", "cancelled")}
            \/ audit[b] = {Row("none", "pending"), Row("pending", "confirmed"), Row("confirmed", "cancelled")}

\* SeatMatchesBooking, booking by booking: an active booking's seat has the
\* status that goes with it, and a seat that is not on sale has such a booking.
HeldSeats ==
    /\ \A b \in Bookings :
        /\ bstatus[b] = "pending"   => seat[bseat[b]] = "reserved"
        /\ bstatus[b] = "confirmed" => seat[bseat[b]] = "booked"
    /\ \A s \in Seats : seat[s] # "available" =>
        \E b \in Bookings : bseat[b] = s /\ bstatus[b] \in ActiveStatus

OneHolder ==
    \A b, c \in Bookings :
        /\ bstatus[b] \in ActiveStatus
        /\ bstatus[c] \in ActiveStatus
        /\ bseat[b] = bseat[c]
        => b = c

LedgerInv ==
    /\ LedgerTypeOK
    /\ HeldSeats
    /\ OneHolder
    /\ \A b \in Bookings : AuditPath(b)

-----------------------------------------------------------------------------
\* A booking row that exists names a seat, so a transition writes a seat row.
LEMMA RowHasSeat ==
    ASSUME LedgerTypeOK, NEW b \in Bookings, bstatus[b] # "none"
    PROVE  bseat[b] \in Seats
  BY DEF LedgerTypeOK

\* The columns of an audit row.
LEMMA RowFields ==
    ASSUME NEW from, NEW to
    PROVE  Row(from, to).old = from /\ Row(from, to).new = to
  BY DEF Row

\* The hall starts on sale with no bookings.
LEMMA LedgerInitInv == LedgerInit => LedgerInv
  <1> SUFFICES ASSUME LedgerInit PROVE LedgerInv
    OBVIOUS
  <1>1. LedgerTypeOK
    BY NilAssumption DEF LedgerInit, LedgerTypeOK, SeatStatus, AuditRow
  <1>2. HeldSeats /\ OneHolder
    BY DEF LedgerInit, HeldSeats, OneHolder, ActiveStatus
  <1>3. \A b \in Bookings : AuditPath(b)
    BY DEF LedgerInit, AuditPath
  <1> QED BY <1>1, <1>2, <1>3 DEF LedgerInv

\* A new hold on an available seat keeps the invariant.
LEMMA ReserveInv ==
    ASSUME LedgerInv, NEW b \in Bookings, NEW u \in Users, NEW s \in Seats, Reserve(b, u, s)
    PROVE  LedgerInv'
  <1>1. LedgerTypeOK'
    BY NilAssumption DEF LedgerInv, LedgerTypeOK, Reserve, SeatStatus, BookingStatus, ActiveStatus, AuditRow
  <1>2. \A c \in Bookings : bstatus[c] \in ActiveStatus => bseat[c] # s
    BY DEF LedgerInv, HeldSeats, Reserve, MayReserve, ActiveStatus
  <1>3. HeldSeats'
    BY <1>2 DEF LedgerInv, LedgerTypeOK, HeldSeats, Reserve, ActiveStatus
  <1>4. OneHolder'
    BY <1>2 DEF LedgerInv, LedgerTypeOK, OneHolder, Reserve, ActiveStatus
  <1>5. \A c \in Bookings : AuditPath(c)'
    BY DEF LedgerInv, LedgerTypeOK, AuditPath, Row, Reserve
  <1> QED BY <1>1, <1>3, <1>4, <1>5 DEF LedgerInv

\* So does every later transition, as long as it is one a transaction makes:
\* payment turns a reserved seat into a booked one, the rest put the seat back.
LEMMA TransitionInv ==
    ASSUME LedgerInv, NEW b \in Bookings, NEW from, NEW to, NEW seatTo,
           Transition(b, from, to, seatTo),
           \/ from = "pending" /\ to = "confirmed" /\ seatTo = "booked"
           \/ from = "pending" /\ to \in {"cancelled", "expired", "compensated"} /\ seatTo = "available"
           \/ from = "confirmed" /\ to = "cancelled" /\ seatTo = "available"
    PROVE  LedgerInv'
  <1> USE DEF ActiveStatus
  <1>1. bseat[b] \in Seats /\ bstatus[b] \in ActiveStatus
    BY RowHasSeat DEF LedgerInv, Transition
  <1>2. LedgerTypeOK'
    BY <1>1 DEF LedgerInv, LedgerTypeOK, Transition, SeatStatus, BookingStatus, AuditRow
  <1>3. \A c \in Bookings : c # b /\ bstatus[c] \in ActiveStatus => bseat[c] # bseat[b]
    BY <1>1 DEF LedgerInv, OneHolder
  <1>4. HeldSeats'
    BY <1>1, <1>3 DEF LedgerInv, LedgerTypeOK, HeldSeats, Transition
  <1>5. OneHolder'
    BY <1>1, <1>3 DEF LedgerInv, LedgerTypeOK, OneHolder, Transition
  <1>6. \A c \in Bookings : AuditPath(c)'
    <2> SUFFICES ASSUME NEW c \in Bookings PROVE AuditPath(c)'
      OBVIOUS
    <2>1. CASE c # b
      BY <2>1 DEF LedgerInv, LedgerTypeOK, AuditPath, Row, Transition
    <2>2. CASE c = b
      <3>1. audit'[b] = audit[b] \cup {Row(from, to)} /\ bstatus'[b] = to /\ bstatus[b] = from
        BY DEF LedgerInv, LedgerTypeOK, Row, Transition
      <3>2. AuditPath(b)
        BY DEF LedgerInv
      <3> QED BY <2>2, <3>1, <3>2 DEF AuditPath
    <2> QED BY <2>1, <2>2
  <1> QED BY <1>2, <1>4, <1>5, <1>6 DEF LedgerInv

\* LedgerInv is inductive: one step per transaction.
LEMMA LedgerStepInv == LedgerInv /\ [LedgerNext]_ledgerVars => LedgerInv'
  <1> SUFFICES ASSUME LedgerInv, [LedgerNext]_ledgerVars PROVE LedgerInv'
    OBVIOUS
  <1>1. CASE \E b \in Bookings, u \in Users, s \in Seats : Reserve(b, u, s)
    BY <1>1, ReserveInv
  <1>2. CASE \E b \in Bookings, u \in Users : Cancel(b, u)
    BY <1>2, TransitionInv DEF Cancel, ActiveStatus
  <1>3. CASE \E b \in Bookings : Confirm(b)
    BY <1>3, TransitionInv DEF Confirm
  <1>4. CASE \E b \in Bookings : Compensate(b)
    BY <1>4, TransitionInv DEF Compensate
  <1>5. CASE \E b \in Bookings : Expire(b)
    BY <1>5, TransitionInv DEF Expire
  <1>6. CASE UNCHANGED ledgerVars
    BY <1>6 DEF ledgerVars, LedgerInv, LedgerTypeOK, HeldSeats, OneHolder, AuditPath
  <1> QED BY <1>1, <1>2, <1>3, <1>4, <1>5, <1>6 DEF LedgerNext

\* The transactions keep the invariant for ever.
LEMMA LedgerInvariant == LedgerSpec => []LedgerInv
  <1>1. LedgerInit => LedgerInv
    BY LedgerInitInv
  <1>2. LedgerInv /\ [LedgerNext]_ledgerVars => LedgerInv'
    BY LedgerStepInv
  <1> QED BY <1>1, <1>2, PTL DEF LedgerSpec

-----------------------------------------------------------------------------
\* The rows always satisfy their CHECK constraints.
THEOREM LedgerTypeCorrect == LedgerSpec => []LedgerTypeOK
  <1>1. LedgerInv => LedgerTypeOK
    BY DEF LedgerInv
  <1> QED BY <1>1, LedgerInvariant, PTL

\* No seat is ever held by two active bookings, even without the unique index.
THEOREM NeverDoubleBooked == LedgerSpec => []NoDoubleBooking
  <1>1. LedgerInv => NoDoubleBooking
    BY DEF LedgerInv, OneHolder, NoDoubleBooking, Active
  <1> QED BY <1>1, LedgerInvariant, PTL

\* The seats table and the bookings table agree after every transaction.
THEOREM SeatsAgree == LedgerSpec => []SeatMatchesBooking
  <1>1. LedgerInv => SeatMatchesBooking
    <2> SUFFICES ASSUME LedgerInv, NEW s \in Seats
                 PROVE  /\ seat[s] = "available" <=> Active(s) = {}
                        /\ seat[s] = "reserved"  <=> \E b \in Active(s) : bstatus[b] = "pending"
                        /\ seat[s] = "booked"    <=> \E b \in Active(s) : bstatus[b] = "confirmed"
      BY DEF SeatMatchesBooking
    <2>1. CASE seat[s] = "available"
      <3>1. Active(s) = {}
        BY <2>1 DEF LedgerInv, HeldSeats, Active, ActiveStatus
      <3> QED BY <2>1, <3>1
    <2>2. CASE seat[s] # "available"
      <3>1. PICK b \in Bookings : bseat[b] = s /\ bstatus[b] \in ActiveStatus
        BY <2>2 DEF LedgerInv, HeldSeats
      <3>2. \A c \in Active(s) : c = b
        BY <3>1 DEF LedgerInv, OneHolder, Active
      <3>3. b \in Active(s)
        BY <3>1 DEF Active
      <3>4. /\ bstatus[b] = "pending"   => seat[s] = "reserved"
            /\ bstatus[b] = "confirmed" => seat[s] = "booked"
        BY <3>1 DEF LedgerInv, HeldSeats
      <3> QED BY <2>2, <3>1, <3>2, <3>3, <3>4 DEF ActiveStatus
    <2> QED BY <2>1, <2>2
  <1> QED BY <1>1, LedgerInvariant, PTL

\* The audit log of a booking can be replayed to its status.
THEOREM AuditComplete == LedgerSpec => []AuditReplays
  <1>1. LedgerInv => AuditReplays
    <2> SUFFICES ASSUME LedgerInv, NEW b \in Bookings
                 PROVE  /\ bstatus[b] # "none" => \E r \in audit[b] : r.new = bstatus[b]
                        /\ \A r \in audit[b] :
                            /\ r.old # bstatus[b]
                            /\ r.old # "none" => \E q \in audit[b] : q.new = r.old
                            /\ r.new # bstatus[b] => \E q \in audit[b] : q.old = r.new
                            /\ \A q \in audit[b] : r.old = q.old => r = q
      BY DEF AuditReplays
    <2>1. AuditPath(b) /\ bstatus[b] \in BookingStatus \cup {"none"}
      BY DEF LedgerInv, LedgerTypeOK
    <2>2. CASE bstatus[b] = "none"
      BY <2>1, <2>2 DEF AuditPath
    <2>3. CASE bstatus[b] = "pending"
      BY <2>1, <2>3, RowFields DEF AuditPath
    <2>4. CASE bstatus[b] \in {"confirmed", "expired", "compensated"}
      BY <2>1, <2>4, RowFields DEF AuditPath
    <2>5. CASE bstatus[b] = "cancelled"
      <3>1. CASE audit[b] = {Row("none", "pending"), Row("pending", "cancelled")}
        BY <2>5, <3>1, RowFields
      <3>2. CASE audit[b] = {Row("none", "pending"), Row("pending", "confirmed"), Row("confirmed", "cancelled")}
        BY <2>5, <3>2, RowFields
      <3> QED BY <2>1, <2>5, <3>1, <3>2 DEF AuditPath
    <2> QED BY <2>1, <2>2, <2>3, <2>4, <2>5 DEF BookingStatus, ActiveStatus
  <1> QED BY <1>1, LedgerInvariant, PTL

\* A booking that has ended stays ended, and no row changes hands.
THEOREM BookingsForward == LedgerSpec => BookingsOnlyMoveForward
  <1> DEFINE Forward == \A b \in Bookings :
        /\ bstatus[b] \in BookingStatus \ ActiveStatus => bstatus'[b] = bstatus[b]
        /\ bstatus[b] = "confirmed" => bstatus'[b] \in {"confirmed", "cancelled"}
        /\ bstatus[b] # "none" => bseat'[b] = bseat[b] /\ buser'[b] = buser[b]
  <1>1. LedgerInv /\ [LedgerNext]_ledgerVars => [Forward]_ledgerVars
    <2> SUFFICES ASSUME LedgerInv, LedgerNext PROVE Forward
      OBVIOUS
    <2> USE DEF LedgerInv, LedgerTypeOK, ActiveStatus, BookingStatus
    <2>1. CASE \E b \in Bookings, u \in Users, s \in Seats : Reserve(b, u, s)
      BY <2>1 DEF Reserve
    <2>2. CASE \E b \in Bookings, u \in Users : Cancel(b, u)
      BY <2>2 DEF Cancel, Transition
    <2>3. CASE \E b \in Bookings : Confirm(b)
      BY <2>3 DEF Confirm, Transition
    <2>4. CASE \E b \in Bookings : Compensate(b)
      BY <2>4 DEF Compensate, Transition
    <2>5. CASE \E b \in Bookings : Expire(b)
      BY <2>5 DEF Expire, Transition
    <2> QED BY <2>1, <2>2, <2>3, <2>4, <2>5 DEF LedgerNext
  <1>2. LedgerSpec => [][Forward]_ledgerVars
    BY <1>1, LedgerInvariant, PTL DEF LedgerSpec
  <1> QED BY <1>2 DEF BookingsOnlyMoveForward

-----------------------------------------------------------------------------
(* The ledger implements SeatSale.                                          *)

\* Who holds a seat, without the CHOOSE: nobody, or the user of the one active
\* booking.
HolderFacts ==
    /\ \A s \in Seats : seat[s] = "available" => Holder(s) = Nil
    /\ \A s \in Seats, b \in Bookings :
        bseat[b] = s /\ bstatus[b] \in ActiveStatus => Holder(s) = buser[b]

\* They follow from the invariant, and so hold after a step too.
LEMMA HolderIs == LedgerInv => HolderFacts
  <1> SUFFICES ASSUME LedgerInv PROVE HolderFacts
    OBVIOUS
  <1>1. ASSUME NEW s \in Seats, seat[s] = "available" PROVE Holder(s) = Nil
    <2>1. Active(s) = {}
      BY <1>1 DEF LedgerInv, HeldSeats, Active, ActiveStatus
    <2> QED BY <2>1 DEF Holder
  <1>2. ASSUME NEW s \in Seats, NEW b \in Bookings, bseat[b] = s, bstatus[b] \in ActiveStatus
        PROVE  Holder(s) = buser[b]
    <2>1. b \in Active(s) /\ \A c \in Active(s) : c = b
      BY <1>2 DEF LedgerInv, OneHolder, Active
    <2>2. (CHOOSE c \in Active(s) : TRUE) = b
      BY <2>1
    <2> QED BY <2>1, <2>2 DEF Holder
  <1> QED BY <1>1, <1>2 DEF HolderFacts

LEMMA HolderWillBe == LedgerInv' => HolderFacts'
  BY HolderIs, PTL

\* A seat that no booking entered or left keeps its holder.
LEMMA HolderStays ==
    ASSUME NEW s \in Seats, Active(s)' = Active(s),
           \A b \in Active(s) : buser'[b] = buser[b]
    PROVE  Holder(s)' = Holder(s)
  BY DEF Holder

\* Taking a seat in the ledger is taking it in the sale.
LEMMA ReserveTakes ==
    ASSUME LedgerInv, LedgerInv', NEW b \in Bookings, NEW u \in Users, NEW s \in Seats, Reserve(b, u, s)
    PROVE  Sale!Take(s, u)
  <1> USE DEF LedgerInv, LedgerTypeOK
  <1>1. Holder(s) = Nil /\ seat[s] # "booked"
    BY HolderIs DEF HolderFacts, Reserve, MayReserve
  <1>2. Holder(s)' = u
    <2>1. bseat'[b] = s /\ bstatus'[b] \in ActiveStatus /\ buser'[b] = u
      BY DEF Reserve, ActiveStatus
    <2> QED BY <2>1, HolderWillBe DEF HolderFacts
  <1>3. ASSUME NEW t \in Seats, t # s PROVE Holder(t)' = Holder(t)
    <2>1. Active(t)' = Active(t) /\ \A c \in Active(t) : buser'[c] = buser[c]
      BY <1>3 DEF Reserve, Active, ActiveStatus
    <2> QED BY <2>1, HolderStays
  <1>4. {t \in Seats : seat'[t] = "booked"} = {t \in Seats : seat[t] = "booked"}
    BY <1>1 DEF Reserve
  <1>5. [t \in Seats |-> Holder(t)'] = [[t \in Seats |-> Holder(t)] EXCEPT ![s] = u]
    BY <1>2, <1>3
  <1> QED BY <1>1, <1>4, <1>5 DEF Sale!Take

\* The other transactions leave the holders of other seats alone.
LEMMA OthersStay ==
    ASSUME LedgerInv, NEW b \in Bookings, NEW s \in Seats, s = bseat[b],
           NEW from \in ActiveStatus, NEW to, NEW seatTo, Transition(b, from, to, seatTo)
    PROVE  /\ buser[b] \in Users /\ Holder(s) = buser[b]
           /\ \A t \in Seats : t # s => Holder(t)' = Holder(t) /\ seat'[t] = seat[t]
           /\ seat'[s] = seatTo
  <1> USE DEF LedgerInv, LedgerTypeOK
  <1>1. buser[b] \in Users /\ Holder(s) = buser[b]
    BY HolderIs DEF HolderFacts, Transition, ActiveStatus
  <1>2. ASSUME NEW t \in Seats, t # s PROVE Holder(t)' = Holder(t) /\ seat'[t] = seat[t]
    <2>1. Active(t)' = Active(t) /\ \A c \in Active(t) : buser'[c] = buser[c]
      BY <1>2 DEF Transition, Active
    <2> QED BY <1>2, <2>1, HolderStays DEF Transition
  <1>3. seat'[s] = seatTo
    BY DEF Transition
  <1> QED BY <1>1, <1>2, <1>3

\* A confirmed payment pays for the seat.
LEMMA ConfirmPays ==
    ASSUME LedgerInv, LedgerInv', NEW b \in Bookings, NEW s \in Seats, s = bseat[b], Confirm(b)
    PROVE  Sale!Pay(s)
  <1>1. Transition(b, "pending", "confirmed", "booked")
    BY DEF Confirm
  <1>2. /\ buser[b] \in Users /\ Holder(s) = buser[b]
        /\ \A t \in Seats : t # s => Holder(t)' = Holder(t) /\ seat'[t] = seat[t]
        /\ seat'[s] = "booked"
    BY <1>1, OthersStay DEF ActiveStatus
  <1>3. seat[s] = "reserved"
    BY <1>1 DEF LedgerInv, HeldSeats, Transition
  <1>4. Holder(s)' = buser[b]
    <2>1. bseat'[b] = s /\ bstatus'[b] \in ActiveStatus /\ buser'[b] = buser[b]
      BY <1>1 DEF LedgerInv, LedgerTypeOK, Transition, ActiveStatus
    <2> QED BY <2>1, HolderWillBe DEF HolderFacts
  <1>5. [t \in Seats |-> Holder(t)'] = [t \in Seats |-> Holder(t)]
    BY <1>2, <1>4
  <1>6. {t \in Seats : seat'[t] = "booked"} = {t \in Seats : seat[t] = "booked"} \cup {s}
    BY <1>2
  <1> QED BY <1>2, <1>3, <1>5, <1>6, NilAssumption DEF Sale!Pay

\* Cancelling, failing and expiring give the seat back.
LEMMA EndingGivesBack ==
    ASSUME LedgerInv, LedgerInv', NEW b \in Bookings, NEW s \in Seats, s = bseat[b],
           NEW from \in ActiveStatus, NEW to, Transition(b, from, to, "available")
    PROVE  Sale!GiveBack(s)
  <1>1. /\ buser[b] \in Users /\ Holder(s) = buser[b]
        /\ \A t \in Seats : t # s => Holder(t)' = Holder(t) /\ seat'[t] = seat[t]
        /\ seat'[s] = "available"
    BY OthersStay
  <1>2. Holder(s)' = Nil
    BY <1>1, HolderWillBe DEF HolderFacts
  <1>3. [t \in Seats |-> Holder(t)'] = [[t \in Seats |-> Holder(t)] EXCEPT ![s] = Nil]
    BY <1>1, <1>2
  <1>4. {t \in Seats : seat'[t] = "booked"} = {t \in Seats : seat[t] = "booked"} \ {s}
    BY <1>1
  <1> QED BY <1>1, <1>3, <1>4, NilAssumption DEF Sale!GiveBack

\* Every transaction is one step of the sale.
LEMMA LedgerStepSale ==
    LedgerInv /\ LedgerInv' /\ [LedgerNext]_ledgerVars => [Sale!Next]_(Sale!saleVars)
  <1> SUFFICES ASSUME LedgerInv, LedgerInv', [LedgerNext]_ledgerVars
               PROVE  Sale!Next \/ UNCHANGED Sale!saleVars
    OBVIOUS
  <1>1. ASSUME NEW b \in Bookings, NEW u \in Users, NEW s \in Seats, Reserve(b, u, s) PROVE Sale!Next
    BY <1>1, ReserveTakes DEF Sale!Next
  <1>2. ASSUME NEW b \in Bookings, Confirm(b) PROVE Sale!Next
    <2>1. PICK s \in Seats : s = bseat[b]
      BY <1>2, RowHasSeat DEF LedgerInv, Confirm, Transition
    <2>2. Sale!Pay(s)
      BY <1>2, <2>1, ConfirmPays
    <2> QED BY <2>2 DEF Sale!Next
  <1>3. ASSUME NEW b \in Bookings, NEW from \in ActiveStatus, NEW to, Transition(b, from, to, "available")
        PROVE  Sale!Next
    <2>1. PICK s \in Seats : s = bseat[b]
      BY <1>3, RowHasSeat DEF LedgerInv, Transition, ActiveStatus
    <2>2. Sale!GiveBack(s)
      BY <1>3, <2>1, EndingGivesBack
    <2> QED BY <2>2 DEF Sale!Next
  <1>4. ASSUME NEW b \in Bookings, Compensate(b) \/ Expire(b) \/ \E u \in Users : Cancel(b, u)
        PROVE  Sale!Next
    BY <1>3, <1>4 DEF Compensate, Expire, Cancel, ActiveStatus
  <1>5. UNCHANGED ledgerVars => UNCHANGED Sale!saleVars
    BY DEF ledgerVars, Sale!saleVars, Holder, Active
  <1> QED BY <1>1, <1>2, <1>4, <1>5 DEF LedgerNext

\* The tables carry out an orderly sale, for any number of seats, users and
\* bookings: every transaction of the services is one of its steps.
THEOREM LedgerImplementsSale == LedgerSpec => ImplementsSale
  <1>1. LedgerInit => Sale!Init
    <2> SUFFICES ASSUME LedgerInit PROVE Sale!Init
      OBVIOUS
    <2>1. \A s \in Seats : Holder(s) = Nil
      BY DEF LedgerInit, Holder, Active, ActiveStatus
    <2>2. {s \in Seats : seat[s] = "booked"} = {}
      BY DEF LedgerInit
    <2> QED BY <2>1, <2>2 DEF Sale!Init
  <1> QED BY <1>1, LedgerStepSale, LedgerInvariant, PTL DEF LedgerSpec, ImplementsSale, Sale!Spec
=============================================================================
