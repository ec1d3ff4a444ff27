------------------------- MODULE BookingFlowProofs -------------------------
(***************************************************************************)
(* What holds of BookingFlow for any number of events, seats, users,        *)
(* handlers and faults: the tables stay consistent, the types are right,    *)
(* and an event's counter is out by the seats lent to and borrowed from      *)
(* other events, and no more than one further per fault.  And what the      *)
(* reconciler of Reconciliation, wrong as its corrections can be, leaves     *)
(* true.                                                                    *)
(***************************************************************************)
EXTENDS Reconciliation, SeatLedgerProofs, FiniteSetTheorems

\* Every booking names an event.
BookingsFit == \A b \in Bookings : bstatus[b] # "none" => bevent[b] \in Events

\* A handler that is about to use its event, user or seat has one.
LocalsFit ==
    \A p \in Procs :
        /\ pc[p] # "idle" => pevent[p] \in Events
        /\ pc[p] \in {"reserve", "leave", "join", "check", "hold"} => puser[p] \in Users
        /\ pc[p] \in ReleasePcs \cup {"reserve", "paid"} => pseat[p] \in Seats

\* Only a handler that met a Redis without the counter rebuilds it.
RebuildMeansLost ==
    intact =>
        /\ \A e \in Events : hasCounter[e]
        /\ \A p \in Procs : pc[p] \notin {"count", "set"}

FlowInv ==
    /\ LedgerInv /\ RedisTypeOK /\ LocalsTypeOK
    /\ faults \in 0..MaxFaults /\ intact \in BOOLEAN
    /\ BookingsFit /\ LocalsFit /\ RebuildMeansLost

\* An event has finitely many seats.
LEMMA Halls ==
    ASSUME NEW e \in Events
    PROVE  IsFiniteSet(SeatsOf(e)) /\ Cardinality(SeatsOf(e)) \in Nat
  BY FlowAssumption, FS_Subset, FS_CardinalityType DEF SeatsOf

\* The invariant, and the counters, are right when the events have been created.
LEMMA FlowInit == Init => FlowInv /\ CounterWithinFaults
  <1> SUFFICES ASSUME Init PROVE FlowInv /\ CounterWithinFaults
    OBVIOUS
  <1> USE FlowAssumption DEF Init
  <1>1. LedgerInv
    BY LedgerInitInv
  <1>2. \A e \in Events : Cardinality(SeatsOf(e)) \in Nat
    BY Halls
  <1>3. RedisTypeOK /\ faults \in 0..MaxFaults /\ intact \in BOOLEAN
    BY <1>2 DEF RedisTypeOK, Nobody, NoSkips
  <1>4. LocalsTypeOK
    BY DEF LocalsTypeOK, NoSkips, PCs
  <1>5. BookingsFit /\ LocalsFit /\ RebuildMeansLost
    BY DEF BookingsFit, LocalsFit, RebuildMeansLost, ReleasePcs, LedgerInit
  <1>6. ASSUME NEW e \in Events PROVE Balance(e) = 0
    <2>1. OnSale(e) = SeatsOf(e) /\ Tokens(e) = {}
      BY DEF OnSale, SeatsOf, AvailableSeats, Tokens, TokenPcs, LedgerInit
    <2>2. \A f : HeldUnder(f) = {}
      BY DEF HeldUnder, Active, ActiveStatus, LedgerInit
    <2>3. Lent(e) = {} /\ Borrowed(e) = {}
      BY <2>2 DEF Lent, Borrowed
    <2>4. counter[e] = Cardinality(SeatsOf(e)) /\ Cardinality(SeatsOf(e)) \in Nat
      BY <1>2
    <2> QED BY <2>1, <2>3, <2>4, FS_EmptySet DEF Balance
  <1>7. CounterWithinFaults
    BY <1>6 DEF CounterWithinFaults
  <1> QED BY <1>1, <1>3, <1>4, <1>5, <1>7 DEF FlowInv

-----------------------------------------------------------------------------
(* The database half: every step is a step of SeatLedger or leaves it alone. *)

\* What a step does to the tables is a step of SeatLedger, or nothing.
LEMMA FlowLedgerStep ==
    ASSUME LocalsFit, [Next]_vars
    PROVE  [LedgerNext]_ledgerVars
  <1>1. ASSUME NEW p \in Procs, Step(p) PROVE [LedgerNext]_ledgerVars
    <2>1. CASE \E b \in Bookings : ReserveSeat(p, b)
      BY <2>1 DEF ReserveSeat, Insert, At, LocalsFit, LedgerNext
    <2>2. CASE \E b \in Bookings : HoldForWaiter(p, b)
      BY <2>2 DEF HoldForWaiter, Insert, At, LocalsFit, LedgerNext, ReleasePcs
    <2>3. CASE UNCHANGED ledgerVars
      BY <2>3
    <2> QED
      BY <1>1, <2>1, <2>2, <2>3 DEF tableVars, Step, Join, CountSeats, SetCounter, ReserveFails, Restore, Leave,
         DeleteOffers, CountOffer, PopNobody, GiveUpPopping, ForgetOffers, FindOnline, FindOffline,
         HoldFails, ClearOffers, Sell, PopWaiter, Requeue
  <1>2. ASSUME NEW p \in Procs, Request(p) PROVE [LedgerNext]_ledgerVars
    BY <1>2 DEF Request, TakeSeat, FindSoldOut, FindNoCounter, CancelBooking, FailPayment, PayBooking,
       ExpireHold, LedgerNext, tableVars
  <1>3. ASSUME NEW p \in Procs, Failure(p) PROVE [LedgerNext]_ledgerVars
    BY <1>3 DEF Failure, ReserveUnknown, HoldUnknown, Insert, ReleaseRejects, Crash, At, LocalsFit,
       LedgerNext, ReleasePcs, tableVars
  <1>4. CASE LoseRedis
    BY <1>4 DEF LoseRedis, tableVars
  <1>5. CASE UNCHANGED vars
    BY <1>5 DEF vars, tableVars
  <1> QED BY <1>1, <1>2, <1>3, <1>4, <1>5 DEF Next

-----------------------------------------------------------------------------
(* The Redis half: types, and what a handler carries from step to step.     *)

RedisInv ==
    /\ RedisTypeOK /\ LocalsTypeOK
    /\ faults \in 0..MaxFaults /\ intact \in BOOLEAN
    /\ LocalsFit /\ RebuildMeansLost

\* What writing one user's place does to the waiting lists.
LEMMA PlaceWritten ==
    ASSUME RedisTypeOK, NEW e \in Events, NEW u \in Users, NEW n \in 0..MaxClock,
           waiting' = [waiting EXCEPT ![e][u] = n]
    PROVE  /\ waiting' \in [Events -> [Users -> 0..MaxClock]]
           /\ waiting'[e][u] = n
           /\ \A f \in Events, v \in Users : f # e \/ v # u => waiting'[f][v] = waiting[f][v]
  <1>1. waiting \in [Events -> [Users -> 0..MaxClock]]
    BY DEF RedisTypeOK
  <1>2. waiting' = [f \in Events |-> IF f = e THEN [waiting[e] EXCEPT ![u] = n] ELSE waiting[f]]
    BY <1>1
  <1>3. [waiting[e] EXCEPT ![u] = n] \in [Users -> 0..MaxClock]
    BY <1>1
  <1>4. waiting' \in [Events -> [Users -> 0..MaxClock]]
    BY <1>1, <1>2, <1>3
  <1>5. waiting'[e] = [waiting[e] EXCEPT ![u] = n] /\ \A f \in Events : f # e => waiting'[f] = waiting[f]
    BY <1>2
  <1> QED BY <1>1, <1>4, <1>5

\* Control operators keep the types of the local variables.
LEMMA ReturnType ==
    ASSUME LocalsTypeOK, LocalsFit, NEW p \in Procs, Return(p)
    PROVE  /\ LocalsTypeOK' /\ LocalsFit'
           /\ \A q \in Procs : pc'[q] \in {pc[q], "idle"}
  <1> USE FlowAssumption
  <1>1. LocalsTypeOK'
    BY DEF LocalsTypeOK, Return, NoSkips, PCs
  <1>2. LocalsFit' /\ \A q \in Procs : pc'[q] \in {pc[q], "idle"}
    BY DEF LocalsTypeOK, LocalsFit, Return, ReleasePcs
  <1> QED BY <1>1, <1>2

\* A handler that goes on keeps its variables in order.
LEMMA GotoType ==
    ASSUME LocalsTypeOK, LocalsFit, NEW p \in Procs, pc[p] # "idle",
           NEW label \in {"leave", "restore", "pop", "clear", "sell", "forget", "requeue", "hold"},
           label = "leave" => pc[p] = "reserve",
           label = "hold" => pc[p] = "check",
           label \in ReleasePcs => pc[p] \in ReleasePcs,
           Goto(p, label)
    PROVE  /\ LocalsTypeOK' /\ LocalsFit'
           /\ \A q \in Procs : pc'[q] \in {pc[q], label}
  <1>1. LocalsTypeOK'
    BY DEF LocalsTypeOK, Goto, PCs, ReleasePcs
  <1>2. LocalsFit' /\ \A q \in Procs : pc'[q] \in {pc[q], label}
    BY DEF LocalsTypeOK, LocalsFit, Goto, ReleasePcs
  <1> QED BY <1>1, <1>2

\* So does one that leaves the offering loop, for the finally block or for good.
LEMMA EndReleaseType ==
    ASSUME LocalsTypeOK, LocalsFit, NEW p \in Procs, pc[p] \in ReleasePcs, EndRelease(p)
    PROVE  /\ LocalsTypeOK' /\ LocalsFit'
           /\ \A q \in Procs : pc'[q] \in {pc[q], "idle", "requeue"}
  <1>1. CASE Return(p)
    BY <1>1, ReturnType
  <1>2. CASE Goto(p, "requeue")
    BY <1>2, GotoType DEF ReleasePcs
  <1> QED BY <1>1, <1>2 DEF EndRelease

\* And one that an idle process takes up.
LEMMA StartType ==
    ASSUME LocalsTypeOK, LocalsFit, NEW p \in Procs,
           NEW label \in {"reserve", "join", "count", "offer", "paid"},
           NEW e \in Events, NEW u \in Users \cup {Nil}, NEW s \in Seats \cup {Nil},
           label \in {"reserve", "join"} => u \in Users,
           label \in {"reserve", "offer", "paid"} => s \in Seats,
           Start(p, label, e, u, s)
    PROVE  /\ LocalsTypeOK' /\ LocalsFit'
           /\ \A q \in Procs : pc'[q] \in {pc[q], label}
  <1>1. LocalsTypeOK'
    BY DEF LocalsTypeOK, Start, PCs, ReleasePcs
  <1>2. LocalsFit' /\ \A q \in Procs : pc'[q] \in {pc[q], label}
    BY DEF LocalsTypeOK, LocalsFit, Start, ReleasePcs
  <1> QED BY <1>1, <1>2

\* A request that starts keeps the invariant of Redis and the local variables.
LEMMA RequestType ==
    ASSUME LedgerTypeOK, BookingsFit, RedisInv, NEW p \in Procs, Request(p)
    PROVE  RedisInv'
  <1> USE DEF RedisInv, tableVars
  <1>1. CASE \E e \in Events, u \in Users, s \in Seats : TakeSeat(p, e, u, s)
    <2>1. PICK e \in Events, u \in Users, s \in Seats : TakeSeat(p, e, u, s)
      BY <1>1
    <2>2. LocalsTypeOK' /\ LocalsFit' /\ \A q \in Procs : pc'[q] \in {pc[q], "reserve"}
      BY <2>1, StartType DEF TakeSeat
    <2>3. RedisTypeOK'
      BY <2>1 DEF TakeSeat, CanTake, RedisTypeOK
    <2> QED BY <2>1, <2>2, <2>3 DEF TakeSeat, faultVars, RebuildMeansLost
  <1>2. CASE \E e \in Events, u \in Users : FindSoldOut(p, e, u)
    <2>1. PICK e \in Events, u \in Users : FindSoldOut(p, e, u)
      BY <1>2
    <2>2. LocalsTypeOK' /\ LocalsFit' /\ \A q \in Procs : pc'[q] \in {pc[q], "join"}
      BY <2>1, StartType DEF FindSoldOut
    <2> QED BY <2>1, <2>2 DEF FindSoldOut, redisVars, faultVars, RedisTypeOK, RebuildMeansLost
  <1>3. CASE \E e \in Events : FindNoCounter(p, e)
    <2>1. PICK e \in Events : FindNoCounter(p, e)
      BY <1>3
    <2>2. LocalsTypeOK' /\ LocalsFit'
      BY <2>1, StartType DEF FindNoCounter
    <2> QED BY <2>1, <2>2 DEF FindNoCounter, redisVars, faultVars, RedisTypeOK, RebuildMeansLost
  <1>4. CASE \E b \in Bookings : \/ \E u \in Users : CancelBooking(p, b, u)
                                \/ FailPayment(p, b) \/ PayBooking(p, b) \/ ExpireHold(p, b)
    <2>1. PICK b \in Bookings : \/ \E u \in Users : CancelBooking(p, b, u)
                              \/ FailPayment(p, b) \/ PayBooking(p, b) \/ ExpireHold(p, b)
      BY <1>4
    <2>2. bseat[b] \in Seats /\ bevent[b] \in Events
      BY <2>1, RowHasSeat DEF CancelBooking, FailPayment, PayBooking, ExpireHold, Cancel, Compensate,
         Confirm, Expire, Transition, ActiveStatus, BookingsFit
    <2>3. PICK label \in {"offer", "paid"} : Start(p, label, bevent[b], Nil, bseat[b])
      BY <2>1 DEF CancelBooking, FailPayment, PayBooking, ExpireHold
    <2>4. LocalsTypeOK' /\ LocalsFit' /\ \A q \in Procs : pc'[q] \in {pc[q], label}
      BY <2>2, <2>3, StartType
    <2>5. UNCHANGED <<bevent, redisVars, faultVars>>
      BY <2>1 DEF CancelBooking, FailPayment, PayBooking, ExpireHold
    <2> QED BY <2>3, <2>4, <2>5 DEF redisVars, faultVars, RedisTypeOK, RebuildMeansLost
  <1> QED BY <1>1, <1>2, <1>3, <1>4 DEF Request

\* A handler's next step keeps it.
LEMMA StepType ==
    ASSUME RedisInv, NEW p \in Procs, Step(p)
    PROVE  RedisInv'
  <1> USE FlowAssumption DEF RedisInv, At, faultVars, redisVars, tableVars
  <1>1. CASE Join(p)
    <2>1. LocalsTypeOK' /\ LocalsFit' /\ \A q \in Procs : pc'[q] \in {pc[q], "idle"}
      BY <1>1, ReturnType DEF Join
    <2>2. pevent[p] \in Events /\ puser[p] \in Users
      BY <1>1 DEF Join, LocalsFit
    <2>3. RedisTypeOK'
      <3>1. CASE waiting[pevent[p]][puser[p]] = 0
        <4>1. clock' \in 0..MaxClock
          BY <1>1, <3>1 DEF Join, RedisTypeOK
        <4> QED BY <1>1, <2>2, <3>1, <4>1, PlaceWritten DEF Join, RedisTypeOK
      <3>2. CASE waiting[pevent[p]][puser[p]] # 0
        BY <1>1, <3>2 DEF Join, RedisTypeOK
      <3> QED BY <3>1, <3>2
    <2> QED BY <1>1, <2>1, <2>3 DEF Join, RebuildMeansLost
  <1>2. CASE CountSeats(p)
    <2>1. Cardinality(AvailableSeats \cap SeatsOf(pevent[p])) \in Nat
      BY FS_Subset, FS_CardinalityType DEF AvailableSeats
    <2>2. LocalsTypeOK'
      BY <1>2, <2>1 DEF CountSeats, LocalsTypeOK, PCs
    <2>3. LocalsFit' /\ ~intact
      BY <1>2 DEF CountSeats, LocalsTypeOK, LocalsFit, ReleasePcs, RebuildMeansLost
    <2> QED BY <1>2, <2>2, <2>3 DEF CountSeats, RedisTypeOK, RebuildMeansLost
  <1>3. CASE SetCounter(p)
    BY <1>3, ReturnType DEF SetCounter, RedisTypeOK, RebuildMeansLost, LocalsTypeOK, LocalsFit
  <1>4. CASE \E b \in Bookings : ReserveSeat(p, b)
    <2>1. LocalsTypeOK' /\ LocalsFit' /\ \A q \in Procs : pc'[q] \in {pc[q], "leave"}
      BY <1>4, GotoType DEF ReserveSeat, ReleasePcs
    <2>2. RedisTypeOK'
      BY <1>4 DEF ReserveSeat, Insert, LocalsFit, RedisTypeOK
    <2> QED BY <1>4, <2>1, <2>2 DEF ReserveSeat, RebuildMeansLost
  <1>5. CASE ReserveFails(p)
    BY <1>5, GotoType DEF ReserveFails, RedisTypeOK, RebuildMeansLost, ReleasePcs
  <1>6. CASE Restore(p)
    BY <1>6, ReturnType DEF Restore, Increment, LocalsFit, RedisTypeOK, RebuildMeansLost
  <1>7. CASE Leave(p)
    <2>1. LocalsTypeOK' /\ LocalsFit' /\ \A q \in Procs : pc'[q] \in {pc[q], "idle"}
      BY <1>7, ReturnType DEF Leave
    <2>2. RedisTypeOK'
      <3>1. pevent[p] \in Events /\ puser[p] \in Users /\ 0 \in 0..MaxClock
        BY <1>7 DEF Leave, LocalsFit
      <3> QED BY <1>7, <3>1, PlaceWritten DEF Leave, RedisTypeOK
    <2> QED BY <1>7, <2>1, <2>2 DEF Leave, RebuildMeansLost
  <1>8. CASE DeleteOffers(p)
    <2>1. LocalsTypeOK' /\ LocalsFit' /\ \A q \in Procs : pc'[q] \in {pc[q], "idle"}
      BY <1>8, ReturnType DEF DeleteOffers
    <2>2. RedisTypeOK'
      BY <1>8 DEF DeleteOffers, RedisTypeOK
    <2> QED BY <1>8, <2>1, <2>2 DEF DeleteOffers, RebuildMeansLost
  <1>9. CASE CountOffer(p)
    <2>1. PICK label \in {"clear", "pop"} : Goto(p, label)
      BY <1>9 DEF CountOffer
    <2>2. LocalsTypeOK' /\ LocalsFit' /\ \A q \in Procs : pc'[q] \in {pc[q], label}
      BY <1>9, <2>1, GotoType DEF CountOffer, ReleasePcs
    <2>3. RedisTypeOK'
      <3>1. pseat[p] \in Seats
        BY <1>9 DEF CountOffer, LocalsFit, ReleasePcs
      <3>2. offers' \in [Seats -> Nat]
        BY <1>9, <3>1 DEF CountOffer, RedisTypeOK
      <3> QED BY <1>9, <3>2 DEF CountOffer, RedisTypeOK
    <2> QED BY <1>9, <2>2, <2>3 DEF CountOffer, RebuildMeansLost
  <1>10. CASE PopNobody(p)
    <2>1. LocalsTypeOK' /\ LocalsFit' /\ \A q \in Procs : pc'[q] \in {pc[q], "forget"}
      BY <1>10, GotoType DEF PopNobody, ReleasePcs
    <2>2. RedisTypeOK' /\ \A e \in Events : hasCounter[e] => hasCounter'[e]
      BY <1>10 DEF PopNobody, Increment, LocalsFit, RedisTypeOK
    <2> QED BY <1>10, <2>1, <2>2 DEF PopNobody, RebuildMeansLost
  <1>11. CASE GiveUpPopping(p)
    BY <1>11, GotoType DEF GiveUpPopping, RedisTypeOK, RebuildMeansLost, ReleasePcs
  <1>12. CASE ForgetOffers(p)
    BY <1>12, EndReleaseType DEF ForgetOffers, RedisTypeOK, RebuildMeansLost, ReleasePcs
  <1>13. CASE FindOnline(p)
    BY <1>13, GotoType DEF FindOnline, RedisTypeOK, RebuildMeansLost, ReleasePcs
  <1>14. CASE FindOffline(p)
    <2>1. LocalsTypeOK'
      BY <1>14 DEF FindOffline, LocalsTypeOK, PCs, ReleasePcs
    <2>2. LocalsFit'
      BY <1>14 DEF FindOffline, LocalsTypeOK, LocalsFit, ReleasePcs
    <2> QED BY <1>14, <2>1, <2>2 DEF FindOffline, RedisTypeOK, RebuildMeansLost, LocalsTypeOK
  <1>15. CASE \E b \in Bookings : HoldForWaiter(p, b)
    BY <1>15, EndReleaseType DEF HoldForWaiter, Insert, LocalsFit, RedisTypeOK, RebuildMeansLost, ReleasePcs
  <1>16. CASE HoldFails(p)
    BY <1>16, GotoType DEF HoldFails, RedisTypeOK, RebuildMeansLost, ReleasePcs
  <1>17. CASE ClearOffers(p)
    BY <1>17, GotoType DEF ClearOffers, RedisTypeOK, RebuildMeansLost, ReleasePcs
  <1>18. CASE Sell(p)
    <2>1. /\ LocalsTypeOK' /\ LocalsFit'
          /\ \A q \in Procs : pc'[q] \in {pc[q], "idle", "requeue"}
      BY <1>18, EndReleaseType DEF Sell, ReleasePcs
    <2>2. RedisTypeOK' /\ \A e \in Events : hasCounter[e] => hasCounter'[e]
      BY <1>18 DEF Sell, Increment, LocalsFit, RedisTypeOK
    <2> QED BY <1>18, <2>1, <2>2 DEF Sell, RebuildMeansLost
  <1>19. CASE \E u \in Users : PopWaiter(p, u)
    <2>1. PICK u \in Users : PopWaiter(p, u)
      BY <1>19
    <2>2. /\ pevent[p] \in Events /\ 0 \in 0..MaxClock
          /\ waiting[pevent[p]][u] \in 0..MaxClock
      BY <2>1 DEF PopWaiter, LocalsFit, RedisTypeOK
    <2>3. LocalsTypeOK'
      BY <2>1, <2>2 DEF PopWaiter, MayPop, LocalsTypeOK, PCs, ReleasePcs
    <2>4. LocalsFit'
      BY <2>1 DEF PopWaiter, LocalsTypeOK, LocalsFit, ReleasePcs
    <2>5. RedisTypeOK'
      BY <2>1, <2>2, PlaceWritten DEF PopWaiter, RedisTypeOK
    <2> QED BY <2>1, <2>3, <2>4, <2>5 DEF PopWaiter, RebuildMeansLost, LocalsTypeOK
  <1>20. CASE \E u \in Users : Requeue(p, u)
    <2>1. PICK u \in Users : Requeue(p, u)
      BY <1>20
    <2>2. RedisTypeOK'
      <3> DEFINE n == IF waiting[pevent[p]][u] = 0 THEN skipped[p][u] ELSE waiting[pevent[p]][u]
      <3>1. pevent[p] \in Events /\ n \in 0..MaxClock
        BY <2>1 DEF Requeue, LocalsFit, LocalsTypeOK, RedisTypeOK
      <3>2. waiting' = [waiting EXCEPT ![pevent[p]][u] = n]
        BY <2>1 DEF Requeue
      <3> HIDE DEF n
      <3> QED BY <2>1, <3>1, <3>2, PlaceWritten DEF Requeue, RedisTypeOK
    <2>3. CASE Return(p)
      BY <2>1, <2>2, <2>3, ReturnType DEF Requeue, RebuildMeansLost
    <2>4. CASE ~Return(p)
      <3>1. LocalsTypeOK'
        BY <2>1, <2>4 DEF Requeue, LocalsTypeOK
      <3>2. LocalsFit'
        BY <2>1, <2>4 DEF Requeue, LocalsFit
      <3> QED BY <2>1, <2>2, <2>4, <3>1, <3>2 DEF Requeue, RebuildMeansLost
    <2> QED BY <2>3, <2>4
  <1> QED BY <1>1, <1>2, <1>3, <1>4, <1>5, <1>6, <1>7, <1>8, <1>9, <1>10, <1>11, <1>12, <1>13, <1>14,
             <1>15, <1>16, <1>17, <1>18, <1>19, <1>20 DEF Step

\* A fault of a handler keeps it.
LEMMA FailureType ==
    ASSUME RedisInv, NEW p \in Procs, Failure(p)
    PROVE  RedisInv'
  <1> USE FlowAssumption DEF RedisInv, At, Fault, redisVars, tableVars, RebuildMeansLost
  <1>1. CASE \E b \in Bookings : ReserveUnknown(p, b)
    BY <1>1, GotoType DEF ReserveUnknown, Insert, LocalsFit, RedisTypeOK, ReleasePcs
  <1>2. CASE \E b \in Bookings : HoldUnknown(p, b)
    <2>1. LocalsTypeOK' /\ LocalsFit' /\ \A q \in Procs : pc'[q] \in {pc[q], "clear"}
      BY <1>2, GotoType DEF HoldUnknown, ReleasePcs
    <2>2. RedisTypeOK'
      BY <1>2 DEF HoldUnknown, Insert, LocalsFit, ReleasePcs, RedisTypeOK
    <2> QED BY <1>2, <2>1, <2>2 DEF HoldUnknown
  <1>3. CASE ReleaseRejects(p)
    BY <1>3, EndReleaseType DEF ReleaseRejects, RedisTypeOK, ReleasePcs
  <1>4. CASE Crash(p)
    BY <1>4, ReturnType DEF Crash, RedisTypeOK
  <1> QED BY <1>1, <1>2, <1>3, <1>4 DEF Failure

\* Only an insertion gives a booking its event.
LEMMA BookingsFitStep ==
    ASSUME LedgerTypeOK, BookingsFit, RedisInv, [Next]_vars
    PROVE  BookingsFit'
  <1> USE DEF BookingsFit
  <1>1. ASSUME NEW p \in Procs, NEW b \in Bookings, Insert(p, b), pc[p] # "idle" PROVE BookingsFit'
    BY <1>1 DEF Insert, Reserve, RedisInv, RedisTypeOK, LocalsFit, LedgerTypeOK
  <1>2. CASE UNCHANGED tableVars
    BY <1>2 DEF tableVars, ledgerVars
  <1>3. CASE \E p \in Procs : Step(p)
    BY <1>1, <1>2, <1>3 DEF Step, At, ReserveSeat, HoldForWaiter, Join, CountSeats, SetCounter, ReserveFails,
       Restore, Leave, DeleteOffers, CountOffer, PopNobody, GiveUpPopping, ForgetOffers, FindOnline,
       FindOffline, HoldFails, ClearOffers, Sell, PopWaiter, Requeue
  <1>4. CASE \E p \in Procs : Request(p)
    <2>1. CASE \E b \in Bookings, from \in ActiveStatus, to \in BookingStatus :
                 Transition(b, from, to, "available") /\ bevent' = bevent
      BY <2>1 DEF Transition, LedgerTypeOK, ActiveStatus
    <2>2. CASE \E b \in Bookings : Confirm(b) /\ bevent' = bevent
      BY <2>2 DEF Confirm, Transition, LedgerTypeOK
    <2> QED BY <1>2, <1>4, <2>1, <2>2 DEF Request, TakeSeat, FindSoldOut, FindNoCounter, CancelBooking,
               FailPayment, PayBooking, ExpireHold, Cancel, Compensate, Expire, ActiveStatus, BookingStatus
  <1>5. CASE \E p \in Procs : Failure(p)
    BY <1>1, <1>2, <1>5 DEF Failure, ReserveUnknown, HoldUnknown, ReleaseRejects, Crash, At
  <1> QED BY <1>2, <1>3, <1>4, <1>5 DEF Next, LoseRedis, vars

\* The invariant is inductive.
LEMMA FlowInvStep == FlowInv /\ [Next]_vars => FlowInv'
  <1> SUFFICES ASSUME FlowInv, [Next]_vars PROVE FlowInv'
    OBVIOUS
  <1>1. LedgerInv'
    BY FlowLedgerStep, LedgerStepInv DEF FlowInv
  <1>2. RedisInv /\ LedgerTypeOK
    BY DEF FlowInv, RedisInv, LedgerInv
  <1>3. BookingsFit'
    BY <1>2, BookingsFitStep DEF FlowInv
  <1>4. RedisInv'
    <2>1. CASE \E p \in Procs : Step(p) \/ Request(p) \/ Failure(p)
      BY <1>2, <2>1, StepType, RequestType, FailureType DEF FlowInv
    <2>2. CASE LoseRedis
      <3> USE FlowAssumption DEF RedisInv
      <3>1. RedisTypeOK'
        <4>1. waiting' \in [Events -> [Users -> 0..MaxClock]] /\ offers' \in [Seats -> Nat]
          BY <2>2 DEF LoseRedis, Nobody, NoSkips
        <4>2. counter' \in [Events -> Nat] /\ hasCounter' \in [Events -> BOOLEAN]
          BY <2>2 DEF LoseRedis
        <4> QED BY <1>2, <2>2, <4>1, <4>2 DEF LoseRedis, tableVars, RedisTypeOK
      <3>2. LocalsTypeOK' /\ LocalsFit'
        BY <1>2, <2>2 DEF LoseRedis, localVars, LocalsTypeOK, LocalsFit
      <3>3. faults' \in 0..MaxFaults
        BY <1>2, <2>2 DEF LoseRedis, Fault
      <3>4. intact' \in BOOLEAN /\ RebuildMeansLost'
        BY <2>2 DEF LoseRedis, RebuildMeansLost
      <3> QED BY <3>1, <3>2, <3>3, <3>4
    <2>3. CASE UNCHANGED vars
      BY <1>2, <2>3 DEF vars, tableVars, redisVars, localVars, faultVars, RedisInv, RedisTypeOK, LocalsTypeOK,
         LocalsFit, RebuildMeansLost
    <2> QED BY <2>1, <2>2, <2>3 DEF Next
  <1> QED BY <1>1, <1>3, <1>4 DEF FlowInv, RedisInv

\* Hence it always holds.
LEMMA FlowInvariant == Spec => []FlowInv
  <1>1. Init => FlowInv
    BY FlowInit
  <1>2. FlowInv /\ [Next]_vars => FlowInv'
    BY FlowInvStep
  <1> QED BY <1>1, <1>2, PTL DEF Spec

\* Redis and the handlers' locals hold what the code expects of them; the
\* counter is never negative.
THEOREM FlowTypeCorrect == Spec => []FlowTypeOK
  <1>1. FlowInv => FlowTypeOK
    BY DEF FlowInv, LedgerInv, FlowTypeOK
  <1> QED BY <1>1, FlowInvariant, PTL

\* So all that happens to the tables is the ledger's.
LEMMA FlowIsLedger == Spec => LedgerSpec
  <1>1. Init => LedgerInit
    BY DEF Init
  <1>2. FlowInv /\ [Next]_vars => [LedgerNext]_ledgerVars
    BY FlowLedgerStep DEF FlowInv
  <1> QED BY <1>1, <1>2, FlowInvariant, PTL DEF Spec, LedgerSpec

\* Whatever the handlers and Redis do, the seats stay consistent with the
\* bookings and no seat is sold twice.
THEOREM SaleAlwaysSafe == Spec => []SaleIsSafe
  <1>1. LedgerSpec => [](NoDoubleBooking /\ SeatMatchesBooking)
    BY NeverDoubleBooked, SeatsAgree, PTL
  <1> QED BY <1>1, FlowIsLedger, PTL DEF SaleIsSafe

\* And the handlers together carry out an orderly sale: with any interleaving
\* and any faults, nobody loses a seat to somebody else.
THEOREM FlowImplementsSale == Spec => ImplementsSale
  BY FlowIsLedger, LedgerImplementsSale

-----------------------------------------------------------------------------
(* The counters.  Balance(e) is the number of seats on sale that neither    *)
(* e's counter nor a handler in flight accounts for.  A seat that is held    *)
(* counts for the event it is held under, so it is also e's seats less those *)
(* that are held under its name.                                            *)

\* The sets that are counted are finite.
LEMMA Sizes ==
    ASSUME NEW e \in Events
    PROVE  /\ IsFiniteSet(HeldUnder(e)) /\ Cardinality(HeldUnder(e)) \in Nat
           /\ IsFiniteSet(Tokens(e)) /\ Cardinality(Tokens(e)) \in Nat
  BY FlowAssumption, FS_Subset, FS_CardinalityType DEF HeldUnder, Tokens

\* The seats held under an event's name, row by row.
LEMMA HeldUnderRows ==
    ASSUME NEW e, NEW s
    PROVE  s \in HeldUnder(e) <=>
               /\ s \in Seats
               /\ \E b \in Bookings : bseat[b] = s /\ bstatus[b] \in ActiveStatus /\ bevent[b] = e
  BY DEF HeldUnder, Active

\* A seat of e is on sale, lent to another event or held under e, and only one
\* of these.
LEMMA SeatsHeld ==
    ASSUME LedgerInv, BookingsFit, NEW e \in Events
    PROVE  /\ Cardinality(OnSale(e)) \in Nat /\ Cardinality(Lent(e)) \in Nat /\ Cardinality(Borrowed(e)) \in Nat
           /\ Cardinality(OnSale(e)) + Cardinality(Lent(e)) - Cardinality(Borrowed(e))
               = Cardinality(SeatsOf(e)) - Cardinality(HeldUnder(e))
  <1> USE FlowAssumption
  <1> DEFINE Own == SeatsOf(e) \cap HeldUnder(e)
  <1>1. ASSUME NEW s \in Seats PROVE seat[s] = "available" <=> \A f \in Events : s \notin HeldUnder(f)
    <2>1. ASSUME NEW f \in Events, seat[s] = "available" PROVE s \notin HeldUnder(f)
      BY <2>1, HeldUnderRows DEF LedgerInv, HeldSeats, ActiveStatus
    <2>2. ASSUME seat[s] # "available" PROVE \E f \in Events : s \in HeldUnder(f)
      <3>1. PICK b \in Bookings : bseat[b] = s /\ bstatus[b] \in ActiveStatus
        BY <2>2 DEF LedgerInv, HeldSeats
      <3>2. bevent[b] \in Events
        BY <3>1 DEF BookingsFit, ActiveStatus
      <3>3. s \in HeldUnder(bevent[b])
        BY <3>1, HeldUnderRows
      <3> QED BY <3>2, <3>3
    <2> QED BY <2>1, <2>2
  <1>2. \A s, f : s \in HeldUnder(e) /\ s \in HeldUnder(f) => f = e
    BY HeldUnderRows DEF LedgerInv, OneHolder
  <1>3. OnSale(e) \cap Lent(e) = {}
    BY <1>1 DEF OnSale, Lent, AvailableSeats
  <1>4. OnSale(e) \cup Lent(e) = SeatsOf(e) \ Own
    BY <1>1, <1>2 DEF OnSale, Lent, AvailableSeats, SeatsOf
  <1>5. IsFiniteSet(OnSale(e)) /\ IsFiniteSet(Lent(e)) /\ IsFiniteSet(HeldUnder(e)) /\ IsFiniteSet(SeatsOf(e))
    BY FS_Subset, Sizes, Halls DEF OnSale, Lent, SeatsOf
  <1>6. Cardinality(OnSale(e) \cup Lent(e)) = Cardinality(OnSale(e)) + Cardinality(Lent(e))
    <2>1. Cardinality(OnSale(e) \cup Lent(e))
            = Cardinality(OnSale(e)) + Cardinality(Lent(e)) - Cardinality(OnSale(e) \cap Lent(e))
      BY <1>5, FS_Union
    <2>2. Cardinality(OnSale(e) \cap Lent(e)) = 0
      BY <1>3, FS_EmptySet
    <2>3. Cardinality(OnSale(e)) \in Nat /\ Cardinality(Lent(e)) \in Nat
      BY <1>5, FS_CardinalityType
    <2> QED BY <2>1, <2>2, <2>3
  <1>7. Cardinality(SeatsOf(e) \ Own) = Cardinality(SeatsOf(e)) - Cardinality(Own)
    <2>1. SeatsOf(e) \cap Own = Own
      OBVIOUS
    <2> QED BY <1>5, <2>1, FS_Difference
  <1>8. Cardinality(Borrowed(e)) = Cardinality(HeldUnder(e)) - Cardinality(Own)
    <2>1. HeldUnder(e) \cap SeatsOf(e) = Own
      OBVIOUS
    <2>2. Cardinality(HeldUnder(e) \ SeatsOf(e))
            = Cardinality(HeldUnder(e)) - Cardinality(HeldUnder(e) \cap SeatsOf(e))
      BY <1>5, FS_Difference
    <2> QED BY <2>1, <2>2 DEF Borrowed
  <1>9. /\ Cardinality(Own) \in Nat /\ Cardinality(SeatsOf(e)) \in Nat /\ Cardinality(HeldUnder(e)) \in Nat
        /\ Cardinality(OnSale(e)) \in Nat /\ Cardinality(Lent(e)) \in Nat /\ Cardinality(Borrowed(e)) \in Nat
    <2>1. IsFiniteSet(Own) /\ IsFiniteSet(Borrowed(e))
      BY <1>5, FS_Subset DEF Borrowed
    <2> HIDE DEF Own
    <2> QED BY <1>5, <2>1, FS_CardinalityType
  <1> HIDE DEF Own
  <1> QED BY <1>4, <1>6, <1>7, <1>8, <1>9

\* The balance from the seats held under the event's name.
BalanceFact ==
    \A e \in Events :
        /\ Balance(e) \in Int
        /\ Balance(e) = Cardinality(SeatsOf(e)) - Cardinality(HeldUnder(e)) - counter[e] - Cardinality(Tokens(e))

LEMMA BalanceIs == FlowInv => BalanceFact
  <1> SUFFICES ASSUME FlowInv, NEW e \in Events
               PROVE  /\ Balance(e) \in Int
                      /\ Balance(e) = Cardinality(SeatsOf(e)) - Cardinality(HeldUnder(e)) - counter[e]
                                          - Cardinality(Tokens(e))
    BY DEF BalanceFact
  <1>1. counter[e] \in Nat
    BY DEF FlowInv, RedisTypeOK
  <1>2. /\ Cardinality(OnSale(e)) \in Nat /\ Cardinality(Lent(e)) \in Nat /\ Cardinality(Borrowed(e)) \in Nat
        /\ Cardinality(OnSale(e)) + Cardinality(Lent(e)) - Cardinality(Borrowed(e))
          = Cardinality(SeatsOf(e)) - Cardinality(HeldUnder(e))
    BY SeatsHeld DEF FlowInv
  <1>3. Balance(e) = Cardinality(SeatsOf(e)) - Cardinality(HeldUnder(e)) - counter[e] - Cardinality(Tokens(e))
    BY <1>1, <1>2, Sizes, Halls DEF Balance
  <1> QED BY <1>1, <1>3, Sizes, Halls

LEMMA BalanceWillBe == FlowInv' => BalanceFact'
  BY BalanceIs, PTL

One(yes) == IF yes THEN 1 ELSE 0

\* Taking an available seat holds it under the handler's event.
LEMMA InsertHolds ==
    ASSUME FlowInv, NEW p \in Procs, NEW b \in Bookings, Insert(p, b), pseat[p] \in Seats, NEW e \in Events
    PROVE  Cardinality(HeldUnder(e)') = Cardinality(HeldUnder(e)) + One(pevent[p] = e)
  <1> DEFINE s == pseat[p]
  <1>1. s \notin HeldUnder(e)
    BY HeldUnderRows DEF Insert, Reserve, MayReserve, FlowInv, LedgerInv, HeldSeats, ActiveStatus
  <1>2. /\ bstatus[b] = "none" /\ bstatus'[b] = "pending" /\ bseat'[b] = s /\ bevent'[b] = pevent[p]
        /\ \A c \in Bookings : c # b => bstatus'[c] = bstatus[c] /\ bseat'[c] = bseat[c] /\ bevent'[c] = bevent[c]
    BY DEF Insert, Reserve, FlowInv, LedgerInv, LedgerTypeOK, RedisTypeOK
  <1> HIDE DEF s
  <1>3. \A t : t \in HeldUnder(e)' <=> t \in HeldUnder(e) \/ (t = s /\ pevent[p] = e)
    <2>1. SUFFICES ASSUME NEW t \in Seats
                   PROVE  t \in HeldUnder(e)' <=> t \in HeldUnder(e) \/ (t = s /\ pevent[p] = e)
      BY DEF s, HeldUnder
    <2>2. t \in HeldUnder(e)' <=>
            \E c \in Bookings : bseat'[c] = t /\ bstatus'[c] \in ActiveStatus /\ bevent'[c] = e
      BY DEF HeldUnder, Active
    <2> QED BY <1>2, <2>2, HeldUnderRows DEF ActiveStatus
  <1>4. CASE pevent[p] = e
    <2>1. HeldUnder(e)' = HeldUnder(e) \cup {s}
      BY <1>3, <1>4
    <2> QED BY <1>1, <1>4, <2>1, Sizes, FS_AddElement DEF One
  <1>5. CASE pevent[p] # e
    <2>1. HeldUnder(e)' = HeldUnder(e)
      BY <1>3, <1>5
    <2> QED BY <1>5, <2>1, Sizes DEF One
  <1> QED BY <1>4, <1>5

\* The end of an active booking gives its seat back to the event it named.
LEMMA FreeingReleases ==
    ASSUME FlowInv, NEW b \in Bookings, NEW from \in ActiveStatus, NEW to \in BookingStatus \ ActiveStatus,
           Transition(b, from, to, "available"), bevent' = bevent, NEW e \in Events
    PROVE  Cardinality(HeldUnder(e)') = Cardinality(HeldUnder(e)) - One(bevent[b] = e)
  <1> DEFINE s == bseat[b]
  <1>1. /\ bstatus[b] \in ActiveStatus /\ bstatus'[b] \notin ActiveStatus /\ bseat' = bseat
        /\ \A c \in Bookings : c # b => bstatus'[c] = bstatus[c]
    BY DEF Transition, FlowInv, LedgerInv, LedgerTypeOK
  <1>2. s \in Seats
    BY RowHasSeat DEF FlowInv, LedgerInv, Transition, ActiveStatus
  <1>3. \A c \in Bookings : bstatus[c] \in ActiveStatus /\ bseat[c] = s => c = b
    BY <1>1 DEF FlowInv, LedgerInv, OneHolder
  <1> HIDE DEF s
  <1>4. \A t : t \in HeldUnder(e)' <=> t \in HeldUnder(e) /\ t # s
    <2>1. SUFFICES ASSUME NEW t \in Seats
                   PROVE  t \in HeldUnder(e)' <=> t \in HeldUnder(e) /\ t # s
      BY DEF HeldUnder
    <2>2. t \in HeldUnder(e)' <=>
            \E c \in Bookings : bseat[c] = t /\ bstatus'[c] \in ActiveStatus /\ bevent[c] = e
      BY <1>1 DEF HeldUnder, Active
    <2>3. bseat[b] = s
      BY DEF s
    <2> QED BY <1>1, <1>3, <2>2, <2>3, HeldUnderRows
  <1>5. s \in HeldUnder(e) <=> bevent[b] = e
    BY <1>1, <1>2, <1>3, HeldUnderRows DEF s
  <1>6. HeldUnder(e)' = HeldUnder(e) \ {s}
    BY <1>4
  <1>7. Cardinality(HeldUnder(e) \ {s})
          = IF s \in HeldUnder(e) THEN Cardinality(HeldUnder(e)) - 1 ELSE Cardinality(HeldUnder(e))
    BY Sizes, FS_RemoveElement
  <1> QED BY <1>5, <1>6, <1>7, Sizes DEF One

\* A payment changes nothing about who holds what.
LEMMA PayingHolds ==
    ASSUME FlowInv, NEW b \in Bookings, Confirm(b), bevent' = bevent, NEW e \in Events
    PROVE  HeldUnder(e)' = HeldUnder(e)
  <1>1. /\ bstatus[b] = "pending" /\ bstatus'[b] = "confirmed" /\ bseat' = bseat
        /\ \A c \in Bookings : c # b => bstatus'[c] = bstatus[c]
    BY DEF Confirm, Transition, FlowInv, LedgerInv, LedgerTypeOK
  <1>2. \A c \in Bookings : bstatus'[c] \in ActiveStatus <=> bstatus[c] \in ActiveStatus
    BY <1>1 DEF ActiveStatus
  <1> QED BY <1>1, <1>2 DEF HeldUnder, Active

\* Nor does a step that leaves the bookings alone.
LEMMA HeldSame ==
    ASSUME UNCHANGED tableVars, NEW e \in Events
    PROVE  HeldUnder(e)' = HeldUnder(e)
  BY DEF tableVars, ledgerVars, HeldUnder, Active

\* A handler at label, for event f, owes event e a seat.
Owes(label, f, e) == One(label \in TokenPcs /\ f = e)

Moves(p, label, f) ==
    /\ pc' = [pc EXCEPT ![p] = label]
    /\ pevent' = [pevent EXCEPT ![p] = f]

\* What moving one handler does to the number of handlers that owe e a seat.
LEMMA TokensMove ==
    ASSUME LocalsTypeOK, NEW p \in Procs, NEW label, NEW f, Moves(p, label, f), NEW e \in Events
    PROVE  Cardinality(Tokens(e)') = Cardinality(Tokens(e)) + Owes(label, f, e) - Owes(pc[p], pevent[p], e)
  <1> USE Sizes DEF Owes, One
  <1> DEFINE Yes == label \in TokenPcs /\ f = e
  <1>1. Tokens(e)' = IF Yes THEN Tokens(e) \cup {p} ELSE Tokens(e) \ {p}
    BY DEF Tokens, LocalsTypeOK, Moves
  <1>2. p \in Tokens(e) <=> pc[p] \in TokenPcs /\ pevent[p] = e
    BY DEF Tokens
  <1>3. CASE Yes
    <2>1. Tokens(e)' = Tokens(e) \cup {p}
      BY <1>1, <1>3
    <2>2. Cardinality(Tokens(e) \cup {p})
            = IF p \in Tokens(e) THEN Cardinality(Tokens(e)) ELSE Cardinality(Tokens(e)) + 1
      BY FS_AddElement
    <2> QED BY <1>2, <1>3, <2>1, <2>2
  <1>4. CASE ~Yes
    <2>1. CASE p \in Tokens(e)
      <3>1. Tokens(e)' = Tokens(e) \ {p}
        BY <1>1, <1>4
      <3>2. Cardinality(Tokens(e) \ {p}) = Cardinality(Tokens(e)) - 1
        BY <2>1, FS_RemoveElement
      <3> QED BY <1>2, <1>4, <2>1, <3>1, <3>2
    <2>2. CASE p \notin Tokens(e)
      <3>1. Tokens(e)' = Tokens(e)
        BY <1>1, <1>4, <2>2
      <3> QED BY <1>2, <1>4, <2>2, <3>1
    <2> QED BY <2>1, <2>2
  <1> QED BY <1>3, <1>4

\* The balance of e changes with the seats held under e, with e's counter and
\* with what a handler owes it, which is old before and new after the step.
Shift(e, new, old) ==
    /\ Balance(e) \in Int
    /\ Cardinality(HeldUnder(e)) \in Int /\ Cardinality(HeldUnder(e)') \in Int
    /\ counter[e] \in Int /\ counter'[e] \in Int
    /\ Balance(e)' = Balance(e) - (Cardinality(HeldUnder(e)') - Cardinality(HeldUnder(e)))
                               - (counter'[e] - counter[e]) - new + old

\* The same, with the arithmetic done: how a handler's move shifts the balance
\* of e, given what happens to the seats held under e and to e's counter.
LEMMA BalanceMove ==
    ASSUME FlowInv, FlowInv', NEW p \in Procs, NEW label, NEW f, Moves(p, label, f), NEW e \in Events
    PROVE  Shift(e, Owes(label, f, e), Owes(pc[p], pevent[p], e))
  <1>1. Cardinality(Tokens(e)') = Cardinality(Tokens(e)) + Owes(label, f, e) - Owes(pc[p], pevent[p], e)
    BY TokensMove DEF FlowInv
  <1>2. Owes(label, f, e) \in Int /\ Owes(pc[p], pevent[p], e) \in Int
    BY DEF Owes, One
  <1>3. counter[e] \in Int
    BY DEF FlowInv, RedisTypeOK
  <1>4. /\ Balance(e) \in Int
        /\ Balance(e) = Cardinality(SeatsOf(e)) - Cardinality(HeldUnder(e)) - counter[e] - Cardinality(Tokens(e))
    BY BalanceIs DEF BalanceFact
  <1>5. counter'[e] \in Int /\ Cardinality(HeldUnder(e)') \in Nat
    BY Sizes, FlowAssumption, FS_Subset, FS_CardinalityType DEF FlowInv, RedisTypeOK, HeldUnder
  <1>6. Balance(e)' = Cardinality(SeatsOf(e)) - Cardinality(HeldUnder(e)') - counter'[e] - Cardinality(Tokens(e)')
    BY BalanceWillBe DEF BalanceFact, SeatsOf
  <1> QED BY <1>1, <1>2, <1>3, <1>4, <1>5, <1>6, Sizes, Halls DEF Shift

\* A request that starts takes a seat from the counter for itself, or frees one
\* that it now owes to it.
LEMMA RequestBalance ==
    ASSUME FlowInv, FlowInv', NEW p \in Procs, Request(p), intact, NEW e \in Events
    PROVE  Balance(e)' = Balance(e)
  <1> USE DEF At
  <1>0. pc[p] = "idle" => Owes(pc[p], pevent[p], e) = 0
    BY DEF Owes, One, TokenPcs
  <1>1. CASE \E f \in Events, u \in Users, s \in Seats : TakeSeat(p, f, u, s)
    <2>1. PICK f \in Events, u \in Users, s \in Seats : TakeSeat(p, f, u, s)
      BY <1>1
    <2>2. Moves(p, "reserve", f) /\ pc[p] = "idle" /\ counter' = [counter EXCEPT ![f] = @ - 1]
      BY <2>1 DEF TakeSeat, Start, Moves
    <2>3. counter'[e] = counter[e] + (0 - One(f = e))
      BY <2>2 DEF FlowInv, RedisTypeOK, One
    <2>4. HeldUnder(e)' = HeldUnder(e)
      BY <2>1, HeldSame DEF TakeSeat
    <2>5. Owes("reserve", f, e) = One(f = e) /\ One(f = e) \in Int
      BY DEF Owes, One, TokenPcs
    <2>6. Shift(e, Owes("reserve", f, e), 0)
      BY <1>0, <2>2, BalanceMove
    <2> QED BY <2>3, <2>4, <2>5, <2>6 DEF Shift
  <1>2. CASE \E f \in Events, u \in Users : FindSoldOut(p, f, u)
    <2>1. PICK f \in Events, u \in Users : FindSoldOut(p, f, u)
      BY <1>2
    <2>2. Moves(p, "join", f) /\ pc[p] = "idle" /\ counter' = counter /\ UNCHANGED tableVars
      BY <2>1 DEF FindSoldOut, Start, Moves, redisVars
    <2>3. Owes("join", f, e) = 0
      BY DEF Owes, One, TokenPcs
    <2>4. HeldUnder(e)' = HeldUnder(e)
      BY <2>2, HeldSame
    <2>5. Shift(e, 0, 0)
      BY <1>0, <2>2, <2>3, BalanceMove
    <2> QED BY <2>2, <2>4, <2>5 DEF Shift
  <1>3. CASE \E f \in Events : FindNoCounter(p, f)
    BY <1>3 DEF FindNoCounter, RebuildMeansLost, FlowInv
  <1>4. CASE \E b \in Bookings : (\E u \in Users : CancelBooking(p, b, u)) \/ FailPayment(p, b) \/ ExpireHold(p, b)
    <2>1. PICK b \in Bookings : (\E u \in Users : CancelBooking(p, b, u)) \/ FailPayment(p, b) \/ ExpireHold(p, b)
      BY <1>4
    <2>2. /\ Moves(p, "offer", bevent[b]) /\ pc[p] = "idle" /\ counter' = counter /\ bevent' = bevent
          /\ \E from \in ActiveStatus, to \in BookingStatus \ ActiveStatus : Transition(b, from, to, "available")
      BY <2>1 DEF CancelBooking, FailPayment, ExpireHold, Start, Moves, redisVars, Cancel, Compensate,
         Expire, ActiveStatus, BookingStatus
    <2>3. Cardinality(HeldUnder(e)') = Cardinality(HeldUnder(e)) - One(bevent[b] = e)
      BY <2>2, FreeingReleases
    <2>4. Owes("offer", bevent[b], e) = One(bevent[b] = e) /\ One(bevent[b] = e) \in Int
      BY DEF Owes, One, TokenPcs
    <2>5. Shift(e, Owes("offer", bevent[b], e), 0)
      BY <1>0, <2>2, BalanceMove
    <2> QED BY <2>2, <2>3, <2>4, <2>5 DEF Shift
  <1>5. CASE \E b \in Bookings : PayBooking(p, b)
    <2>1. PICK b \in Bookings : PayBooking(p, b)
      BY <1>5
    <2>2. Moves(p, "paid", bevent[b]) /\ pc[p] = "idle" /\ counter' = counter
      BY <2>1 DEF PayBooking, Start, Moves, redisVars
    <2>3. HeldUnder(e)' = HeldUnder(e)
      BY <2>1, PayingHolds DEF PayBooking
    <2>4. Owes("paid", bevent[b], e) = 0
      BY DEF Owes, One, TokenPcs
    <2>5. Shift(e, 0, 0)
      BY <1>0, <2>2, <2>4, BalanceMove
    <2> QED BY <2>2, <2>3, <2>5 DEF Shift
  <1> QED BY <1>1, <1>2, <1>3, <1>4, <1>5 DEF Request

\* A handler's next step settles what it owes, or changes nothing.
LEMMA StepBalance ==
    ASSUME FlowInv, FlowInv', NEW p \in Procs, Step(p), intact, NEW e \in Events
    PROVE  Balance(e)' = Balance(e)
  <1> USE DEF At
  <1> DEFINE CounterStays == UNCHANGED <<tableVars, counter>>
  <1> DEFINE Here == pevent[p]
  <1>1. ASSUME CounterStays, NEW label, NEW f, Moves(p, label, f),
               Owes(label, f, e) = Owes(pc[p], Here, e)
        PROVE  Balance(e)' = Balance(e)
    <2>1. HeldUnder(e)' = HeldUnder(e)
      BY <1>1, HeldSame
    <2>2. Owes(label, f, e) \in Int
      BY DEF Owes, One
    <2>3. Shift(e, Owes(label, f, e), Owes(label, f, e))
      BY <1>1, BalanceMove
    <2> QED BY <1>1, <2>1, <2>2, <2>3 DEF Shift
  <1>2. ASSUME UNCHANGED tableVars, Increment(Here), Here \in Events, NEW label, NEW f, Moves(p, label, f),
               Owes(label, f, e) = 0, pc[p] \in TokenPcs
        PROVE  Balance(e)' = Balance(e)
    <2>1. HeldUnder(e)' = HeldUnder(e)
      BY <1>2, HeldSame
    <2>2. counter'[e] = counter[e] + One(Here = e)
      BY <1>2 DEF Increment, FlowInv, RedisTypeOK, One
    <2>3. Owes(pc[p], Here, e) = One(Here = e) /\ One(Here = e) \in Int
      BY <1>2 DEF Owes, One
    <2>4. Shift(e, 0, One(Here = e))
      BY <1>2, <2>3, BalanceMove
    <2> QED BY <2>1, <2>2, <2>3, <2>4 DEF Shift
  <1>3. ASSUME NEW b \in Bookings, Insert(p, b), pseat[p] \in Seats, counter' = counter,
               NEW label, NEW f, Moves(p, label, f), Owes(label, f, e) = 0, pc[p] \in TokenPcs
        PROVE  Balance(e)' = Balance(e)
    <2>1. Cardinality(HeldUnder(e)') = Cardinality(HeldUnder(e)) + One(Here = e)
      BY <1>3, InsertHolds
    <2>3. Owes(pc[p], Here, e) = One(Here = e) /\ One(Here = e) \in Int
      BY <1>3 DEF Owes, One
    <2>4. Shift(e, 0, One(Here = e))
      BY <1>3, <2>3, BalanceMove
    <2> QED BY <1>3, <2>1, <2>3, <2>4 DEF Shift
  <1>4. /\ Return(p) => Moves(p, "idle", Nil)
        /\ \A label : Goto(p, label) => Moves(p, label, Here)
        /\ EndRelease(p) => Moves(p, "idle", Nil) \/ Moves(p, "requeue", Here)
    BY DEF Return, Goto, EndRelease, Moves, FlowInv, LocalsTypeOK
  <1>5. /\ \A label \in TokenPcs : pc[p] \in TokenPcs => Owes(label, Here, e) = Owes(pc[p], Here, e)
        /\ \A label, f : label \notin TokenPcs => Owes(label, f, e) = 0
    BY DEF Owes, One
  <1>6. pc[p] # "idle" => Here \in Events
    BY DEF FlowInv, LocalsFit
  <1> HIDE DEF Here
  <1>7. CASE Join(p) \/ Leave(p) \/ DeleteOffers(p)
    <2>1. CounterStays /\ Moves(p, "idle", Nil) /\ pc[p] \notin TokenPcs
      BY <1>4, <1>7 DEF Join, Leave, DeleteOffers, TokenPcs
    <2> QED BY <1>1, <1>5, <2>1 DEF TokenPcs
  <1>8. CASE CountSeats(p) \/ SetCounter(p)
    BY <1>8 DEF CountSeats, SetCounter, RebuildMeansLost, FlowInv
  <1>9. CASE ForgetOffers(p)
    <2>1. CounterStays /\ pc[p] \notin TokenPcs
      BY <1>9 DEF ForgetOffers, TokenPcs
    <2>2. Moves(p, "idle", Nil) \/ Moves(p, "requeue", Here)
      BY <1>4, <1>9 DEF ForgetOffers
    <2> QED BY <1>1, <1>5, <2>1, <2>2 DEF TokenPcs
  <1>10. CASE \E u \in Users : Requeue(p, u)
    <2>1. CounterStays /\ pc[p] = "requeue"
      BY <1>10 DEF Requeue
    <2>2. Moves(p, "idle", Nil) \/ Moves(p, "requeue", Here)
      BY <1>4, <1>10 DEF Requeue, Moves, FlowInv, LocalsTypeOK, Here
    <2> QED BY <1>1, <1>5, <2>1, <2>2 DEF TokenPcs
  <1>11. CASE ReserveFails(p)
    <2>1. CounterStays /\ Moves(p, "restore", Here) /\ pc[p] \in TokenPcs
      BY <1>4, <1>11 DEF ReserveFails, TokenPcs, redisVars
    <2> QED BY <1>1, <1>5, <2>1 DEF TokenPcs
  <1>12. CASE CountOffer(p)
    <2>1. CounterStays /\ (Moves(p, "clear", Here) \/ Moves(p, "pop", Here)) /\ pc[p] \in TokenPcs
      BY <1>4, <1>12 DEF CountOffer, TokenPcs
    <2> QED BY <1>1, <1>5, <2>1 DEF TokenPcs
  <1>13. CASE GiveUpPopping(p) \/ HoldFails(p)
    <2>1. CounterStays /\ Moves(p, "clear", Here) /\ pc[p] \in TokenPcs
      BY <1>4, <1>13 DEF GiveUpPopping, HoldFails, TokenPcs, redisVars
    <2> QED BY <1>1, <1>5, <2>1 DEF TokenPcs
  <1>14. CASE FindOnline(p)
    <2>1. CounterStays /\ Moves(p, "hold", Here) /\ pc[p] \in TokenPcs
      BY <1>4, <1>14 DEF FindOnline, TokenPcs, redisVars
    <2> QED BY <1>1, <1>5, <2>1 DEF TokenPcs
  <1>15. CASE FindOffline(p)
    <2>1. CounterStays /\ Moves(p, "pop", Here) /\ pc[p] \in TokenPcs
      BY <1>15 DEF FindOffline, Moves, TokenPcs, redisVars, FlowInv, LocalsTypeOK, Here
    <2> QED BY <1>1, <1>5, <2>1 DEF TokenPcs
  <1>16. CASE ClearOffers(p)
    <2>1. CounterStays /\ Moves(p, "sell", Here) /\ pc[p] \in TokenPcs
      BY <1>4, <1>16 DEF ClearOffers, TokenPcs
    <2> QED BY <1>1, <1>5, <2>1 DEF TokenPcs
  <1>17. CASE \E u \in Users : PopWaiter(p, u)
    <2>1. CounterStays /\ Moves(p, "check", Here) /\ pc[p] \in TokenPcs
      BY <1>17 DEF PopWaiter, Moves, TokenPcs, FlowInv, LocalsTypeOK, Here
    <2> QED BY <1>1, <1>5, <2>1 DEF TokenPcs
  <1>18. CASE Restore(p) \/ PopNobody(p) \/ Sell(p)
    <2>1. /\ UNCHANGED tableVars /\ Increment(Here) /\ pc[p] \in TokenPcs
          /\ Moves(p, "idle", Nil) \/ Moves(p, "forget", Here) \/ Moves(p, "requeue", Here)
      BY <1>4, <1>18 DEF Restore, PopNobody, Sell, TokenPcs, Here
    <2>2. Here \in Events
      BY <1>6, <1>18 DEF Restore, PopNobody, Sell
    <2> QED BY <1>2, <1>5, <2>1, <2>2 DEF TokenPcs
  <1>19. CASE \E b \in Bookings : ReserveSeat(p, b) \/ HoldForWaiter(p, b)
    <2>1. PICK b \in Bookings : ReserveSeat(p, b) \/ HoldForWaiter(p, b)
      BY <1>19
    <2>2. /\ Insert(p, b) /\ counter' = counter /\ pc[p] \in {"reserve", "hold"}
          /\ Moves(p, "idle", Nil) \/ Moves(p, "leave", Here) \/ Moves(p, "requeue", Here)
      BY <1>4, <2>1 DEF ReserveSeat, HoldForWaiter, redisVars
    <2>3. pseat[p] \in Seats /\ pc[p] \in TokenPcs
      BY <2>2 DEF FlowInv, LocalsFit, ReleasePcs, TokenPcs
    <2> QED BY <1>3, <1>5, <2>2, <2>3 DEF TokenPcs
  <1> QED BY <1>7, <1>8, <1>9, <1>10, <1>11, <1>12, <1>13, <1>14, <1>15, <1>16, <1>17, <1>18, <1>19 DEF Step

\* A fault costs or gains at most one seat of an event.
LEMMA FailureBalance ==
    ASSUME FlowInv, FlowInv', NEW p \in Procs, Failure(p), NEW e \in Events
    PROVE  Balance(e) \in Int /\ Balance(e)' \in {Balance(e) - 1, Balance(e), Balance(e) + 1}
  <1> USE DEF At
  <1>1. \A label, f : Owes(label, f, e) \in {0, 1}
    BY DEF Owes, One
  <1>2. CASE ReleaseRejects(p) \/ Crash(p)
    <2>1. PICK label, f : Moves(p, label, f)
      BY <1>2 DEF ReleaseRejects, Crash, EndRelease, Return, Goto, Moves, FlowInv, LocalsTypeOK
    <2>2. HeldUnder(e)' = HeldUnder(e) /\ counter' = counter
      BY <1>2, HeldSame DEF ReleaseRejects, Crash, redisVars
    <2>3. Shift(e, Owes(label, f, e), Owes(pc[p], pevent[p], e))
      BY <2>1, BalanceMove
    <2> QED BY <1>1, <2>2, <2>3 DEF Shift
  <1>3. CASE \E b \in Bookings : ReserveUnknown(p, b) \/ HoldUnknown(p, b)
    <2>1. PICK b \in Bookings : ReserveUnknown(p, b) \/ HoldUnknown(p, b)
      BY <1>3
    <2>2. PICK label \in TokenPcs : Moves(p, label, pevent[p])
      BY <2>1 DEF ReserveUnknown, HoldUnknown, Goto, Moves, TokenPcs, FlowInv, LocalsTypeOK
    <2>3. pc[p] \in TokenPcs /\ pseat[p] \in Seats /\ Insert(p, b) /\ counter' = counter
      BY <2>1 DEF ReserveUnknown, HoldUnknown, TokenPcs, FlowInv, LocalsFit, ReleasePcs, redisVars
    <2>4. Cardinality(HeldUnder(e)') = Cardinality(HeldUnder(e)) + One(pevent[p] = e)
      BY <2>3, InsertHolds
    <2>5. /\ Owes(label, pevent[p], e) = Owes(pc[p], pevent[p], e)
          /\ One(pevent[p] = e) \in {0, 1} /\ Owes(pc[p], pevent[p], e) \in Int
      BY <2>3 DEF Owes, One
    <2>6. Shift(e, Owes(pc[p], pevent[p], e), Owes(pc[p], pevent[p], e))
      BY <2>2, <2>5, BalanceMove
    <2>7. Balance(e)' = Balance(e) - One(pevent[p] = e) /\ Balance(e) \in Int
      BY <2>3, <2>4, <2>5, <2>6 DEF Shift
    <2> QED BY <2>5, <2>7
  <1> QED BY <1>2, <1>3 DEF Failure

\* Only faults move the balances, each by at most one.
LEMMA CounterStep ==
    ASSUME FlowInv, FlowInv', CounterWithinFaults, [Next]_vars
    PROVE  CounterWithinFaults'
  <1> SUFFICES ASSUME intact', NEW e \in Events PROVE Balance(e)' \in (-faults')..faults'
    BY DEF CounterWithinFaults
  <1>1. ASSUME NEW p \in Procs, Step(p) \/ Request(p) PROVE Balance(e)' \in (-faults')..faults'
    <2>1. faults' = faults /\ intact' = intact
      BY <1>1 DEF Step, Request, Join, CountSeats, SetCounter, ReserveSeat, ReserveFails, Restore, Leave,
         DeleteOffers, CountOffer, PopNobody, GiveUpPopping, ForgetOffers, FindOnline, FindOffline,
         HoldForWaiter, HoldFails, ClearOffers, Sell, PopWaiter, Requeue, TakeSeat, FindSoldOut,
         FindNoCounter, CancelBooking, FailPayment, PayBooking, ExpireHold, faultVars
    <2>2. Balance(e)' = Balance(e)
      BY <1>1, <2>1, StepBalance, RequestBalance
    <2> QED BY <2>1, <2>2 DEF CounterWithinFaults
  <1>2. ASSUME NEW p \in Procs, Failure(p) PROVE Balance(e)' \in (-faults')..faults'
    <2>1. faults' = faults + 1 /\ intact' = intact
      BY <1>2 DEF Failure, ReserveUnknown, HoldUnknown, ReleaseRejects, Crash, Fault
    <2>2. Balance(e) \in Int /\ Balance(e)' \in {Balance(e) - 1, Balance(e), Balance(e) + 1}
      BY <1>2, FailureBalance
    <2>3. Balance(e) \in -faults..faults
      BY <2>1 DEF CounterWithinFaults
    <2> QED BY <2>1, <2>2, <2>3, FlowAssumption DEF FlowInv
  <1>3. CASE LoseRedis
    BY <1>3 DEF LoseRedis
  <1>4. CASE UNCHANGED vars
    <2>1. HeldUnder(e)' = HeldUnder(e) /\ Tokens(e)' = Tokens(e) /\ counter'[e] = counter[e]
      BY <1>4, HeldSame DEF vars, redisVars, localVars, Tokens
    <2>2. Balance(e)' = Balance(e)
      BY <2>1, BalanceIs, BalanceWillBe DEF BalanceFact, SeatsOf
    <2>3. faults' = faults /\ intact' = intact
      BY <1>4 DEF vars, faultVars
    <2> QED BY <2>2, <2>3 DEF CounterWithinFaults
  <1> QED BY <1>1, <1>2, <1>3, <1>4 DEF Next

\* Every event's seat counter is right up to the handlers in flight, the seats
\* lent to and borrowed from other events, and one seat for each fault: for any
\* halls, any number of handlers and any interleaving.
THEOREM CounterAccurate == Spec => []CounterWithinFaults
  <1>1. Init => CounterWithinFaults
    BY FlowInit
  <1>2. FlowInv /\ FlowInv' /\ CounterWithinFaults /\ [Next]_vars => CounterWithinFaults'
    BY CounterStep
  <1> QED BY <1>1, <1>2, FlowInvariant, PTL DEF Spec

\* No booking in force names another event than its seat's.
NothingMixed == \A b \in Bookings : bstatus[b] \in ActiveStatus => bevent[b] = EventOf[bseat[b]]

CountersTrue ==
    faults = 0 /\ NothingMixed =>
        \A e \in Events : counter[e] + Cardinality(Tokens(e)) = Cardinality(OnSale(e))

\* With no fault and as long as no booking in force mixes an event with another
\* event's seat, a counter and the handlers in flight account for exactly the
\* seats that are on sale, also when earlier bookings did mix them.
THEOREM CountersTrueAgain == Spec => [](intact => CountersTrue)
  <1>1. FlowInv /\ CounterWithinFaults => (intact => CountersTrue)
    <2> SUFFICES ASSUME FlowInv, CounterWithinFaults, intact, faults = 0, NothingMixed, NEW e \in Events
                 PROVE  counter[e] + Cardinality(Tokens(e)) = Cardinality(OnSale(e))
      BY DEF CountersTrue
    <2>1. Lent(e) = {} /\ Borrowed(e) = {}
      BY HeldUnderRows DEF NothingMixed, Lent, Borrowed, SeatsOf
    <2>2. Balance(e) = 0
      BY DEF CounterWithinFaults
    <2>3. Cardinality(Lent(e)) = 0 /\ Cardinality(Borrowed(e)) = 0
      BY <2>1, FS_EmptySet
    <2>4. Cardinality(OnSale(e)) \in Nat /\ counter[e] \in Nat
      BY SeatsHeld DEF FlowInv, RedisTypeOK
    <2> QED BY <2>2, <2>3, <2>4, Sizes DEF Balance
  <1> QED BY <1>1, FlowInvariant, CounterAccurate, PTL

-----------------------------------------------------------------------------
(* Releases end.                                                            *)

Releasing(p) == pc[p] \in ReleasePcs \cup {"requeue"}

SameLocals(p) == pc'[p] = pc[p] /\ tries'[p] = tries[p] /\ skipped'[p] = skipped[p]

\* A handler leaves the variables of the others alone.
LEMMA OthersUntouched ==
    ASSUME LocalsTypeOK, NEW p \in Procs, NEW q \in Procs, q # p,
           Step(q) \/ Request(q) \/ Failure(q)
    PROVE  SameLocals(p)
  <1> USE DEF LocalsTypeOK, SameLocals
  <1>1. /\ Return(q) => SameLocals(p)
        /\ \A label : Goto(q, label) => SameLocals(p)
        /\ EndRelease(q) => SameLocals(p)
        /\ \A label, e, u, s : Start(q, label, e, u, s) => SameLocals(p)
    BY DEF Return, Goto, EndRelease, Start
  <1>2. CASE Step(q)
    <2>1. CASE CountSeats(q) \/ FindOffline(q) \/ \E u \in Users : PopWaiter(q, u)
      BY <2>1 DEF CountSeats, FindOffline, PopWaiter
    <2>2. CASE \E u \in Users : Requeue(q, u)
      BY <1>1, <2>2 DEF Requeue
    <2> QED BY <1>1, <1>2, <2>1, <2>2 DEF Step, Join, SetCounter, ReserveSeat, ReserveFails, Restore, Leave,
               DeleteOffers, CountOffer, PopNobody, GiveUpPopping, ForgetOffers, FindOnline,
               HoldForWaiter, HoldFails, ClearOffers, Sell
  <1>3. CASE Request(q)
    BY <1>1, <1>3 DEF Request, TakeSeat, FindSoldOut, FindNoCounter, CancelBooking, FailPayment, PayBooking,
       ExpireHold
  <1>4. CASE Failure(q)
    BY <1>1, <1>4 DEF Failure, ReserveUnknown, HoldUnknown, ReleaseRejects, Crash
  <1> QED BY <1>2, <1>3, <1>4

\* The distance in numbers.
LEMMA Distances ==
    ASSUME LocalsTypeOK, NEW p \in Procs
    PROVE  /\ tries[p] \in 0..MaxSkips
           /\ pc[p] = "offer" => Distance(p) = 2 * MaxSkips + 7
           /\ pc[p] = "check" => Distance(p) = 2 * (MaxSkips - tries[p]) + 6
           /\ pc[p] = "pop"   => Distance(p) = 2 * (MaxSkips - tries[p]) + 5
           /\ pc[p] = "hold"  => Distance(p) = 4
           /\ pc[p] = "clear" => Distance(p) = 3
           /\ pc[p] \in {"forget", "sell"} => Distance(p) = 2
           /\ pc[p] = "requeue" => Distance(p) = 1
           /\ pc[p] = "idle" => Distance(p) = 0
  BY DEF LocalsTypeOK, Distance

LEMMA DistancesAfter ==
    ASSUME LocalsTypeOK', NEW p \in Procs
    PROVE  /\ tries'[p] \in 0..MaxSkips
           /\ pc'[p] = "check" => Distance(p)' = 2 * (MaxSkips - tries'[p]) + 6
           /\ pc'[p] = "pop"   => Distance(p)' = 2 * (MaxSkips - tries'[p]) + 5
           /\ pc'[p] = "hold"  => Distance(p)' = 4
           /\ pc'[p] = "clear" => Distance(p)' = 3
           /\ pc'[p] \in {"forget", "sell"} => Distance(p)' = 2
           /\ pc'[p] = "requeue" => Distance(p)' = 1
           /\ pc'[p] = "idle" => Distance(p)' = 0
  BY DEF LocalsTypeOK, Distance

\* Each step of a release brings it nearer to its end.
LEMMA StepNearer ==
    ASSUME LocalsTypeOK, LocalsTypeOK', NEW p \in Procs, Releasing(p), Step(p) \/ Failure(p)
    PROVE  Nearer(p)
  <1> USE Distances, DistancesAfter, FlowAssumption DEF At, Releasing, Nearer
  <1>1. /\ Return(p) => pc'[p] = "idle"
        /\ EndRelease(p) => pc'[p] \in {"idle", "requeue"}
        /\ \A label : Goto(p, label) => pc'[p] = label /\ tries'[p] = tries[p]
    BY DEF Return, EndRelease, Goto, LocalsTypeOK
  <1>2. CASE CountOffer(p)
    BY <1>1, <1>2 DEF CountOffer
  <1>3. CASE \E u \in Users : PopWaiter(p, u)
    <2>1. pc[p] = "pop" /\ tries[p] < MaxSkips /\ pc'[p] = "check" /\ tries'[p] = tries[p] + 1
      BY <1>3 DEF PopWaiter, MayPop, LocalsTypeOK
    <2> QED BY <2>1
  <1>4. CASE FindOffline(p)
    <2>1. pc[p] = "check" /\ pc'[p] = "pop" /\ tries'[p] = tries[p]
      BY <1>4 DEF FindOffline, LocalsTypeOK
    <2> QED BY <2>1
  <1>5. CASE PopNobody(p) \/ GiveUpPopping(p)
    BY <1>1, <1>5 DEF PopNobody, GiveUpPopping
  <1>6. CASE FindOnline(p) \/ ReleaseRejects(p)
    <2>1. CASE FindOnline(p)
      BY <1>1, <2>1 DEF FindOnline
    <2>2. CASE ReleaseRejects(p)
      <3>1. pc[p] \in {"offer", "pop", "check", "clear", "sell", "forget"} /\ pc'[p] \in {"idle", "requeue"}
        BY <1>1, <2>2 DEF ReleaseRejects, ReleasePcs
      <3>2. Distance(p) \in Nat /\ Distance(p) > 1
        <4>1. MaxSkips - tries[p] \in Nat /\ MaxSkips \in Nat
          BY Distances, FlowAssumption
        <4> QED BY <3>1, <4>1, Distances
      <3>3. Distance(p)' \in {0, 1}
        BY <3>1
      <3> QED BY <3>2, <3>3
    <2> QED BY <1>6, <2>1, <2>2
  <1>7. CASE HoldFails(p) \/ \E b \in Bookings : HoldForWaiter(p, b) \/ HoldUnknown(p, b)
    BY <1>1, <1>7 DEF HoldFails, HoldForWaiter, HoldUnknown
  <1>8. CASE ClearOffers(p) \/ Sell(p) \/ ForgetOffers(p)
    BY <1>1, <1>8 DEF ClearOffers, Sell, ForgetOffers
  <1>9. CASE \E u \in Users : Requeue(p, u)
    <2>1. PICK u \in Users : Requeue(p, u)
      BY <1>9
    <2>2. CASE Return(p)
      BY <1>1, <2>1, <2>2 DEF Requeue
    <2>3. CASE ~Return(p)
      <3>1. skipped[p][u] # 0 /\ pc[p] = "requeue" /\ pc' = pc /\ skipped' = [skipped EXCEPT ![p][u] = 0]
        BY <2>1, <2>3 DEF Requeue
      <3>2. skipped'[p][u] = 0 /\ \A v \in Users : v # u => skipped'[p][v] = skipped[p][v]
        BY <3>1 DEF LocalsTypeOK
      <3>3. u \in Remembered(p) /\ u \notin Remembered(p)' /\ Remembered(p)' \subseteq Remembered(p)
        BY <3>1, <3>2 DEF Remembered
      <3> QED BY <3>1, <3>3
    <2> QED BY <2>2, <2>3
  <1>10. CASE Crash(p)
    BY <1>1, <1>10 DEF Crash, ReleasePcs
  <1> QED BY <1>2, <1>3, <1>4, <1>5, <1>6, <1>7, <1>8, <1>9, <1>10 DEF Step, Failure, ReleasePcs, Join, CountSeats,
             SetCounter, ReserveSeat, ReserveFails, ReserveUnknown, Restore, Leave, DeleteOffers

\* Each step of a release brings it nearer to its end.
LEMMA RunsDownStep ==
    ASSUME FlowInv, FlowInv', [Next]_vars
    PROVE
    [\A p \in Procs :
        /\ pc[p] \in ReleasePcs \cup {"requeue"}
        /\ <<pc'[p], tries'[p], skipped'[p]>> # <<pc[p], tries[p], skipped[p]>>
        => Nearer(p)]_vars
  <1> SUFFICES ASSUME FlowInv, FlowInv', Next, NEW p \in Procs, Releasing(p), ~SameLocals(p)
               PROVE  Nearer(p)
    BY DEF Releasing, SameLocals
  <1>1. LocalsTypeOK /\ LocalsTypeOK'
    BY DEF FlowInv
  <1>2. ~LoseRedis
    BY DEF LoseRedis, localVars, SameLocals
  <1>3. Step(p) \/ Request(p) \/ Failure(p)
    BY <1>1, <1>2, OthersUntouched DEF Next
  <1>4. ~Request(p)
    BY DEF Request, TakeSeat, FindSoldOut, FindNoCounter, CancelBooking, FailPayment, PayBooking, ExpireHold,
       Start, At, Releasing, ReleasePcs
  <1> QED BY <1>1, <1>3, <1>4, StepNearer

\* A release ends after a bounded number of its own steps, whatever the other
\* handlers, the waiting users and the faults do, and for any limits.
THEOREM ReleasesEnd == Spec => ReleasesRunDown
  BY RunsDownStep, FlowInvariant, PTL DEF Spec, ReleasesRunDown

-----------------------------------------------------------------------------
(* Offer counts.                                                            *)

\* A handler that will still delete the offer count of s, or hold s.
Minds(p, s) == pseat[p] = s /\ pc[p] \in ReleasePcs \ {"sell"}

CountIsMinded ==
    faults = 0 =>
        \A s \in Seats : seat[s] = "available" /\ offers[s] # 0 => \E p \in Procs : Minds(p, s)

\* Whatever leaves a seat and its count as they are, or deletes the count, and
\* takes nobody away from it, keeps the count minded.
LEMMA StillMinded ==
    ASSUME CountIsMinded, faults = 0, NEW s \in Seats, seat'[s] = "available", offers'[s] # 0,
           seat[s] = "available", offers[s] # 0,
           \A p \in Procs : Minds(p, s) => Minds(p, s)'
    PROVE  \E p \in Procs : Minds(p, s)'
  BY DEF CountIsMinded

\* A step of a handler on its way through a release, or anywhere else, leaves no
\* count behind on a seat that is on sale.
LEMMA StepMinds ==
    ASSUME FlowInv, FlowInv', CountIsMinded, NEW p \in Procs, Step(p), faults = 0,
           NEW s \in Seats, seat'[s] = "available", offers'[s] # 0
    PROVE  \E q \in Procs : Minds(q, s)'
  <1> USE DEF FlowInv, LocalsTypeOK, At
  <1>1. \A q \in Procs : q # p => (Minds(q, s)' <=> Minds(q, s))
    BY DEF Minds, Step, Join, CountSeats, SetCounter, ReserveSeat, ReserveFails, Restore, Leave,
       DeleteOffers, CountOffer, PopNobody, GiveUpPopping, ForgetOffers, FindOnline, FindOffline,
       HoldForWaiter, HoldFails, ClearOffers, Sell, PopWaiter, Requeue, Return, Goto, EndRelease
  <1>2. CASE CountOffer(p)
    <2>1. CASE pseat[p] = s
      <3>1. pseat' = pseat /\ pc'[p] \in {"clear", "pop"}
        BY <1>2 DEF CountOffer, Goto
      <3> QED BY <2>1, <3>1 DEF Minds, ReleasePcs
    <2>2. CASE pseat[p] # s
      <3>1. offers'[s] = offers[s] /\ seat' = seat
        BY <1>2, <2>2 DEF CountOffer, tableVars, ledgerVars, RedisTypeOK
      <3>2. ~Minds(p, s)
        BY <2>2 DEF Minds
      <3> QED BY <1>1, <3>1, <3>2, StillMinded
    <2> QED BY <2>1, <2>2
  <1>3. CASE DeleteOffers(p) \/ ForgetOffers(p) \/ ClearOffers(p)
    <2>1. pseat[p] # s
      BY <1>3 DEF DeleteOffers, ForgetOffers, ClearOffers, RedisTypeOK
    <2>2. offers'[s] = offers[s] /\ seat' = seat
      BY <1>3, <2>1 DEF DeleteOffers, ForgetOffers, ClearOffers, RedisTypeOK, tableVars, ledgerVars
    <2>3. ~Minds(p, s)
      BY <2>1 DEF Minds
    <2> QED BY <1>1, <2>2, <2>3, StillMinded
  <1>4. CASE \E b \in Bookings : ReserveSeat(p, b) \/ HoldForWaiter(p, b)
    <2>1. PICK b \in Bookings : ReserveSeat(p, b) \/ HoldForWaiter(p, b)
      BY <1>4
    <2>2. offers' = offers /\ Reserve(b, puser[p], pseat[p])
      BY <2>1 DEF ReserveSeat, HoldForWaiter, Insert, redisVars
    <2>3. pseat[p] # s /\ seat[s] = "available"
      BY <2>2 DEF Reserve, LedgerInv, LedgerTypeOK
    <2>4. ~Minds(p, s)
      BY <2>3 DEF Minds
    <2> QED BY <1>1, <2>2, <2>3, <2>4, StillMinded
  <1>5. CASE \/ PopNobody(p) \/ GiveUpPopping(p) \/ FindOnline(p) \/ FindOffline(p) \/ HoldFails(p)
            \/ \E u \in Users : PopWaiter(p, u)
    <2>1. seat' = seat /\ offers' = offers /\ pseat' = pseat /\ pc'[p] \in ReleasePcs \ {"sell"}
      BY <1>5 DEF PopNobody, GiveUpPopping, FindOnline, FindOffline, HoldFails, PopWaiter, Goto, ReleasePcs,
         tableVars, ledgerVars, redisVars
    <2>2. Minds(p, s) => Minds(p, s)'
      BY <2>1 DEF Minds
    <2> QED BY <1>1, <2>1, <2>2, StillMinded
  <1>6. CASE \/ Join(p) \/ CountSeats(p) \/ SetCounter(p) \/ ReserveFails(p) \/ Restore(p) \/ Leave(p)
            \/ Sell(p) \/ \E u \in Users : Requeue(p, u)
    <2>1. seat' = seat /\ offers' = offers /\ pc[p] \notin ReleasePcs \ {"sell"}
      BY <1>6 DEF Join, CountSeats, SetCounter, ReserveFails, Restore, Leave, Sell, Requeue, ReleasePcs,
         tableVars, ledgerVars, redisVars
    <2>2. ~Minds(p, s)
      BY <2>1 DEF Minds
    <2> QED BY <1>1, <2>1, <2>2, StillMinded
  <1> QED BY <1>2, <1>3, <1>4, <1>5, <1>6 DEF Step

\* A request starts on a seat nobody else loses by it; one that frees a seat
\* minds it itself.
LEMMA RequestMinds ==
    ASSUME FlowInv, CountIsMinded, NEW p \in Procs, Request(p), faults = 0,
           NEW s \in Seats, seat'[s] = "available", offers'[s] # 0
    PROVE  \E q \in Procs : Minds(q, s)'
  <1> USE DEF FlowInv, LocalsTypeOK, At
  <1>1. /\ offers' = offers
        /\ pc[p] = "idle" /\ \A q \in Procs : q # p => pc'[q] = pc[q] /\ pseat'[q] = pseat[q]
    BY DEF Request, TakeSeat, FindSoldOut, FindNoCounter, CancelBooking, FailPayment, PayBooking, ExpireHold,
       Start, redisVars
  <1>2. \A q \in Procs : Minds(q, s) => Minds(q, s)'
    BY <1>1 DEF Minds, ReleasePcs
  <1>3. CASE seat[s] = "available"
    BY <1>1, <1>2, <1>3, StillMinded
  <1>4. CASE seat[s] # "available"
    <2>1. PICK b \in Bookings :
            (\E u \in Users : CancelBooking(p, b, u)) \/ FailPayment(p, b) \/ PayBooking(p, b) \/ ExpireHold(p, b)
      BY <1>4 DEF Request, TakeSeat, FindSoldOut, FindNoCounter, tableVars, ledgerVars
    <2>2. s = bseat[b] /\ ~PayBooking(p, b)
      BY <1>4, <2>1 DEF CancelBooking, FailPayment, PayBooking, ExpireHold, Cancel, Compensate, Confirm, Expire,
         Transition, LedgerInv, LedgerTypeOK
    <2>3. Start(p, "offer", bevent[b], Nil, s)
      BY <2>1, <2>2 DEF CancelBooking, FailPayment, ExpireHold
    <2>4. Minds(p, s)'
      BY <2>3 DEF Start, Minds, ReleasePcs
    <2> QED BY <2>4
  <1> QED BY <1>3, <1>4

\* All steps keep the offer counts minded, while nothing fails.
LEMMA MindedStep ==
    ASSUME FlowInv, FlowInv', CountIsMinded, [Next]_vars
    PROVE  CountIsMinded'
  <1> SUFFICES ASSUME faults' = 0, NEW s \in Seats,
                      seat'[s] = "available", offers'[s] # 0
               PROVE  \E p \in Procs : Minds(p, s)'
    BY DEF CountIsMinded
  <1>1. faults \in Nat /\ \A p \in Procs : ~Failure(p)
    BY FlowAssumption DEF FlowInv, Failure, ReserveUnknown, HoldUnknown, ReleaseRejects, Crash, Fault
  <1>2. ASSUME NEW p \in Procs, Step(p) \/ Request(p) PROVE \E q \in Procs : Minds(q, s)'
    <2>1. faults = 0
      BY <1>2 DEF Step, Request, Join, CountSeats, SetCounter, ReserveSeat, ReserveFails, Restore, Leave,
         DeleteOffers, CountOffer, PopNobody, GiveUpPopping, ForgetOffers, FindOnline, FindOffline,
         HoldForWaiter, HoldFails, ClearOffers, Sell, PopWaiter, Requeue, TakeSeat, FindSoldOut,
         FindNoCounter, CancelBooking, FailPayment, PayBooking, ExpireHold, faultVars
    <2> QED BY <1>2, <2>1, StepMinds, RequestMinds
  <1>3. CASE LoseRedis
    BY <1>3 DEF LoseRedis
  <1>4. CASE UNCHANGED vars
    <2>1. seat' = seat /\ offers' = offers /\ pc' = pc /\ pseat' = pseat /\ faults' = faults
      BY <1>4 DEF vars, tableVars, ledgerVars, redisVars, localVars, faultVars
    <2> QED BY <2>1 DEF CountIsMinded, Minds
  <1> QED BY <1>1, <1>2, <1>3, <1>4 DEF Next

\* While nothing fails, a seat on sale that nobody is passing on starts its
\* round with all its offers, for any number of handlers that release it at once.
THEOREM RoundsStartFresh == Spec => []OnSaleSeatsStartFresh
  <1>1. Init => CountIsMinded
    BY DEF Init, CountIsMinded
  <1>2. CountIsMinded => OnSaleSeatsStartFresh
    BY DEF CountIsMinded, OnSaleSeatsStartFresh, Minds
  <1>3. Spec => []CountIsMinded
    BY <1>1, MindedStep, FlowInvariant, PTL DEF Spec
  <1> QED BY <1>2, <1>3, PTL

-----------------------------------------------------------------------------
(* Places in the waiting list.                                              *)

\* Handler p has u's place n for event e in its hands.
Holds(p, e, u, n) == pevent[p] = e /\ InHand(p, u, n)

\* A place is kept, or one of the same user for the same event beside which it
\* does not matter.
Kept(e, u, n) ==
    \/ \E m \in 1 .. n : InLine(e, u, m)'
    \/ \E m \in n + 1 .. MaxClock : InLine(e, u, m) /\ InLine(e, u, m)'

\* Only a release remembers skipped users.
OnlyReleasesSkip ==
    \A p \in Procs : pc[p] \notin ReleasePcs \cup {"requeue"} => skipped[p] = NoSkips

SameHands(q) ==
    /\ pc'[q] = pc[q] /\ pevent'[q] = pevent[q] /\ puser'[q] = puser[q] /\ pscore'[q] = pscore[q]
    /\ skipped'[q] = skipped[q]

\* A handler's step is about its own variables only.
LEMMA OthersHold ==
    ASSUME LocalsTypeOK, NEW p \in Procs, Step(p) \/ Request(p) \/ Failure(p), NEW q \in Procs, q # p
    PROVE  SameHands(q)
  <1> USE DEF LocalsTypeOK, SameHands
  <1>1. /\ Return(p) => SameHands(q)
        /\ \A label : Goto(p, label) => SameHands(q)
        /\ EndRelease(p) => SameHands(q)
        /\ \A label, e, u, s : Start(p, label, e, u, s) => SameHands(q)
    BY DEF Return, Goto, EndRelease, Start
  <1>2. CASE Step(p)
    <2>1. CASE CountSeats(p) \/ FindOffline(p) \/ \E u \in Users : PopWaiter(p, u)
      BY <2>1 DEF CountSeats, FindOffline, PopWaiter
    <2>2. CASE \E u \in Users : Requeue(p, u)
      BY <1>1, <2>2 DEF Requeue
    <2> QED BY <1>1, <1>2, <2>1, <2>2 DEF Step, Join, SetCounter, ReserveSeat, ReserveFails, Restore, Leave,
               DeleteOffers, CountOffer, PopNobody, GiveUpPopping, ForgetOffers, FindOnline,
               HoldForWaiter, HoldFails, ClearOffers, Sell
  <1>3. CASE Request(p)
    BY <1>1, <1>3 DEF Request, TakeSeat, FindSoldOut, FindNoCounter, CancelBooking, FailPayment, PayBooking,
       ExpireHold
  <1>4. CASE Failure(p)
    BY <1>1, <1>4 DEF Failure, ReserveUnknown, HoldUnknown, ReleaseRejects, Crash
  <1> QED BY <1>2, <1>3, <1>4

\* The control operators and what a handler remembers.
LEMMA ControlSkips ==
    ASSUME LocalsTypeOK, NEW p \in Procs
    PROVE  /\ \A label : Goto(p, label) => pc'[p] = label /\ skipped'[p] = skipped[p] /\ pevent'[p] = pevent[p]
                                           /\ puser'[p] = puser[p] /\ pscore'[p] = pscore[p]
           /\ Return(p) => pc'[p] = "idle" /\ skipped'[p] = NoSkips
           /\ EndRelease(p) => pc'[p] \in {"idle", "requeue"} /\ skipped'[p] = skipped[p]
                               /\ (pc'[p] = "idle" => skipped'[p] = NoSkips)
                               /\ (skipped[p] # NoSkips => pevent'[p] = pevent[p])
  BY DEF LocalsTypeOK, Goto, Return, EndRelease

\* Nor does the handler that acts remember anybody outside a release.
LEMMA SkipsStep ==
    ASSUME FlowInv, OnlyReleasesSkip, NEW p \in Procs, Step(p) \/ Request(p) \/ Failure(p),
           pc'[p] \notin ReleasePcs \cup {"requeue"}
    PROVE  skipped'[p] = NoSkips
  <1> USE ControlSkips DEF FlowInv, OnlyReleasesSkip, At
  <1>1. LocalsTypeOK
    OBVIOUS
  <1>2. CASE Step(p)
    <2>1. CASE Join(p) \/ SetCounter(p) \/ Restore(p) \/ Leave(p) \/ DeleteOffers(p)
      BY <1>1, <2>1 DEF Join, SetCounter, Restore, Leave, DeleteOffers
    <2>2. CASE CountSeats(p) \/ ReserveFails(p) \/ \E b \in Bookings : ReserveSeat(p, b)
      BY <1>1, <2>2 DEF CountSeats, ReserveFails, ReserveSeat, ReleasePcs
    <2>3. CASE Sell(p) \/ ForgetOffers(p) \/ \E b \in Bookings : HoldForWaiter(p, b)
      BY <1>1, <2>3 DEF Sell, ForgetOffers, HoldForWaiter, ReleasePcs
    <2>4. CASE \E u \in Users : Requeue(p, u)
      <3>1. PICK u \in Users : Requeue(p, u)
        BY <2>4
      <3>2. CASE Return(p)
        BY <1>1, <3>2
      <3>3. CASE ~Return(p)
        BY <3>1, <3>3 DEF Requeue
      <3> QED BY <3>2, <3>3
    <2>5. CASE \/ CountOffer(p) \/ PopNobody(p) \/ GiveUpPopping(p) \/ FindOnline(p) \/ FindOffline(p)
               \/ HoldFails(p) \/ ClearOffers(p) \/ \E u \in Users : PopWaiter(p, u)
      <3>1. pc'[p] \in ReleasePcs
        BY <1>1, <2>5 DEF CountOffer, PopNobody, GiveUpPopping, FindOnline, FindOffline, HoldFails, ClearOffers,
           PopWaiter, ReleasePcs, LocalsTypeOK
      <3> QED BY <3>1
    <2> QED BY <1>2, <2>1, <2>2, <2>3, <2>4, <2>5 DEF Step
  <1>3. CASE Request(p)
    <2>1. pc[p] = "idle" /\ skipped' = skipped
      BY <1>3 DEF Request, TakeSeat, FindSoldOut, FindNoCounter, CancelBooking, FailPayment, PayBooking, ExpireHold, Start
    <2> QED BY <2>1 DEF ReleasePcs
  <1>4. CASE Failure(p)
    <2>1. CASE Crash(p)
      BY <1>1, <2>1 DEF Crash
    <2>2. CASE ReleaseRejects(p)
      BY <1>1, <2>2 DEF ReleaseRejects
    <2>3. CASE \E b \in Bookings : ReserveUnknown(p, b)
      BY <1>1, <2>3 DEF ReserveUnknown, ReleasePcs
    <2>4. CASE \E b \in Bookings : HoldUnknown(p, b)
      BY <1>1, <2>4 DEF HoldUnknown, ReleasePcs
    <2> QED BY <1>4, <2>1, <2>2, <2>3, <2>4 DEF Failure
  <1> QED BY <1>2, <1>3, <1>4

\* A handler that is not in a release remembers nobody.
LEMMA SkipsInvStep ==
    ASSUME FlowInv, OnlyReleasesSkip, [Next]_vars
    PROVE  OnlyReleasesSkip'
  <1> SUFFICES ASSUME NEW q \in Procs,
                      pc'[q] \notin ReleasePcs \cup {"requeue"}
               PROVE  skipped'[q] = NoSkips
    BY DEF OnlyReleasesSkip
  <1>1. ASSUME NEW p \in Procs, Step(p) \/ Request(p) \/ Failure(p) PROVE skipped'[q] = NoSkips
    <2>1. CASE p = q
      BY <1>1, <2>1, SkipsStep
    <2>2. CASE p # q
      <3>1. pc'[q] = pc[q] /\ skipped'[q] = skipped[q]
        BY <1>1, <2>2, OthersHold DEF FlowInv, SameHands
      <3> QED BY <3>1 DEF OnlyReleasesSkip
    <2> QED BY <2>1, <2>2
  <1>2. CASE LoseRedis \/ UNCHANGED vars
    <2>1. pc' = pc /\ skipped' = skipped
      BY <1>2 DEF LoseRedis, vars, localVars
    <2> QED BY <2>1 DEF OnlyReleasesSkip
  <1> QED BY <1>1, <1>2 DEF Next

\* So it is from the beginning on.
LEMMA SkipsInvariant == Spec => []OnlyReleasesSkip
  <1>1. Init => OnlyReleasesSkip
    BY DEF Init, OnlyReleasesSkip
  <1> QED BY <1>1, SkipsInvStep, FlowInvariant, PTL DEF Spec

\* What is not lost from the list or from the hands of the acting handler is kept.
LEMMA PlaceStays ==
    ASSUME FlowInv, NEW p \in Procs, Step(p) \/ Request(p) \/ Failure(p),
           NEW e \in Events, NEW u \in Users, NEW n \in 1 .. MaxClock, InLine(e, u, n),
           waiting[e][u] = n => waiting'[e][u] = n,
           Holds(p, e, u, n) => Holds(p, e, u, n)'
    PROVE  Kept(e, u, n)
  <1>1. waiting[e][u] = n \/ \E q \in Procs : Holds(q, e, u, n)
    BY DEF InLine, Holds
  <1>2. ASSUME NEW q \in Procs, Holds(q, e, u, n) PROVE InLine(e, u, n)'
    <2>1. CASE q = p
      BY <1>2, <2>1 DEF InLine, Holds
    <2>2. CASE q # p
      BY <1>2, <2>2, OthersHold DEF FlowInv, SameHands, Holds, InHand, InLine
    <2> QED BY <2>1, <2>2
  <1>3. InLine(e, u, n)'
    BY <1>1, <1>2 DEF InLine
  <1>4. n \in 1 .. n
    BY FlowAssumption
  <1> QED BY <1>3, <1>4 DEF Kept

\* A user who has a place, whichever it is, is not forgotten.
LEMMA SomePlace ==
    ASSUME NEW e \in Events, NEW u \in Users, NEW n \in 1 .. MaxClock, NEW m \in 1 .. MaxClock,
           InLine(e, u, m), InLine(e, u, m)'
    PROVE  Kept(e, u, n)
  <1>1. m \in 1 .. n \/ m \in n + 1 .. MaxClock
    BY FlowAssumption
  <1> QED BY <1>1 DEF Kept

\* A handler's step keeps every place, or another one of the same user, unless
\* it ends an offer or a booking of that user.
LEMMA StepKeepsPlaces ==
    ASSUME FlowInv, FlowInv', OnlyReleasesSkip, NEW p \in Procs, Step(p),
           NEW e \in Events, NEW u \in Users, NEW n \in 1 .. MaxClock, InLine(e, u, n),
           ~(pevent[p] = e /\ puser[p] = u /\ pc[p] \in {"leave", "hold"} /\ pc'[p] # pc[p])
    PROVE  Kept(e, u, n)
  <1> USE DEF At
  <1>1. LocalsTypeOK /\ RedisTypeOK /\ LocalsTypeOK'
    BY DEF FlowInv
  <1>2. n \in Nat /\ n # 0 /\ MaxClock \in Nat /\ n \in 1 .. n /\ 0 \in 0 .. MaxClock
    BY FlowAssumption
  <1>3. ASSUME waiting[e][u] = n => waiting'[e][u] = n, Holds(p, e, u, n) => Holds(p, e, u, n)'
        PROVE  Kept(e, u, n)
    BY <1>3, PlaceStays
  <1>4. ASSUME InLine(e, u, n)' PROVE Kept(e, u, n)
    BY <1>2, <1>4 DEF Kept
  <1>5. CASE Join(p) \/ SetCounter(p) \/ Restore(p) \/ Leave(p) \/ DeleteOffers(p)
    <2>1. skipped[p] = NoSkips /\ pc[p] \notin {"check", "hold"}
      BY <1>5 DEF Join, SetCounter, Restore, Leave, DeleteOffers, OnlyReleasesSkip, ReleasePcs
    <2>2. ~Holds(p, e, u, n)
      BY <1>2, <2>1 DEF Holds, InHand, NoSkips
    <2>3. waiting[e][u] = n => waiting'[e][u] = n
      <3>1. CASE Leave(p)
        <4>1. ~(pevent[p] = e /\ puser[p] = u)
          BY <1>1, <3>1, ControlSkips DEF Leave
        <4>2. pevent[p] \in Events /\ puser[p] \in Users
          BY <3>1 DEF Leave, FlowInv, LocalsFit
        <4> QED BY <1>1, <1>2, <3>1, <4>1, <4>2, PlaceWritten DEF Leave
      <3>2. CASE Join(p)
        <4>1. pevent[p] \in Events /\ puser[p] \in Users
          BY <3>2 DEF Join, FlowInv, LocalsFit
        <4>2. CASE waiting[pevent[p]][puser[p]] = 0
          <5>1. waiting' = [waiting EXCEPT ![pevent[p]][puser[p]] = clock'] /\ clock' \in 0 .. MaxClock
            BY <3>2, <4>2 DEF Join, FlowInv, RedisTypeOK
          <5> QED BY <1>1, <1>2, <4>1, <4>2, <5>1, PlaceWritten
        <4>3. CASE waiting[pevent[p]][puser[p]] # 0
          BY <3>2, <4>3 DEF Join
        <4> QED BY <4>2, <4>3
      <3> QED BY <1>5, <3>1, <3>2 DEF SetCounter, Restore, DeleteOffers
    <2> QED BY <1>3, <2>2, <2>3
  <1>6. CASE CountSeats(p) \/ ReserveFails(p) \/ \E b \in Bookings : ReserveSeat(p, b)
    <2>1. skipped[p] = NoSkips /\ pc[p] \notin {"check", "hold"} /\ waiting' = waiting
      BY <1>6 DEF CountSeats, ReserveFails, ReserveSeat, OnlyReleasesSkip, ReleasePcs, redisVars
    <2>2. ~Holds(p, e, u, n)
      BY <1>2, <2>1 DEF Holds, InHand, NoSkips
    <2> QED BY <1>3, <2>1, <2>2
  <1>7. CASE CountOffer(p) \/ PopNobody(p) \/ GiveUpPopping(p) \/ ClearOffers(p) \/ Sell(p) \/ ForgetOffers(p)
    <2>1. waiting' = waiting /\ pc[p] \notin {"check", "hold"}
      BY <1>7 DEF CountOffer, PopNobody, GiveUpPopping, ClearOffers, Sell, ForgetOffers, redisVars
    <2>2. /\ skipped'[p] = skipped[p]
          /\ skipped[p] # NoSkips => pevent'[p] = pevent[p]
      BY <1>1, <1>7, ControlSkips DEF CountOffer, PopNobody, GiveUpPopping, ClearOffers, Sell, ForgetOffers
    <2>3. ASSUME Holds(p, e, u, n) PROVE Holds(p, e, u, n)'
      <3>1. skipped[p][u] = n /\ pevent[p] = e
        BY <2>1, <2>3 DEF Holds, InHand
      <3>2. skipped[p] # NoSkips
        BY <1>2, <3>1 DEF NoSkips
      <3> QED BY <2>2, <3>1, <3>2 DEF Holds, InHand
    <2> QED BY <1>3, <2>1, <2>3
  <1>8. CASE FindOnline(p)
    <2>1. /\ waiting' = waiting /\ pc'[p] = "hold" /\ skipped'[p] = skipped[p]
          /\ pevent'[p] = pevent[p] /\ puser'[p] = puser[p] /\ pscore'[p] = pscore[p]
      BY <1>1, <1>8, ControlSkips DEF FindOnline, redisVars
    <2> QED BY <1>3, <2>1 DEF Holds, InHand
  <1>9. CASE HoldFails(p) \/ \E b \in Bookings : HoldForWaiter(p, b)
    <2>1. /\ waiting' = waiting /\ skipped'[p] = skipped[p] /\ pc[p] = "hold" /\ pc'[p] # "hold"
          /\ skipped[p] # NoSkips => pevent'[p] = pevent[p]
      BY <1>1, <1>9, ControlSkips DEF HoldFails, HoldForWaiter, redisVars
    <2>2. ASSUME Holds(p, e, u, n) PROVE Holds(p, e, u, n)'
      <3>1. skipped[p][u] = n /\ pevent[p] = e
        BY <2>1, <2>2 DEF Holds, InHand
      <3>2. skipped[p] # NoSkips
        BY <1>2, <3>1 DEF NoSkips
      <3> QED BY <2>1, <3>1, <3>2 DEF Holds, InHand
    <2> QED BY <1>3, <2>1, <2>2
  <1>10. CASE \E v \in Users : PopWaiter(p, v)
    <2>1. PICK v \in Users : PopWaiter(p, v)
      BY <1>10
    <2>2. /\ pc[p] = "pop" /\ skipped' = skipped /\ pevent' = pevent /\ pevent[p] \in Events
          /\ waiting' = [waiting EXCEPT ![pevent[p]][v] = 0]
      BY <2>1 DEF PopWaiter, FlowInv, LocalsFit
    <2>3. CASE waiting[e][u] = n /\ v = u /\ pevent[p] = e
      <3>1. pc'[p] = "check" /\ puser'[p] = u /\ pscore'[p] = n
        BY <1>1, <2>1, <2>3 DEF PopWaiter, LocalsTypeOK
      <3>2. InLine(e, u, n)'
        BY <2>2, <2>3, <3>1 DEF InLine, InHand
      <3> QED BY <1>4, <3>2
    <2>4. CASE ~(waiting[e][u] = n /\ v = u /\ pevent[p] = e)
      <3>1. waiting[e][u] = n => waiting'[e][u] = n
        BY <1>1, <1>2, <2>2, <2>4, PlaceWritten
      <3>2. Holds(p, e, u, n) => Holds(p, e, u, n)'
        BY <2>2 DEF Holds, InHand
      <3> QED BY <1>3, <3>1, <3>2
    <2> QED BY <2>3, <2>4
  <1>11. CASE FindOffline(p)
    <2>1. /\ waiting' = waiting /\ pc[p] = "check" /\ puser[p] \in Users /\ pevent' = pevent
          /\ skipped' = [skipped EXCEPT ![p][puser[p]] = IF @ = 0 THEN pscore[p] ELSE @]
      BY <1>11 DEF FindOffline, redisVars, FlowInv, LocalsFit
    <2>2. CASE puser[p] = u /\ pscore[p] = n /\ pevent[p] = e
      <3>1. CASE skipped[p][u] = 0
        <4>1. skipped'[p][u] = n
          BY <1>1, <2>1, <2>2, <3>1 DEF LocalsTypeOK
        <4>2. InLine(e, u, n)'
          BY <2>1, <2>2, <4>1 DEF InLine, InHand
        <4> QED BY <1>4, <4>2
      <3>2. CASE skipped[p][u] # 0
        <4>1. PICK m \in 0 .. MaxClock : m = skipped[p][u]
          BY <1>1 DEF LocalsTypeOK
        <4>2. m \in 1 .. MaxClock
          BY <1>2, <3>2, <4>1
        <4>3. skipped'[p][u] = m
          BY <1>1, <2>1, <2>2, <3>2, <4>1 DEF LocalsTypeOK
        <4>4. InLine(e, u, m) /\ InLine(e, u, m)'
          BY <2>1, <2>2, <4>1, <4>3 DEF InLine, InHand
        <4> QED BY <4>2, <4>4, SomePlace
      <3> QED BY <3>1, <3>2
    <2>3. CASE ~(puser[p] = u /\ pscore[p] = n /\ pevent[p] = e)
      <3>1. skipped[p][u] = n => skipped'[p][u] = n
        BY <1>1, <1>2, <2>1 DEF LocalsTypeOK
      <3> QED BY <1>3, <2>1, <2>3, <3>1 DEF Holds, InHand
    <2> QED BY <2>2, <2>3
  <1>12. CASE \E v \in Users : Requeue(p, v)
    <2>1. PICK v \in Users : Requeue(p, v)
      BY <1>12
    <2>2. pc[p] = "requeue" /\ skipped[p][v] # 0 /\ pevent[p] \in Events
      BY <2>1 DEF Requeue, FlowInv, LocalsFit
    <2>3. PICK k \in 0 .. MaxClock :
            k = IF waiting[pevent[p]][v] = 0 THEN skipped[p][v] ELSE waiting[pevent[p]][v]
      BY <1>1, <2>2 DEF LocalsTypeOK, RedisTypeOK
    <2>4. PICK here \in Events : here = pevent[p]
      BY <2>2
    <2>5. /\ waiting'[here][v] = k
          /\ \A f \in Events, w \in Users : f # here \/ w # v => waiting'[f][w] = waiting[f][w]
      <3>1. waiting' = [waiting EXCEPT ![here][v] = k]
        BY <2>1, <2>3, <2>4 DEF Requeue
      <3>2. RedisTypeOK /\ k \in 0 .. MaxClock
        BY <1>1, <2>3
      <3> QED BY <3>1, <3>2 DEF RedisTypeOK
    <2>6. CASE pevent[p] = e /\ v = u
      <3>1. k \in 1 .. MaxClock
        BY <1>2, <2>2, <2>3
      <3>2. InLine(e, u, k)
        BY <2>3, <2>6 DEF InLine, InHand
      <3>3. InLine(e, u, k)'
        BY <2>4, <2>5, <2>6 DEF InLine
      <3> QED BY <3>1, <3>2, <3>3, SomePlace
    <2>7. CASE ~(pevent[p] = e /\ v = u)
      <3>1. ASSUME Holds(p, e, u, n) PROVE Holds(p, e, u, n)'
        <4>1. skipped[p][u] = n /\ v # u /\ pevent[p] = e
          BY <2>2, <2>7, <3>1 DEF Holds, InHand
        <4>2. ~(\A w \in Users \ {v} : skipped[p][w] = 0)
          BY <1>2, <4>1
        <4>3. skipped' = [skipped EXCEPT ![p][v] = 0] /\ pevent' = pevent
          BY <2>1, <4>2 DEF Requeue
        <4>4. skipped'[p][u] = n
          BY <1>1, <4>1, <4>3 DEF LocalsTypeOK
        <4> QED BY <4>1, <4>3, <4>4 DEF Holds, InHand
      <3>2. waiting'[e][u] = waiting[e][u]
        BY <2>4, <2>5, <2>7
      <3> QED BY <1>3, <3>1, <3>2
    <2> QED BY <2>6, <2>7
  <1> QED BY <1>5, <1>6, <1>7, <1>8, <1>9, <1>10, <1>11, <1>12 DEF Step

PlaceKept ==
    \A e \in Events, u \in Users, n \in 1 .. MaxClock :
        InLine(e, u, n) =>
            \/ \E m \in 1 .. n : InLine(e, u, m)'
            \/ faults' # faults
            \/ \E p \in Procs :
                pevent[p] = e /\ puser[p] = u /\ pc[p] \in {"leave", "hold"} /\ pc'[p] # pc[p]
            \/ \E m \in n + 1 .. MaxClock : InLine(e, u, m) /\ InLine(e, u, m)'

\* No step but the ones that PlacesAreKept names takes a place away.
LEMMA KeepsPlacesStep ==
    ASSUME FlowInv, FlowInv', OnlyReleasesSkip, [Next]_vars
    PROVE  [PlaceKept]_vars
  <1> SUFFICES ASSUME FlowInv, FlowInv', OnlyReleasesSkip, Next, faults' = faults,
                      NEW e \in Events, NEW u \in Users, NEW n \in 1 .. MaxClock, InLine(e, u, n),
                      ~\E p \in Procs :
                        pevent[p] = e /\ puser[p] = u /\ pc[p] \in {"leave", "hold"} /\ pc'[p] # pc[p]
               PROVE  Kept(e, u, n)
    BY DEF PlaceKept, Kept
  <1>1. ~LoseRedis /\ \A p \in Procs : ~Failure(p)
    BY FlowAssumption DEF FlowInv, LoseRedis, Failure, ReserveUnknown, HoldUnknown, ReleaseRejects, Crash, Fault
  <1>2. PICK p \in Procs : Step(p) \/ Request(p)
    BY <1>1 DEF Next
  <1>3. CASE Step(p)
    BY <1>3, StepKeepsPlaces
  <1>4. CASE Request(p)
    <2>1. waiting' = waiting /\ skipped' = skipped /\ pc[p] = "idle"
      BY <1>4 DEF Request, TakeSeat, FindSoldOut, FindNoCounter, CancelBooking, FailPayment, PayBooking, ExpireHold,
         Start, At, redisVars
    <2>2. skipped[p] = NoSkips
      BY <2>1 DEF OnlyReleasesSkip, ReleasePcs
    <2>3. ~Holds(p, e, u, n)
      BY <2>1, <2>2, FlowAssumption DEF Holds, InHand, NoSkips
    <2> QED BY <1>4, <2>1, <2>3, PlaceStays
  <1> QED BY <1>2, <1>3, <1>4

\* Nobody's place in a waiting list is forgotten, for any number of events and
\* users, and of releases that pop, skip and put back the same ones side by side.
THEOREM NobodyIsForgotten == Spec => PlacesAreKept
  <1>1. Spec => [][PlaceKept]_vars
    BY KeepsPlacesStep, FlowInvariant, SkipsInvariant, PTL DEF Spec
  <1> QED BY <1>1 DEF PlacesAreKept, PlaceKept

-----------------------------------------------------------------------------
(* Beside the reconciler.                                                   *)

\* The run counts no more seats than there are, and remembers what it counted.
ReconcileInv ==
    /\ FlowInv
    /\ rpc \in {"idle", "compare", "recall", "correct", "note", "forget"}
    /\ actual \in 0..Cardinality(Seats)
    /\ mismatch \in {None} \cup 0..Cardinality(Seats)

\* What the reconciler never touches: only the counter is its own to overwrite.
NotReconciled == <<tableVars, waiting, offers, clock, localVars, intact>>

\* A step is one that BookingFlow has too, or leaves all but the counter alone.
LEMMA ReconcileSteps ==
    ASSUME [ReconcileNext]_allVars
    PROVE  [Next]_vars \/ (UNCHANGED NotReconciled /\ faults' \in {faults, faults + 1})
  <1>1. CASE Handlers \/ LoseAll
    BY <1>1 DEF Handlers, LoseAll, Next
  <1>2. CASE Reconcile
    <2>1. UNCHANGED vars \/ CorrectCounter
      BY <1>2 DEF Reconcile, CountAvailable, CompareCounter, RecallMismatch, NoteMismatch,
                  ForgetMismatch, Goes
    <2> QED BY <2>1 DEF CorrectCounter, faultVars, NotReconciled
  <1>3. CASE RunFails \/ MismatchLapses
    BY <1>3 DEF RunFails, MismatchLapses, redisVars, Fault, NotReconciled, localVars, tableVars
  <1>4. CASE UNCHANGED allVars
    <2>1. UNCHANGED vars
      BY <1>4 DEF allVars
    <2> QED BY <2>1
  <1> QED BY <1>1, <1>2, <1>3, <1>4 DEF ReconcileNext

\* A correction makes the counter a number of seats again, and puts it back
\* where it is missing; nothing else of a run is the handlers' business.
LEMMA ReconcileInvStep ==
    ASSUME ReconcileInv, [ReconcileNext]_allVars
    PROVE  ReconcileInv'
  <1>1. Cardinality(Seats) \in Nat /\ Cardinality(OnSale(Event)) \in 0..Cardinality(Seats)
    BY FlowAssumption, FS_Subset, FS_CardinalityType DEF AvailableSeats, OnSale
  <1>2. CASE Handlers
    BY <1>2, FlowInvStep DEF ReconcileInv, Handlers, Next, reconcilerVars
  <1>3. CASE LoseAll
    BY <1>3, FlowInvStep DEF ReconcileInv, LoseAll, Next
  <1>4. CASE CountAvailable \/ CompareCounter \/ RecallMismatch \/ NoteMismatch \/ ForgetMismatch
    <2>1. FlowInv'
      BY <1>4, FlowInvStep DEF ReconcileInv, CountAvailable, CompareCounter, RecallMismatch,
                               NoteMismatch, ForgetMismatch, Goes
    <2> QED BY <1>1, <1>4, <2>1 DEF ReconcileInv, CountAvailable, CompareCounter,
                                    RecallMismatch, NoteMismatch, ForgetMismatch, Goes
  <1>5. ASSUME UNCHANGED NotReconciled, counter' \in [Events -> Nat], hasCounter' \in [Events -> BOOLEAN],
               \A e \in Events : hasCounter[e] => hasCounter'[e], faults' \in 0..MaxFaults
        PROVE  FlowInv'
    <2>1. LedgerInv'
      BY <1>5, LedgerStepInv DEF NotReconciled, tableVars, ReconcileInv, FlowInv
    <2>2. RedisTypeOK' /\ LocalsTypeOK' /\ intact' \in BOOLEAN
      BY <1>5 DEF NotReconciled, tableVars, localVars, ReconcileInv, FlowInv, RedisTypeOK, LocalsTypeOK
    <2>3. BookingsFit' /\ LocalsFit' /\ RebuildMeansLost'
      BY <1>5 DEF NotReconciled, tableVars, ledgerVars, localVars, ReconcileInv, FlowInv, BookingsFit,
         LocalsFit, RebuildMeansLost
    <2> QED BY <1>5, <2>1, <2>2, <2>3 DEF FlowInv
  <1>6. /\ counter \in [Events -> Nat] /\ hasCounter \in [Events -> BOOLEAN]
        /\ faults \in 0..MaxFaults /\ actual \in Nat
    BY <1>1 DEF ReconcileInv, FlowInv, RedisTypeOK
  <1>7. CASE CorrectCounter
    <2>1. UNCHANGED NotReconciled /\ faults' = faults
      BY <1>7 DEF CorrectCounter, NotReconciled, faultVars
    <2>2. /\ counter' \in [Events -> Nat] /\ hasCounter' \in [Events -> BOOLEAN]
          /\ \A e \in Events : hasCounter[e] => hasCounter'[e]
      BY <1>6, <1>7 DEF CorrectCounter
    <2> QED BY <1>5, <1>6, <1>7, <2>1, <2>2 DEF CorrectCounter, ReconcileInv
  <1>8. CASE RunFails \/ MismatchLapses
    <2>1. faults' \in 0..MaxFaults
      BY <1>6, <1>8, FlowAssumption DEF RunFails, MismatchLapses, Fault
    <2>2. FlowInv'
      BY <1>5, <1>6, <1>8, <2>1 DEF RunFails, MismatchLapses, redisVars, NotReconciled
    <2> QED BY <1>1, <1>8, <2>2 DEF RunFails, MismatchLapses, ReconcileInv
  <1>9. CASE UNCHANGED allVars
    BY <1>9, FlowInvStep DEF allVars, reconcilerVars, ReconcileInv
  <1> QED BY <1>2, <1>3, <1>4, <1>7, <1>8, <1>9 DEF ReconcileNext, Reconcile

\* Together with what BookingFlow's own invariants say of offers and places.
LEMMA ReconcileInvariant ==
    ReconcileSpec => [](ReconcileInv /\ CountIsMinded /\ OnlyReleasesSkip)
  <1>1. ReconcileInit => ReconcileInv /\ CountIsMinded /\ OnlyReleasesSkip
    <2> SUFFICES ASSUME ReconcileInit PROVE ReconcileInv /\ CountIsMinded /\ OnlyReleasesSkip
      OBVIOUS
    <2>1. FlowInv /\ CountIsMinded /\ OnlyReleasesSkip
      BY FlowInit DEF ReconcileInit, Init, CountIsMinded, OnlyReleasesSkip
    <2>2. Cardinality(Seats) \in Nat
      BY FlowAssumption, FS_CardinalityType
    <2> QED BY <2>1, <2>2 DEF ReconcileInit, ReconcileInv
  <1>2. ReconcileInv /\ CountIsMinded /\ OnlyReleasesSkip /\ [ReconcileNext]_allVars
            => (ReconcileInv /\ CountIsMinded /\ OnlyReleasesSkip)'
    <2> SUFFICES ASSUME ReconcileInv, CountIsMinded, OnlyReleasesSkip, [ReconcileNext]_allVars
                 PROVE  (ReconcileInv /\ CountIsMinded /\ OnlyReleasesSkip)'
      OBVIOUS
    <2>1. ReconcileInv' /\ FlowInv /\ FlowInv'
      BY ReconcileInvStep DEF ReconcileInv
    <2>2. CASE [Next]_vars
      BY <2>1, <2>2, MindedStep, SkipsInvStep
    <2>3. CASE UNCHANGED NotReconciled /\ faults' \in {faults, faults + 1}
      <3>1. /\ seat' = seat /\ offers' = offers /\ pc' = pc /\ pseat' = pseat
            /\ skipped' = skipped
        BY <2>3 DEF NotReconciled, tableVars, ledgerVars, localVars
      <3>2. faults' = 0 => faults = 0
        BY <2>1, <2>3, FlowAssumption DEF FlowInv
      <3> QED BY <2>1, <3>1, <3>2 DEF CountIsMinded, Minds, OnlyReleasesSkip
    <2> QED BY <2>2, <2>3, ReconcileSteps
  <1> QED BY <1>1, <1>2, PTL DEF ReconcileSpec

\* The tables see the handlers only.
LEMMA ReconcileIsLedger == ReconcileSpec => LedgerSpec
  <1>1. ReconcileInit => LedgerInit
    BY DEF ReconcileInit, Init
  <1>2. ReconcileInv /\ [ReconcileNext]_allVars => [LedgerNext]_ledgerVars
    <2> SUFFICES ASSUME ReconcileInv, [ReconcileNext]_allVars PROVE [LedgerNext]_ledgerVars
      OBVIOUS
    <2>1. [Next]_vars => [LedgerNext]_ledgerVars
      BY FlowLedgerStep DEF ReconcileInv, FlowInv
    <2> QED BY <2>1, ReconcileSteps DEF NotReconciled, tableVars
  <1> QED BY <1>1, <1>2, ReconcileInvariant, PTL DEF ReconcileSpec, LedgerSpec

\* The counter stays a natural number under the reconciler's corrections, and a
\* mismatch it remembers is a number of seats.
THEOREM ReconcileTypeCorrect == ReconcileSpec => []ReconcileTypeOK
  <1>1. ReconcileInv => ReconcileTypeOK
    BY DEF ReconcileInv, FlowInv, LedgerInv, FlowTypeOK, ReconcileTypeOK
  <1> QED BY <1>1, ReconcileInvariant, PTL

\* However wrong its corrections are, nobody loses a seat to somebody else: a
\* counter that is too high sends requests to transactions that refuse them.
THEOREM ReconcilerLeavesSale == ReconcileSpec => []SaleIsSafe /\ ImplementsSale
  <1>1. LedgerSpec => [](NoDoubleBooking /\ SeatMatchesBooking)
    BY NeverDoubleBooked, SeatsAgree, PTL
  <1>2. LedgerSpec => []SaleIsSafe
    BY <1>1, PTL DEF SaleIsSafe
  <1> QED BY <1>2, ReconcileIsLedger, LedgerImplementsSale

\* Nor do they touch the offers of a seat's next round.
THEOREM ReconcilerLeavesOffers == ReconcileSpec => []OnSaleSeatsStartFresh
  <1>1. CountIsMinded => OnSaleSeatsStartFresh
    BY DEF CountIsMinded, OnSaleSeatsStartFresh, Minds
  <1> QED BY <1>1, ReconcileInvariant, PTL

\* Nor the places in the waiting list, which the handlers keep as before.
THEOREM ReconcilerLeavesPlaces == ReconcileSpec => PlacesAreKept
  <1>1. ReconcileInv /\ ReconcileInv' /\ OnlyReleasesSkip /\ [ReconcileNext]_allVars => [PlaceKept]_vars
    <2> SUFFICES ASSUME ReconcileInv, ReconcileInv', OnlyReleasesSkip, [ReconcileNext]_allVars
                 PROVE  [PlaceKept]_vars
      OBVIOUS
    <2>1. CASE [Next]_vars
      BY <2>1, KeepsPlacesStep DEF ReconcileInv
    <2>2. CASE UNCHANGED NotReconciled
      <3>1. UNCHANGED <<waiting, skipped, pc, pevent, puser, pscore>>
        BY <2>2 DEF NotReconciled, localVars
      <3>2. \A e, u, n : InLine(e, u, n)' <=> InLine(e, u, n)
        BY <3>1 DEF InLine, InHand
      <3>3. \A n \in 1 .. MaxClock : n \in 1 .. n
        BY FlowAssumption
      <3> QED BY <3>2, <3>3 DEF PlaceKept
    <2> QED BY <2>1, <2>2, ReconcileSteps
  <1>2. ReconcileSpec => [][PlaceKept]_vars
    BY <1>1, ReconcileInvariant, PTL DEF ReconcileSpec
  <1> QED BY <1>2 DEF PlacesAreKept, PlaceKept

\* While all handlers are idle, and stay it, none of them takes a step.
LEMMA QuietMeansNoHandlers ==
    ASSUME LocalsTypeOK, Quiet, Quiet'
    PROVE  ~Handlers
  <1> SUFFICES ASSUME NEW p \in Procs, Step(p) \/ Request(p) \/ Failure(p) PROVE FALSE
    BY DEF Handlers
  <1>1. pc[p] = "idle" /\ pc'[p] = "idle"
    BY DEF Quiet, At
  <1>2. ~Step(p)
    BY <1>1 DEF Step, Join, CountSeats, SetCounter, ReserveSeat, ReserveFails, Restore, Leave,
       DeleteOffers, CountOffer, PopNobody, GiveUpPopping, ForgetOffers, FindOnline, FindOffline,
       HoldForWaiter, HoldFails, ClearOffers, Sell, PopWaiter, Requeue, At
  <1>3. ~Request(p)
    <2>1. \A label, e, u, s : Start(p, label, e, u, s) => label = "idle"
      BY <1>1 DEF Start, LocalsTypeOK
    <2> QED BY <2>1 DEF Request, TakeSeat, FindSoldOut, FindNoCounter, CancelBooking, FailPayment,
                        PayBooking, ExpireHold
  <1>4. ~Failure(p)
    BY <1>1 DEF Failure, ReserveUnknown, HoldUnknown, ReleaseRejects, Crash, At, ReleasePcs
  <1> QED BY <1>2, <1>3, <1>4

\* Once booking is quiet the reconciler's runs are sound: for any number of
\* seats, and whatever drift there was, they only ever make the counter right.
THEOREM QuietReconcilerSound == ReconcileSpec => QuietRunsAreSound
  <1>1. ReconcileInv /\ [ReconcileNext]_allVars =>
            [Quiet /\ Quiet' /\ Fresh =>
                /\ Fresh'
                /\ CorrectCounter => Right'
                /\ Right => Right' \/ ~hasCounter'[Event]]_allVars
    <2> SUFFICES ASSUME ReconcileInv, ReconcileNext, Quiet, Quiet', Fresh
                 PROVE  /\ Fresh'
                        /\ CorrectCounter => Right'
                        /\ Right => Right' \/ ~hasCounter'[Event]
      OBVIOUS
    <2>1. ~Handlers
      BY QuietMeansNoHandlers DEF ReconcileInv, FlowInv
    <2>2. seat' = seat
      BY <2>1 DEF ReconcileNext, Reconcile, CountAvailable, CompareCounter, RecallMismatch,
                  CorrectCounter, NoteMismatch, ForgetMismatch, Goes, RunFails, MismatchLapses,
                  LoseAll, LoseRedis, vars, tableVars, ledgerVars
    <2>3. OnSale(Event)' = OnSale(Event)
      BY <2>2 DEF OnSale, AvailableSeats, SeatsOf
    <2>4. Fresh'
      BY <2>1, <2>3 DEF ReconcileNext, Reconcile, CountAvailable, CompareCounter, RecallMismatch,
                        CorrectCounter, NoteMismatch, ForgetMismatch, Goes, RunFails,
                        MismatchLapses, LoseAll, Fresh
    <2>5. CorrectCounter => Right'
      BY <2>3, ReconciledAssumption DEF CorrectCounter, Fresh, Right, ReconcileInv, FlowInv, RedisTypeOK
    <2>6. UNCHANGED <<counter, hasCounter>> \/ CorrectCounter \/ ~hasCounter'[Event]
      BY <2>1, ReconciledAssumption DEF ReconcileNext, Reconcile, CountAvailable, CompareCounter,
         RecallMismatch, NoteMismatch, ForgetMismatch, Goes, RunFails, MismatchLapses, LoseAll, LoseRedis,
         vars, redisVars
    <2>7. Right => Right' \/ ~hasCounter'[Event]
      BY <2>3, <2>5, <2>6 DEF Right
    <2> QED BY <2>4, <2>5, <2>7
  <1> QED BY <1>1, ReconcileInvariant, PTL DEF ReconcileSpec, QuietRunsAreSound
=============================================================================
