--------------------------- MODULE WorkersProofs ---------------------------
(***************************************************************************)
(* Proofs about Workers, for any number of runs, bookings and faults.  The  *)
(* lock's argument is that a run which is not late still has it; a seat's   *)
(* that whoever has ended a hold is the only one about to free its seat.    *)
(***************************************************************************)
EXTENDS Workers, SeatLedgerProofs

RunsTypeOK ==
    /\ lock \in Runs \cup {Nil}
    /\ overdue \in SUBSET Bookings
    /\ late \in SUBSET {r \in Runs : wpc[r] # "idle"}
    /\ wpc     \in [Runs -> RunPcs]
    /\ batch   \in [Runs -> SUBSET Bookings]
    /\ freeing \in [Runs -> Bookings \cup {Nil}]
    /\ freed   \in [Bookings -> Nat]
    /\ faults  \in 0..MaxFaults

RunFits(r) ==
    /\ batch[r] # {} <=> wpc[r] \in {"expire", "free"}
    /\ freeing[r] # Nil <=> wpc[r] = "free"

HoldsLock == \A r \in Runs : wpc[r] # "idle" /\ r \notin late => lock = r

\* Between the end of a hold and the release of its seat.
SoleReleaser ==
    \A r \in Runs : wpc[r] = "free" =>
        /\ bstatus[freeing[r]] = "expired" /\ freed[freeing[r]] = 0
        /\ \A q \in Runs : wpc[q] = "free" /\ freeing[q] = freeing[r] => q = r

LockInv == RunsTypeOK /\ (\A r \in Runs : RunFits(r)) /\ HoldsLock

WorkersInv == LedgerInv /\ LockInv /\ SoleReleaser /\ FreedOnce

-----------------------------------------------------------------------------
\* No run is under way and no seat has been freed at the start.
LEMMA WorkersInitInv == Init => WorkersInv
  <1> SUFFICES ASSUME Init PROVE WorkersInv
    OBVIOUS
  <1>1. LedgerInv
    BY LedgerInitInv DEF Init
  <1>2. RunsTypeOK
    BY WorkersAssumption DEF Init, RunsTypeOK, RunPcs
  <1>3. (\A r \in Runs : RunFits(r)) /\ HoldsLock
    BY DEF Init, RunFits, HoldsLock
  <1>4. SoleReleaser /\ FreedOnce
    BY DEF Init, SoleReleaser, FreedOnce
  <1> QED BY <1>1, <1>2, <1>3, <1>4 DEF WorkersInv, LockInv

\* Every step of the workers or of a user is a ledger step or leaves it alone.
LEMMA WorkersStepLedger == [Next]_vars => [LedgerNext]_ledgerVars
  <1> SUFFICES ASSUME [Next]_vars PROVE [LedgerNext]_ledgerVars
    OBVIOUS
  <1>1. ASSUME NEW r \in Runs, Run(r) PROVE [LedgerNext]_ledgerVars
    BY <1>1 DEF Run, Scan, FreeSeat, Unlock, ExpireOne, SkipOne, LedgerNext
  <1>2. ASSUME NEW r \in Runs, Acquire(r) \/ ScanFails(r) \/ FreeFails(r) \/ Crash(r)
        PROVE  UNCHANGED ledgerVars
    BY <1>2 DEF Acquire, ScanFails, FreeFails, Crash
  <1>3. ASSUME NEW r \in Runs, NEW b \in Bookings, ExpireFails(r, b) PROVE UNCHANGED ledgerVars
    BY <1>3 DEF ExpireFails
  <1>4. ASSUME NEW b \in Bookings, Requests(b) \/ RunOut(b) PROVE [LedgerNext]_ledgerVars
    BY <1>4 DEF Requests, RunOut, LedgerNext
  <1>5. Lapse \/ UNCHANGED vars => UNCHANGED ledgerVars
    BY DEF Lapse, vars
  <1> QED BY <1>1, <1>2, <1>3, <1>4, <1>5 DEF Next

\* Nothing brings an expired booking back.
LEMMA ExpiredStays ==
    ASSUME LedgerTypeOK, [LedgerNext]_ledgerVars, NEW b \in Bookings, bstatus[b] = "expired"
    PROVE  bstatus'[b] = "expired"
  <1> USE DEF LedgerTypeOK
  <1>1. ASSUME NEW c \in Bookings, NEW u \in Users, NEW s \in Seats, Reserve(c, u, s)
        PROVE  bstatus'[b] = "expired"
    BY <1>1 DEF Reserve
  <1>2. ASSUME NEW c \in Bookings, NEW from \in ActiveStatus, NEW to, NEW seatTo, Transition(c, from, to, seatTo)
        PROVE  bstatus'[b] = "expired"
    BY <1>2 DEF Transition, ActiveStatus
  <1>3. ASSUME NEW c \in Bookings, Confirm(c) \/ Compensate(c) \/ Expire(c) \/ \E u \in Users : Cancel(c, u)
        PROVE  bstatus'[b] = "expired"
    BY <1>2, <1>3 DEF Confirm, Compensate, Expire, Cancel, ActiveStatus
  <1>4. UNCHANGED ledgerVars => bstatus'[b] = "expired"
    BY DEF ledgerVars
  <1> QED BY <1>1, <1>3, <1>4 DEF LedgerNext

-----------------------------------------------------------------------------
(* The lock and the state of the runs.                                      *)

\* Taking the lock: whoever was under way without it is late.
LEMMA AcquireLock ==
    ASSUME LockInv, NEW r \in Runs, Acquire(r)
    PROVE  LockInv'
  <1>1. RunsTypeOK'
    BY DEF LockInv, RunsTypeOK, Acquire, Goes, RunPcs
  <1>2. \A q \in Runs : RunFits(q)'
    BY DEF LockInv, RunsTypeOK, RunFits, Acquire, Goes
  <1>3. HoldsLock'
    BY WorkersAssumption DEF LockInv, RunsTypeOK, HoldsLock, Acquire, Goes
  <1> QED BY <1>1, <1>2, <1>3 DEF LockInv

\* Losing the lock makes its run late.
LEMMA LapseLock == LockInv /\ Lapse => LockInv'
  <1> SUFFICES ASSUME LockInv, Lapse PROVE LockInv'
    OBVIOUS
  <1>1. RunsTypeOK'
    BY DEF LockInv, RunsTypeOK, Lapse
  <1>2. \A q \in Runs : RunFits(q)'
    BY DEF LockInv, RunFits, Lapse
  <1>3. HoldsLock'
    BY DEF LockInv, RunsTypeOK, HoldsLock, Lapse
  <1> QED BY <1>1, <1>2, <1>3 DEF LockInv

\* A run that ends, or dies, leaves the lock of any other run alone.
LEMMA EndLock ==
    ASSUME LockInv, NEW r \in Runs, Unlock(r) \/ Crash(r)
    PROVE  LockInv'
  <1>1. RunsTypeOK'
    <2>1. CASE Unlock(r)
      BY <2>1 DEF LockInv, RunsTypeOK, Unlock, Goes, RunPcs
    <2>2. CASE Crash(r)
      <3>1. faults' \in 0..MaxFaults
        BY <2>2, WorkersAssumption DEF LockInv, RunsTypeOK, Crash, Fault
      <3> QED BY <2>2, <3>1 DEF LockInv, RunsTypeOK, Crash, Goes, RunPcs
    <2> QED BY <2>1, <2>2
  <1>2. \A q \in Runs : RunFits(q)'
    BY DEF LockInv, RunsTypeOK, RunFits, Unlock, Crash, Goes
  <1>3. HoldsLock'
    BY DEF LockInv, RunsTypeOK, HoldsLock, Unlock, Crash, Goes
  <1> QED BY <1>1, <1>2, <1>3 DEF LockInv

\* A run that goes on with what is left of its batch.
LEMMA GoOnLock ==
    ASSUME LockInv, NEW r \in Runs, NEW rest \in SUBSET Bookings, GoesOn(r, rest),
           wpc[r] # "idle", UNCHANGED <<lock, late, overdue>>,
           faults' \in 0..MaxFaults, freed' \in [Bookings -> Nat],
           freeing' = freeing \/ freeing' = [freeing EXCEPT ![r] = Nil],
           wpc[r] = "free" => freeing'[r] = Nil
    PROVE  LockInv'
  <1>1. RunsTypeOK'
    BY DEF LockInv, RunsTypeOK, GoesOn, Goes, RunPcs
  <1>2. \A q \in Runs : RunFits(q)'
    BY DEF LockInv, RunsTypeOK, RunFits, GoesOn, Goes
  <1>3. HoldsLock'
    BY DEF LockInv, RunsTypeOK, HoldsLock, GoesOn, Goes
  <1> QED BY <1>1, <1>2, <1>3 DEF LockInv

\* Ending a hold, and a scan that fails.
LEMMA StepLock ==
    ASSUME LockInv, NEW r \in Runs, ScanFails(r) \/ \E b \in Bookings : ExpireOne(r, b)
    PROVE  LockInv'
  <1>1. faults' \in 0..MaxFaults
    BY WorkersAssumption DEF LockInv, RunsTypeOK, ScanFails, ExpireOne, Fault
  <1>2. RunsTypeOK'
    BY <1>1 DEF LockInv, RunsTypeOK, ScanFails, ExpireOne, Goes, RunPcs
  <1>3. \A q \in Runs : RunFits(q)'
    BY WorkersAssumption DEF LockInv, RunsTypeOK, RunFits, ScanFails, ExpireOne, Goes
  <1>4. HoldsLock'
    BY DEF LockInv, RunsTypeOK, HoldsLock, ScanFails, ExpireOne, Goes
  <1> QED BY <1>2, <1>3, <1>4 DEF LockInv

\* Every step keeps the lock's invariant.
LEMMA LockStep == LockInv /\ [Next]_vars => LockInv'
  <1> SUFFICES ASSUME LockInv, [Next]_vars PROVE LockInv'
    OBVIOUS
  <1>1. ASSUME NEW r \in Runs, Run(r) PROVE LockInv'
    <2>1. CASE Scan(r)
      <3>1. PICK found \in SUBSET Bookings : GoesOn(r, found)
        BY <2>1 DEF Scan, Overdue, LockInv, RunsTypeOK
      <3> QED BY <2>1, <3>1, GoOnLock DEF Scan, LockInv, RunsTypeOK
    <2>2. CASE FreeSeat(r)
      <3>1. freed' \in [Bookings -> Nat]
        BY <2>2 DEF FreeSeat, LockInv, RunFits, RunsTypeOK
      <3>2. freeing'[r] = Nil /\ batch[r] \ {freeing[r]} \in SUBSET Bookings
        BY <2>2 DEF FreeSeat, LockInv, RunsTypeOK
      <3> QED BY <2>2, <3>1, <3>2, GoOnLock DEF FreeSeat, LockInv, RunsTypeOK
    <2>3. ASSUME NEW b \in Bookings, SkipOne(r, b) PROVE LockInv'
      <3>1. batch[r] \ {b} \in SUBSET Bookings
        BY DEF LockInv, RunsTypeOK
      <3> QED BY <2>3, <3>1, GoOnLock DEF SkipOne, LockInv, RunsTypeOK
    <2> QED BY <1>1, <2>1, <2>2, <2>3, EndLock, StepLock DEF Run
  <1>2. ASSUME NEW r \in Runs, NEW b \in Bookings, ExpireFails(r, b) PROVE LockInv'
    <2>1. batch[r] \ {b} \in SUBSET Bookings
      BY DEF LockInv, RunsTypeOK
    <2>2. faults' \in 0..MaxFaults
      BY <1>2, WorkersAssumption DEF ExpireFails, Fault, LockInv, RunsTypeOK
    <2> QED BY <1>2, <2>1, <2>2, GoOnLock DEF ExpireFails, LockInv, RunsTypeOK
  <1>3. ASSUME NEW b \in Bookings, Requests(b) \/ RunOut(b) PROVE LockInv'
    BY <1>3 DEF Requests, RunOut, workerVars, LockInv, RunsTypeOK, RunFits, HoldsLock
  <1>4. CASE UNCHANGED vars
    BY <1>4 DEF vars, workerVars, LockInv, RunsTypeOK, RunFits, HoldsLock
  <1>5. ASSUME NEW r \in Runs, FreeFails(r) PROVE LockInv'
    <2>1. freeing'[r] = Nil /\ batch[r] \ {freeing[r]} \in SUBSET Bookings
      BY <1>5 DEF FreeFails, LockInv, RunsTypeOK
    <2>2. faults' \in 0..MaxFaults
      BY <1>5, WorkersAssumption DEF FreeFails, Fault, LockInv, RunsTypeOK
    <2> QED BY <1>5, <2>1, <2>2, GoOnLock DEF FreeFails, LockInv, RunsTypeOK
  <1> QED BY <1>1, <1>2, <1>3, <1>4, <1>5, AcquireLock, LapseLock, EndLock, StepLock DEF Next

-----------------------------------------------------------------------------
(* The seats to free.                                                       *)

\* Steps that free nothing and start to free nothing.
LEMMA ReleaseKept ==
    ASSUME LedgerInv, LockInv, SoleReleaser, FreedOnce, [LedgerNext]_ledgerVars,
           freed' = freed,
           \A q \in Runs : wpc'[q] = "free" => wpc[q] = "free" /\ freeing'[q] = freeing[q]
    PROVE  SoleReleaser' /\ FreedOnce'
  <1>1. \A b \in Bookings : bstatus[b] = "expired" => bstatus'[b] = "expired"
    BY ExpiredStays DEF LedgerInv
  <1>2. \A q \in Runs : wpc[q] = "free" => freeing[q] \in Bookings
    BY DEF LockInv, RunFits, RunsTypeOK
  <1>3. SoleReleaser'
    BY <1>1, <1>2 DEF SoleReleaser
  <1>4. FreedOnce'
    BY <1>1 DEF FreedOnce
  <1> QED BY <1>3, <1>4

\* Only one run finds a hold still pending: it alone frees the seat.
LEMMA ReleaseStarts ==
    ASSUME LedgerInv, LockInv, SoleReleaser, FreedOnce,
           NEW r \in Runs, NEW b \in Bookings, ExpireOne(r, b)
    PROVE  SoleReleaser' /\ FreedOnce'
  <1>1. bstatus[b] = "pending" /\ bstatus' = [bstatus EXCEPT ![b] = "expired"] /\ freed' = freed
    BY DEF ExpireOne, Expire, Transition
  <1>2. freed[b] = 0 /\ \A q \in Runs : wpc[q] = "free" => freeing[q] # b
    BY <1>1 DEF FreedOnce, SoleReleaser
  <1>3. wpc' = [wpc EXCEPT ![r] = "free"] /\ freeing' = [freeing EXCEPT ![r] = b] /\ wpc[r] # "free"
    BY DEF ExpireOne, Goes
  <1>4. \A q \in Runs : wpc'[q] = "free" => (q = r /\ freeing'[q] = b) \/ (q # r /\ wpc[q] = "free" /\ freeing'[q] = freeing[q])
    BY <1>3 DEF LockInv, RunsTypeOK
  <1>5. \A c \in Bookings : bstatus'[c] = "expired" <=> c = b \/ bstatus[c] = "expired"
    BY <1>1 DEF LedgerInv, LedgerTypeOK
  <1>6. \A q \in Runs : wpc[q] = "free" => freeing[q] \in Bookings
    BY DEF LockInv, RunFits, RunsTypeOK
  <1>7. SoleReleaser'
    BY <1>1, <1>2, <1>4, <1>5, <1>6 DEF SoleReleaser
  <1>8. FreedOnce'
    BY <1>1, <1>5 DEF FreedOnce
  <1> QED BY <1>7, <1>8

\* The one run that frees a seat is done with it for good.
LEMMA ReleaseEnds ==
    ASSUME LedgerInv, LockInv, SoleReleaser, FreedOnce, NEW r \in Runs, FreeSeat(r)
    PROVE  SoleReleaser' /\ FreedOnce'
  <1> DEFINE b == freeing[r]
  <1>1. b \in Bookings /\ wpc[r] = "free"
    BY DEF FreeSeat, LockInv, RunFits, RunsTypeOK
  <1>2. bstatus[b] = "expired" /\ freed[b] = 0 /\ bstatus' = bstatus
    BY <1>1 DEF SoleReleaser, FreeSeat, ledgerVars
  <1>3. freed' = [freed EXCEPT ![b] = @ + 1] /\ freed \in [Bookings -> Nat]
    BY DEF FreeSeat, LockInv, RunsTypeOK
  <1>4. freed'[b] = 1 /\ \A c \in Bookings : c # b => freed'[c] = freed[c]
    BY <1>1, <1>2, <1>3
  <1>5. \A q \in Runs : wpc'[q] = "free" => q # r /\ wpc[q] = "free" /\ freeing'[q] = freeing[q]
    BY DEF FreeSeat, GoesOn, Goes, LockInv, RunsTypeOK
  <1>6. \A q \in Runs : wpc'[q] = "free" => freeing[q] \in Bookings /\ freeing[q] # b
    BY <1>1, <1>5 DEF SoleReleaser, LockInv, RunFits, RunsTypeOK
  <1>7. SoleReleaser'
    BY <1>2, <1>4, <1>5, <1>6 DEF SoleReleaser
  <1>8. FreedOnce'
    BY <1>1, <1>2, <1>4 DEF FreedOnce
  <1> QED BY <1>7, <1>8

\* Every step keeps the whole invariant.
LEMMA WorkersStep == WorkersInv /\ [Next]_vars => WorkersInv'
  <1> SUFFICES ASSUME WorkersInv, [Next]_vars PROVE WorkersInv'
    OBVIOUS
  <1> USE DEF WorkersInv
  <1>1. [LedgerNext]_ledgerVars /\ LedgerInv' /\ LockInv'
    BY WorkersStepLedger, LedgerStepInv, LockStep
  <1>2. ASSUME freed' = freed, \A q \in Runs : wpc'[q] = "free" => wpc[q] = "free" /\ freeing'[q] = freeing[q]
        PROVE  SoleReleaser' /\ FreedOnce'
    BY <1>1, <1>2, ReleaseKept
  <1>3. ASSUME NEW r \in Runs, Run(r) PROVE SoleReleaser' /\ FreedOnce'
    <2>1. CASE Scan(r) \/ Unlock(r) \/ \E b \in Bookings : SkipOne(r, b)
      BY <1>2, <2>1 DEF Scan, Unlock, SkipOne, GoesOn, Goes, LockInv, RunsTypeOK
    <2>2. CASE FreeSeat(r)
      BY <2>2, ReleaseEnds
    <2>3. ASSUME NEW b \in Bookings, ExpireOne(r, b) PROVE SoleReleaser' /\ FreedOnce'
      BY <2>3, ReleaseStarts
    <2> QED BY <1>3, <2>1, <2>2, <2>3 DEF Run
  <1>4. ASSUME NEW r \in Runs, Acquire(r) \/ ScanFails(r) \/ FreeFails(r) \/ Crash(r)
        PROVE  SoleReleaser' /\ FreedOnce'
    BY <1>2, <1>4 DEF Acquire, ScanFails, FreeFails, GoesOn, Crash, Goes, LockInv, RunsTypeOK
  <1>5. ASSUME NEW r \in Runs, NEW b \in Bookings, ExpireFails(r, b) PROVE SoleReleaser' /\ FreedOnce'
    BY <1>2, <1>5 DEF ExpireFails, GoesOn, Goes, LockInv, RunsTypeOK
  <1>6. ASSUME Lapse \/ UNCHANGED vars \/ \E b \in Bookings : Requests(b) \/ RunOut(b)
        PROVE  SoleReleaser' /\ FreedOnce'
    <2>1. freed' = freed /\ wpc' = wpc /\ freeing' = freeing
      BY <1>6 DEF Lapse, Requests, RunOut, vars, workerVars
    <2> QED BY <1>2, <2>1
  <1>7. SoleReleaser' /\ FreedOnce'
    BY <1>3, <1>4, <1>5, <1>6 DEF Next
  <1> QED BY <1>1, <1>7

\* The invariant holds in every reachable state.
LEMMA WorkersInvariant == Spec => []WorkersInv
  <1> QED BY WorkersInitInv, WorkersStep, PTL DEF Spec

-----------------------------------------------------------------------------
\* A run has a batch and a booking to free exactly where it uses them.
THEOREM WorkersTypeCorrect == Spec => []WorkersTypeOK
  <1>1. WorkersInv => WorkersTypeOK
    BY DEF WorkersInv, LedgerInv, LockInv, RunsTypeOK, RunFits, WorkersTypeOK
  <1> QED BY <1>1, WorkersInvariant, PTL

\* However many instances run the worker, of two runs under way one has
\* outlived its lock: withLock keeps them apart for the lock's lifetime.
THEOREM LockKeepsRunsApart == Spec => []OneRunInTime
  <1>1. WorkersInv => OneRunInTime
    BY DEF WorkersInv, LockInv, HoldsLock, OneRunInTime
  <1> QED BY <1>1, WorkersInvariant, PTL

\* No seat is freed twice for one hold, whatever the lock does: the status check
\* under the booking's row lock is what decides.
THEOREM SeatsFreedOnce == Spec => []FreedOnce
  <1>1. WorkersInv => FreedOnce
    BY DEF WorkersInv
  <1> QED BY <1>1, WorkersInvariant, PTL

\* What the worker does to the tables is the ledger's, under any lapse of its
\* lock and any overlap of its runs, and so part of the orderly sale.
THEOREM WorkersImplementSale == Spec => LedgerSpec /\ ImplementsSale
  <1>1. Init => LedgerInit
    BY DEF Init
  <1>2. Spec => LedgerSpec
    BY <1>1, WorkersStepLedger, PTL DEF Spec, LedgerSpec
  <1> QED BY <1>2, LedgerImplementsSale
=============================================================================
