------------------------------ MODULE Workers ------------------------------
(***************************************************************************)
(* The expiry worker on several server instances: a timer on each of them   *)
(* starts a run every 30 seconds, a run goes on only with the lock in Redis,*)
(* scans for overdue holds, and ends each in a transaction of its own.  The *)
(* lock has a lifetime and the run has none, so a run can outlive its lock. *)
(*                                                                          *)
(* What a freed seat's release does is BookingFlow; here it is only counted.*)
(***************************************************************************)
EXTENDS SeatLedger, Integers, FiniteSets

CONSTANTS
    Runs,       \* runs that can be under way at once, on any instance
    Batch,      \* LIMIT of the scan
    MaxFaults   \* bound: crashes, failed scans, transactions and releases

ASSUME WorkersAssumption ==
    /\ Nil \notin Runs \cup Bookings
    /\ Batch \in Nat \ {0} /\ MaxFaults \in Nat
    /\ IsFiniteSet(Bookings)

VARIABLES
    lock,       \* lock:worker:expiry, the run whose uuid it holds
    late,       \* runs under way that have outlived their lock
    overdue,    \* bookings with expires_at < now()
    wpc,        \* what a run awaits next
    batch,      \* scanned bookings it has not done with
    freeing,    \* the booking it has just ended
    freed,      \* how often a booking's seat has been passed on
    faults

workerVars == <<lock, late, overdue, wpc, batch, freeing, freed, faults>>
vars == <<ledgerVars, workerVars>>

RunPcs == {"idle", "scan", "expire", "free", "unlock"}

Init ==
    /\ LedgerInit
    /\ lock = Nil /\ late = {} /\ overdue = {} /\ faults = 0
    /\ wpc     = [r \in Runs |-> "idle"]
    /\ batch   = [r \in Runs |-> {}]
    /\ freeing = [r \in Runs |-> Nil]
    /\ freed   = [b \in Bookings |-> 0]

Goes(r, label) == wpc' = [wpc EXCEPT ![r] = label]

\* What is left of the batch decides where a run goes on.
GoesOn(r, rest) ==
    /\ batch' = [batch EXCEPT ![r] = rest]
    /\ Goes(r, IF rest = {} THEN "unlock" ELSE "expire")

Fault == faults < MaxFaults /\ faults' = faults + 1

-----------------------------------------------------------------------------
(* withLock.                                                                *)

\* The timer fires and SET NX succeeds; without the lock the run is skipped.
Acquire(r) ==
    /\ wpc[r] = "idle"
    /\ lock = Nil
    /\ lock' = r
    /\ Goes(r, "scan")
    /\ UNCHANGED <<ledgerVars, late, overdue, batch, freeing, freed, faults>>

\* Mutant: SET NX without EX.
LapseNever == FALSE /\ UNCHANGED vars

\* The lock's 25 seconds are over.
Lapse ==
    /\ lock # Nil
    /\ lock' = Nil
    /\ late' = late \cup {r \in {lock} : wpc[r] # "idle"}
    /\ UNCHANGED <<ledgerVars, overdue, wpc, batch, freeing, freed, faults>>

\* Mutant: DEL without looking whose lock it is.
UnlockAny(r) ==
    /\ wpc[r] = "unlock"
    /\ lock' = Nil
    /\ late' = late \ {r}
    /\ Goes(r, "idle")
    /\ UNCHANGED <<ledgerVars, overdue, batch, freeing, freed, faults>>

\* RELEASE_LOCK: DEL if the lock is still this run's own.
Unlock(r) ==
    /\ wpc[r] = "unlock"
    /\ lock' = IF lock = r THEN Nil ELSE lock
    /\ late' = late \ {r}
    /\ Goes(r, "idle")
    /\ UNCHANGED <<ledgerVars, overdue, batch, freeing, freed, faults>>

-----------------------------------------------------------------------------
(* processExpiredReservations and _expireSingleBooking.                     *)

Overdue == {b \in overdue : bstatus[b] = "pending"}

\* Any of the overdue holds: the scan has no ORDER BY.
Scan(r) ==
    /\ wpc[r] = "scan"
    /\ \E found \in SUBSET Overdue :
        /\ Cardinality(found) = IF Cardinality(Overdue) < Batch THEN Cardinality(Overdue) ELSE Batch
        /\ GoesOn(r, found)
    /\ UNCHANGED <<ledgerVars, lock, late, overdue, freeing, freed, faults>>

\* Still pending under the row lock: end the hold, then free its seat ...
ExpireOne(r, b) ==
    /\ wpc[r] = "expire" /\ b \in batch[r]
    /\ Expire(b)
    /\ Goes(r, "free") /\ freeing' = [freeing EXCEPT ![r] = b]
    /\ UNCHANGED <<lock, late, overdue, batch, freed, faults>>

\* Mutant: the result of the transaction is not looked at.
SkipFrees(r, b) ==
    /\ wpc[r] = "expire" /\ b \in batch[r] /\ bstatus[b] # "pending"
    /\ Goes(r, "free") /\ freeing' = [freeing EXCEPT ![r] = b]
    /\ UNCHANGED <<ledgerVars, lock, late, overdue, batch, freed, faults>>

\* Mutant: one that is settled ends the loop.
SkipEnds(r, b) ==
    /\ wpc[r] = "expire" /\ b \in batch[r] /\ bstatus[b] # "pending"
    /\ Goes(r, "unlock")
    /\ UNCHANGED <<ledgerVars, lock, late, overdue, batch, freeing, freed, faults>>

\* ... paid, cancelled or ended by another run in the meantime: nothing to do.
SkipOne(r, b) ==
    /\ wpc[r] = "expire" /\ b \in batch[r] /\ bstatus[b] # "pending"
    /\ GoesOn(r, batch[r] \ {b})
    /\ UNCHANGED <<ledgerVars, lock, late, overdue, freeing, freed, faults>>

\* offerSeatToNextWaiter.
FreeSeat(r) ==
    LET b == freeing[r]
    IN  /\ wpc[r] = "free"
        /\ freed' = [freed EXCEPT ![b] = @ + 1]
        /\ freeing' = [freeing EXCEPT ![r] = Nil]
        /\ GoesOn(r, batch[r] \ {b})
        /\ UNCHANGED <<ledgerVars, lock, late, overdue, faults>>

\* One booking fails: logged, and the run goes on with the next.
ExpireFails(r, b) ==
    /\ wpc[r] = "expire" /\ b \in batch[r]
    /\ GoesOn(r, batch[r] \ {b})
    /\ Fault /\ UNCHANGED <<ledgerVars, lock, late, overdue, freeing, freed>>

\* Its hold has ended but its seat's release fails: nobody else frees the seat.
FreeFails(r) ==
    /\ wpc[r] = "free"
    /\ freeing' = [freeing EXCEPT ![r] = Nil]
    /\ GoesOn(r, batch[r] \ {freeing[r]})
    /\ Fault /\ UNCHANGED <<ledgerVars, lock, late, overdue, freed>>

\* The scan fails: the finally block gives the lock back.
ScanFails(r) ==
    /\ wpc[r] = "scan"
    /\ Goes(r, "unlock")
    /\ Fault /\ UNCHANGED <<ledgerVars, lock, late, overdue, batch, freeing, freed>>

\* The instance dies; its lock stays until it lapses.
Crash(r) ==
    /\ wpc[r] # "idle"
    /\ Goes(r, "idle")
    /\ batch' = [batch EXCEPT ![r] = {}]
    /\ freeing' = [freeing EXCEPT ![r] = Nil]
    /\ late' = late \ {r}
    /\ Fault /\ UNCHANGED <<ledgerVars, lock, overdue, freed>>

-----------------------------------------------------------------------------
(* The users, and time.                                                     *)

Requests(b) ==
    /\ \/ \E u \in Users, s \in Seats : Reserve(b, u, s)
       \/ Confirm(b) \/ Compensate(b)
       \/ \E u \in Users : Cancel(b, u)
    /\ UNCHANGED workerVars

RunOut(b) ==
    /\ bstatus[b] = "pending" /\ b \notin overdue
    /\ overdue' = overdue \cup {b}
    /\ UNCHANGED <<ledgerVars, lock, late, wpc, batch, freeing, freed, faults>>

Run(r) ==
    \/ Scan(r) \/ FreeSeat(r) \/ Unlock(r)
    \/ \E b \in Bookings : ExpireOne(r, b) \/ SkipOne(r, b)

Next ==
    \/ \E r \in Runs : Acquire(r) \/ Run(r) \/ ScanFails(r) \/ FreeFails(r) \/ Crash(r)
    \/ \E r \in Runs, b \in Bookings : ExpireFails(r, b)
    \/ \E b \in Bookings : Requests(b) \/ RunOut(b)
    \/ Lapse

Spec == Init /\ [][Next]_vars

\* Timers keep firing, a run goes on, and a lock does not outlive its time.
FairSpec ==
    /\ Spec
    /\ WF_vars(\E r \in Runs : Acquire(r))
    /\ \A r \in Runs : WF_vars(Run(r))
    /\ WF_vars(Lapse)

-----------------------------------------------------------------------------
(* Properties.                                                              *)

\* A run has a batch and a booking to free exactly where it uses them.
WorkersTypeOK ==
    /\ LedgerTypeOK
    /\ lock \in Runs \cup {Nil} /\ overdue \in SUBSET Bookings
    /\ late \in SUBSET {r \in Runs : wpc[r] # "idle"}
    /\ wpc     \in [Runs -> RunPcs]
    /\ batch   \in [Runs -> SUBSET Bookings]
    /\ freeing \in [Runs -> Bookings \cup {Nil}]
    /\ freed   \in [Bookings -> Nat]
    /\ faults  \in 0..MaxFaults
    /\ \A r \in Runs :
        /\ batch[r] # {} <=> wpc[r] \in {"expire", "free"}
        /\ freeing[r] # Nil <=> wpc[r] = "free"

\* "A Redis lock makes sure only one server instance runs it at a time"
\* (README.md), as far as it does: of two runs under way at once one has
\* outlived its lock.  A late run never takes away the lock of the next one.
OneRunInTime ==
    \A q, r \in Runs :
        wpc[q] # "idle" /\ wpc[r] # "idle" /\ q # r => q \in late \/ r \in late

\* A seat is freed at most once for each hold, also by two runs that have both
\* scanned it, and only for a hold that has expired.
FreedOnce ==
    \A b \in Bookings : freed[b] = 0 \/ (freed[b] = 1 /\ bstatus[b] = "expired")

\* "Expires before the next 30 s run, so a crashed instance can't block the
\* others" (expiryWorker.ts): every overdue hold ends, whoever has crashed with
\* the lock, whatever has failed, and also those that a scan leaves for the next.
OverdueEnds ==
    \A b \in Bookings : b \in overdue /\ bstatus[b] = "pending" ~> bstatus[b] # "pending"
=============================================================================
