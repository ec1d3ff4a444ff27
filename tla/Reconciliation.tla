--------------------------- MODULE Reconciliation ---------------------------
(***************************************************************************)
(* The inventory reconciler beside the handlers of BookingFlow: a run every *)
(* five minutes that counts the available seats in the database, compares   *)
(* the counter in Redis, and overwrites it once the same mismatch has been   *)
(* seen by two runs.  Every await is a step and handlers run in between.    *)
(*                                                                          *)
(* One run at a time: what the lock around it does is module Workers.  A run *)
(* goes through the events one after the other; this is its part for one     *)
(* event, which is published and does not end (a run passes over all others, *)
(* and no code unpublishes one).  The other parts come between the query and *)
(* the first GET, and touch other keys.                                      *)
(***************************************************************************)
EXTENDS BookingFlow

CONSTANT
    Event       \* the event

ASSUME ReconciledAssumption == Event \in Events

VARIABLES
    rpc,        \* what the run awaits next
    actual,     \* available seats of the event by its query
    mismatch    \* inventory:mismatch:<event>, None if missing

reconcilerVars == <<rpc, actual, mismatch>>
allVars == <<vars, reconcilerVars>>

None == -1

ReconcileInit ==
    /\ Init
    /\ rpc = "idle" /\ actual = 0 /\ mismatch = None

Goes(label) == rpc' = label /\ UNCHANGED vars

-----------------------------------------------------------------------------
\* Mutant: held seats are counted too.
CountUnbooked ==
    /\ rpc = "idle"
    /\ actual' = Cardinality({s \in SeatsOf(Event) : seat[s] # "booked"})
    /\ Goes("compare") /\ UNCHANGED mismatch

\* The run starts with its query.
CountAvailable ==
    /\ rpc = "idle"
    /\ actual' = Cardinality(OnSale(Event))
    /\ Goes("compare") /\ UNCHANGED mismatch

\* GET of the counter: equal or missing means there is nothing to remember.
CompareCounter ==
    /\ rpc = "compare"
    /\ Goes(IF hasCounter[Event] /\ counter[Event] # actual THEN "recall" ELSE "forget")
    /\ UNCHANGED <<actual, mismatch>>

\* GET of the mismatch that the last run left.
RecallMismatch ==
    /\ rpc = "recall"
    /\ Goes(IF mismatch = actual THEN "correct" ELSE "note")
    /\ UNCHANGED <<actual, mismatch>>

CorrectCounter ==
    /\ rpc = "correct"
    /\ rpc' = "forget"
    /\ counter' = [counter EXCEPT ![Event] = actual]
    /\ hasCounter' = [hasCounter EXCEPT ![Event] = TRUE]
    /\ UNCHANGED <<tableVars, waiting, offers, clock, localVars, faultVars, actual, mismatch>>

\* Mutant: the wrong one of the two numbers is remembered.
NoteCounter ==
    /\ rpc = "note"
    /\ mismatch' = counter[Event] /\ actual' = 0
    /\ Goes("idle")

\* Mutant: SETNX, a mismatch once noted is kept whatever later runs see.
NoteFirstMismatch ==
    /\ rpc = "note"
    /\ mismatch' = (IF mismatch = None THEN actual ELSE mismatch) /\ actual' = 0
    /\ Goes("idle")

\* SETEX with the number of seats, for two intervals.
NoteMismatch ==
    /\ rpc = "note"
    /\ mismatch' = actual /\ actual' = 0
    /\ Goes("idle")

ForgetMismatch ==
    /\ rpc = "forget"
    /\ mismatch' = None /\ actual' = 0
    /\ Goes("idle")

\* A query or a command rejects, or the process dies: the run ends there.
RunFails ==
    /\ rpc # "idle"
    /\ rpc' = "idle" /\ actual' = 0
    /\ Fault /\ UNCHANGED <<tableVars, redisVars, localVars, intact, mismatch>>

\* Two intervals without a run that renews it, and the mismatch is forgotten.
MismatchLapses ==
    /\ mismatch # None
    /\ mismatch' = None
    /\ Fault /\ UNCHANGED <<tableVars, redisVars, localVars, intact, rpc, actual>>

Reconcile ==
    \/ CountAvailable \/ CompareCounter \/ RecallMismatch
    \/ CorrectCounter \/ NoteMismatch \/ ForgetMismatch

\* The keys of the reconciler are lost with the rest.
LoseAll == LoseRedis /\ mismatch' = None /\ UNCHANGED <<rpc, actual>>

Handlers ==
    /\ \E p \in Procs : Step(p) \/ Request(p) \/ Failure(p)
    /\ UNCHANGED reconcilerVars

ReconcileNext ==
    \/ Handlers
    \/ Reconcile
    \/ RunFails \/ MismatchLapses \/ LoseAll

ReconcileSpec == ReconcileInit /\ [][ReconcileNext]_allVars

\* The interval timer starts run after run, and Node runs each of them on.
FairReconcileSpec ==
    /\ ReconcileSpec
    /\ WF_allVars(Reconcile)
    /\ \A p \in Procs : WF_allVars(Step(p) /\ UNCHANGED reconcilerVars)

-----------------------------------------------------------------------------
(* Properties.                                                              *)

\* A remembered mismatch is a number of seats, also when the counter is not.
ReconcileTypeOK ==
    /\ FlowTypeOK
    /\ rpc \in {"idle", "compare", "recall", "correct", "note", "forget"}
    /\ actual \in 0..Cardinality(Seats)
    /\ mismatch \in {None} \cup 0..Cardinality(Seats)

Quiet == \A p \in Procs : At(p, "idle")

\* "This job puts it back in line" (inventoryReconciler.ts): whatever faults,
\* and false corrections of its own, have left behind, once booking has gone
\* quiet the counter comes to be the number of available seats and stays it.
DriftHeals ==
    <>[](Quiet /\ hasCounter[Event]) => <>[](counter[Event] = Cardinality(OnSale(Event)))

\* What the run has counted is what is available now, and the counter is right.
Fresh == rpc # "idle" => actual = Cardinality(OnSale(Event))
Right == hasCounter[Event] /\ counter[Event] = Cardinality(OnSale(Event))

\* What the healing rests on: from the first run that starts when booking is
\* quiet, every count is fresh, a correction makes the counter right, and no
\* later one, nor a fault short of losing it, makes it wrong again.
QuietRunsAreSound ==
    [][Quiet /\ Quiet' /\ Fresh =>
        /\ Fresh'
        /\ CorrectCounter => Right'
        /\ Right => Right' \/ ~hasCounter'[Event]]_allVars
=============================================================================
