----------------------------- MODULE MCFalseFix -----------------------------
(***************************************************************************)
(* Reconciliation with history variables: the handlers that have been under *)
(* way since the reconciler's last run, and whether one of them was still    *)
(* under way when the next run began.  They only observe.                   *)
(***************************************************************************)
EXTENDS Reconciliation, TLC

CONSTANTS e1, s1

OneHall == s1 :> e1

VARIABLES
    since,      \* handlers under way since the last run
    spanned     \* one of them has lasted from one run to the next

RunBegins == rpc = "idle" /\ rpc' = "compare"

FalseFixSpec ==
    /\ ReconcileInit /\ since = {} /\ spanned = FALSE
    /\ [][/\ ReconcileNext
          /\ since' = {p \in Procs : pc'[p] # "idle" /\ (rpc' # "idle" \/ p \in since)}
          /\ spanned' = (spanned \/ (RunBegins /\ since # {}))]_<<allVars, since, spanned>>

\* "It only fixes a mismatch that is still there on the next run, so a booking in
\* flight never triggers a false fix" (README.md): as long as nothing has failed
\* and no booking has been in flight at two runs, the counter and the seats in
\* flight add up.
NoFalseFix == faults = 0 /\ ~spanned => Balance(Event) = 0
=============================================================================
