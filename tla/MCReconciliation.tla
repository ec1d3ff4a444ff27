-------------------------- MODULE MCReconciliation --------------------------
(* Model checking of Reconciliation: two handlers for one seat. *)
EXTENDS Reconciliation, FlowView, TLC

CONSTANTS e1, s1

OneHall == s1 :> e1

\* The clock has no influence where all users join at time 1 (MaxClock = 1), and
\* no property of this run reads intact.
View == <<FlowView, reconcilerVars>>
=============================================================================
