----------------------------- MODULE MCWorkers -----------------------------
(* Model checking of Workers: three runs, and two holds scanned one at a time. *)
EXTENDS Workers
=============================================================================
