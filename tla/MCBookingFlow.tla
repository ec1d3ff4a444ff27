--------------------------- MODULE MCBookingFlow ---------------------------
(* Model checking of BookingFlow: two handlers and two events of one seat. *)
EXTENDS FlowView, TLC

CONSTANTS e1, e2, s1, s2

TwoHalls == s1 :> e1 @@ s2 :> e2

SwapHalls == s1 :> s2 @@ s2 :> s1 @@ e1 :> e2 @@ e2 :> e1

Symmetry == Permutations(Procs) \cup Permutations(Users) \cup {SwapHalls}

View == <<FlowView, clock, intact>>
=============================================================================
