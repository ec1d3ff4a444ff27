----------------------------- MODULE MCCheckout -----------------------------
(* Model checking of Checkout: two bookings of one user, and their requests. *)
EXTENDS Checkout, TLC

\* Nothing tells seats, bookings or requests apart.
Symmetric == Permutations(Seats) \cup Permutations(Bookings) \cup Permutations(Calls)
=============================================================================
