------------------------ MODULE MCSeatTransactions ------------------------
(* Model checking of SeatTransactions: two sessions of two users on one seat. *)
EXTENDS SeatTransactions
=============================================================================
