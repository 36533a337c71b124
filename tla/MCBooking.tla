----------------------------- MODULE MCBooking -----------------------------
(* Booking for TLC; ids and handlers are interchangeable. *)
EXTENDS Booking, TLC

Symmetry ==
  Permutations(Bookings) \cup Permutations(AdminHandlers)
    \cup Permutations(Talents)
=============================================================================
