-------------------------- MODULE BookingLifecycle --------------------------
(***************************************************************************)
(* What the booking code promises of every booking request's audit trail:  *)
(* it starts with the submission, and each later row takes the booking     *)
(* from the status it then has to one of the statuses allowed from there.  *)
(***************************************************************************)
EXTENDS Sequences, Naturals

CONSTANTS
  Bookings,
  Statuses,
  Initial,      \* the status a booking is submitted with
  Allowed       \* the statuses allowed after each status

VARIABLE trail  \* the rows of each booking, oldest first

Init == trail = [b \in Bookings |-> <<>>]

Submit(b) ==
  /\ trail[b] = <<>>
  /\ trail' = [trail EXCEPT ![b] =
       <<[previousStatus |-> "none", newStatus |-> Initial]>>]

Move(b, n) ==
  LET current == trail[b][Len(trail[b])].newStatus IN
  /\ trail[b] # <<>>
  /\ n \in Allowed[current]
  /\ trail' = [trail EXCEPT ![b] =
       Append(@, [previousStatus |-> current, newStatus |-> n])]

Next == \E b \in Bookings : Submit(b) \/ \E n \in Statuses : Move(b, n)

Spec == Init /\ [][Next]_trail
=============================================================================
