---------------------------- MODULE Entitlement ----------------------------
(***************************************************************************)
(* What the membership and payment code promises, without requests, tables *)
(* or webhooks: a customer who has paid for a subscription becomes a       *)
(* member through one of the subscriptions paid for, holds one membership  *)
(* at most and keeps it.                                                   *)
(***************************************************************************)
CONSTANTS Users, Subs

VARIABLES
  paid,     \* the subscriptions each user has paid for at Razorpay
  member    \* the memberships each user holds

vars == <<paid, member>>

TypeOK == paid \in [Users -> SUBSET Subs] /\ member \in [Users -> SUBSET Subs]

Init ==
  /\ paid = [u \in Users |-> {}]
  /\ member = [u \in Users |-> {}]

Pay(u, s) ==
  /\ s \notin UNION {paid[v] : v \in Users \ {u}}
  /\ paid' = [paid EXCEPT ![u] = @ \cup {s}]
  /\ UNCHANGED member

Grant(u) ==
  /\ member[u] = {}
  /\ \E s \in paid[u] : member' = [member EXCEPT ![u] = {s}]
  /\ UNCHANGED paid

Next == \E u \in Users : Grant(u) \/ \E s \in Subs : Pay(u, s)

SafeSpec == Init /\ [][Next]_vars

(* A paying customer does become a member. *)
Spec == SafeSpec /\ \A u \in Users : WF_vars(Grant(u))
=============================================================================
