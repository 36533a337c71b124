----------------------- MODULE MCMembershipPayments ------------------------
(* Small instances of MembershipPayments for TLC. *)
EXTENDS MembershipPayments, TLC

(* One price with paise, so that a subunit conversion can go wrong. *)
MCPrices == {[rupees |-> 4999, paise |-> 0], [rupees |-> 1999, paise |-> 50]}

OnePrice == {[rupees |-> 1999, paise |-> 50]}

Symmetry ==
  Permutations(Users) \cup Permutations(Subs) \cup Permutations(Orders)
  \cup Permutations(MemberHandlers) \cup Permutations(OrderHandlers)
  \cup Permutations(HookHandlers)
=============================================================================
