------------------------------ MODULE Ordering ------------------------------
(***************************************************************************)
(* Sorting and filtering of short lists, as the front ends and the API's   *)
(* listings use them, in terms the provers can open: they treat SortSeq    *)
(* and SelectSeq as built in.                                              *)
(***************************************************************************)
EXTENDS FiniteSets, Naturals

Rank(S, x) == Cardinality({y \in S : y <= x})

(* The numbers of a finite set, least first.                               *)
Ascending(S) == [n \in 1 .. Cardinality(S) |-> CHOOSE x \in S : Rank(S, x) = n]

(* The entries of a list at these positions, in their order.               *)
KeptAt(s, positions) ==
  LET at == Ascending(positions) IN [n \in DOMAIN at |-> s[at[n]]]
=============================================================================
