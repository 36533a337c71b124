------------------------------ MODULE Lockout ------------------------------
(***************************************************************************)
(* What the lockout of customer logins promises when every attempt counts  *)
(* at once: LOCKOUT_THRESHOLD wrong passwords in a row lock the account,   *)
(* and so does every further one after a lock has expired.                 *)
(***************************************************************************)
EXTENDS Naturals

CONSTANTS Users, LOCKOUT_THRESHOLD

VARIABLES
  attempts,  \* wrong passwords in a row
  locked

Wrong(u) ==
  /\ ~ locked[u]
  /\ attempts' = [attempts EXCEPT ![u] = @ + 1]
  /\ locked' = [locked EXCEPT ![u] = attempts[u] + 1 >= LOCKOUT_THRESHOLD]

Right(u) ==
  /\ ~ locked[u]
  /\ attempts' = [attempts EXCEPT ![u] = 0]
  /\ UNCHANGED locked

Expire(u) ==
  /\ locked[u]
  /\ locked' = [locked EXCEPT ![u] = FALSE]
  /\ UNCHANGED attempts

Init ==
  /\ attempts = [u \in Users |-> 0]
  /\ locked = [u \in Users |-> FALSE]

Next == \E u \in Users : Wrong(u) \/ Right(u) \/ Expire(u)

Spec == Init /\ [][Next]_<<attempts, locked>>
=============================================================================
