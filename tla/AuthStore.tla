----------------------------- MODULE AuthStore -----------------------------
(***************************************************************************)
(* The tables of apps/api/prisma/schema.prisma behind accounts and         *)
(* sessions, the browsers that hold refresh-token cookies, and the         *)
(* requests in flight.  A user's row and its user_credentials row are one  *)
(* record: password None is a user without credentials.                    *)
(*                                                                         *)
(* A password stands for its argon2id hash, a token id for the signed      *)
(* refresh token and its stored hash.  lockedUntil is whether it lies in   *)
(* the future; time passes by the actions LockExpires and TokenExpires.    *)
(***************************************************************************)
EXTENDS Naturals, FiniteSets

CONSTANTS
  Users,              \* ids of users rows
  Admins,             \* ids of admin_users rows
  Emails,
  Passwords,
  Tokens,             \* ids (jti) of refresh_tokens rows
  Browsers,           \* cookie jars
  Slots,              \* requests in flight at once
  Workloads,          \* bound: sets of operations that one behaviour may use
  LOCKOUT_THRESHOLD,
  MaxWrong            \* bound: wrong passwords tried per user

ASSUME ThresholdAssumption ==
  LOCKOUT_THRESHOLD \in Nat \ {0} /\ MaxWrong \in Nat

(* One process serves so many requests at once, however many. *)
ASSUME SlotsAssumption == IsFiniteSet(Slots)

VARIABLES
  users,      \* users with their user_credentials
  admins,     \* admin_users
  tokens,     \* refresh_tokens
  cookie,     \* the refresh token each browser holds
  req,        \* what the request in each slot will do next
  workload,   \* the operations of this behaviour, one of Workloads
  wrong,      \* history: wrong passwords ever tried per user
  closed,     \* history: tokens logged out
  overlapped, \* history: two requests have been in flight at once
  faulted     \* history: a request or its response was lost

history == <<wrong, closed>>
authVars == <<users, admins, tokens, cookie, req, workload, wrong, closed,
              overlapped, faulted>>

None == "none"
Idle == [op |-> "idle"]
NoAccount == [email |-> None]
NoToken == [owner |-> None]

ASSUME NoneAssumption ==
  None \notin Emails \cup Passwords \cup Users \cup Admins \cup Tokens

UserRow == [email : Emails, deleted : BOOLEAN, password : Passwords \cup {None},
            failedLoginAttempts : Nat, locked : BOOLEAN]
AdminRow == [email : Emails, deleted : BOOLEAN, isActive : BOOLEAN,
             password : Passwords]

(* parent and session are history: the token that was rotated into this    *)
(* one, and the first token of the chain.                                  *)
TokenRow == [owner : Users \cup Admins, revoked : BOOLEAN, expired : BOOLEAN,
             parent : Tokens \cup {None}, session : Tokens]

LiveUser(u) == users[u] # NoAccount /\ ~ users[u].deleted
LiveAdmin(a) == admins[a] # NoAccount /\ ~ admins[a].deleted
UserWith(e, u) == LiveUser(u) /\ users[u].email = e
AdminWith(e, a) == LiveAdmin(a) /\ admins[a].email = e

(* users_email_key and admin_users_email_key, partial indexes over the     *)
(* rows that are not deleted: may row u have e-mail e?                     *)
UserEmailAdmitted(u, e) == \A v \in Users \ {u} : ~ UserWith(e, v)
AdminEmailAdmitted(a, e) == \A b \in Admins \ {a} : ~ AdminWith(e, b)

Usable(t) == tokens[t] # NoToken /\ ~ tokens[t].revoked /\ ~ tokens[t].expired

-----------------------------------------------------------------------------
(* A request of the given operation arrives in slot h, and its first await *)
(* leaves it with r.                                                       *)
Begin(h, operation, r) ==
  /\ operation \in workload
  /\ req[h] = Idle
  /\ req' = [req EXCEPT ![h] = r]
  /\ overlapped' = (overlapped \/ \E k \in Slots : req[k] # Idle)
  /\ UNCHANGED <<workload, faulted>>

Proceed(h, r) ==
  /\ req' = [req EXCEPT ![h] = r]
  /\ UNCHANGED <<workload, overlapped, faulted>>

Finish(h) == Proceed(h, Idle)

(* The process or the connection stops: what was committed stays, and the  *)
(* browser hears nothing.                                                  *)
Abort(h) ==
  /\ req[h] # Idle
  /\ req' = [req EXCEPT ![h] = Idle]
  /\ faulted' = TRUE
  /\ UNCHANGED <<users, admins, tokens, cookie, workload, history, overlapped>>
=============================================================================
