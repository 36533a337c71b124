---------------------------- MODULE AuthSessions ----------------------------
(***************************************************************************)
(* AuthService and AccountsService over the tables they share.             *)
(***************************************************************************)
EXTENDS AuthService, AccountsService

Registered(e, p) == [email |-> e, deleted |-> FALSE, password |-> p,
                     failedLoginAttempts |-> 0, locked |-> FALSE]
Appointed(e, p) == [email |-> e, deleted |-> FALSE, isActive |-> TRUE,
                    password |-> p]

(* Any users that have registered and gone again, and the administrators   *)
(* the seed and create have made; nobody is signed in.                     *)
Init ==
  /\ users \in [Users -> {NoAccount} \cup
                  {Registered(e, p) : e \in Emails, p \in Passwords}]
  /\ \A u, v \in Users :
       u # v => users[u] = NoAccount \/ users[u].email # users[v].email
  /\ admins \in [Admins -> {NoAccount} \cup
                   {Appointed(e, p) : e \in Emails, p \in Passwords}]
  /\ \A a, b \in Admins :
       a # b => admins[a] = NoAccount \/ admins[a].email # admins[b].email
  /\ tokens = [t \in Tokens |-> NoToken]
  /\ cookie = [b \in Browsers |-> None]
  /\ req = [h \in Slots |-> Idle]
  /\ workload \in Workloads
  /\ wrong = [u \in Users |-> 0]
  /\ closed = {}
  /\ overlapped = FALSE
  /\ faulted = FALSE

Next ==
  \/ AuthNext
  \/ AccountsNext
  \/ \E h \in Slots : Abort(h)

Spec == Init /\ [][Next]_authVars
-----------------------------------------------------------------------------
Principals == Users \cup Admins

AuthReq ==
  {Idle}
  \cup [op : {"register", "admin"}, browser : Browsers, email : Emails,
        password : Passwords]
  \cup [op : {"succeed"}, browser : Browsers, user : Users]
  \cup [op : {"fail"}, user : Users, failedLoginAttempts : Nat]
  \cup [op : {"issue"}, browser : Browsers, owner : Principals,
        parent : Tokens \cup {None}]
  \cup [op : {"respond"}, browser : Browsers, cookie : Tokens \cup {None}]
  \cup [op : {"revoke"}, browser : Browsers, token : Tokens]
  \cup [op : {"password"}, admin : Admins, password : Passwords]

(* The type of every table, cookie and request in flight. *)
TypeOK ==
  /\ users \in [Users -> {NoAccount} \cup UserRow]
  /\ admins \in [Admins -> {NoAccount} \cup AdminRow]
  /\ tokens \in [Tokens -> {NoToken} \cup TokenRow]
  /\ cookie \in [Browsers -> Tokens \cup {None}]
  /\ req \in [Slots -> AuthReq]
  /\ workload \in Workloads
  /\ wrong \in [Users -> Nat]
  /\ closed \subseteq Tokens
  /\ overlapped \in BOOLEAN
  /\ faulted \in BOOLEAN

(***************************************************************************)
(* Attempts that race lose counts and may even clear a lock, but never     *)
(* make one up: no account is locked, and no counter is above what was     *)
(* really tried, with fewer than LOCKOUT_THRESHOLD wrong passwords.        *)
(***************************************************************************)
LockNeedsFailures ==
  \A u \in Users : users[u] # NoAccount =>
    /\ users[u].failedLoginAttempts <= wrong[u]
    /\ users[u].locked => wrong[u] >= LOCKOUT_THRESHOLD

(***************************************************************************)
(* auth.service.ts:30 "after this many consecutive failed attempts, the    *)
(* account is locked": while no two requests overlap, reading the counter  *)
(* and writing it back two awaits later is Lockout's one step.             *)
(***************************************************************************)
attempts ==
  [u \in Users |-> IF users[u] = NoAccount THEN 0
                   ELSE users[u].failedLoginAttempts]
locked == [u \in Users |-> users[u] # NoAccount /\ users[u].locked]

L == INSTANCE Lockout

LockoutFollowed ==
  [][~ overlapped' => L!Next \/ UNCHANGED <<attempts, locked>>]_authVars

(***************************************************************************)
(* What rotation promises, and no more: an exchanged token is revoked, and *)
(* requests that follow one another exchange it once.  Refreshes that race *)
(* may all have read it before any of them revoked it, and each is given a *)
(* new token, valid beside the others: as many as there were requests in   *)
(* flight, and never one more for a request that comes later.              *)
(***************************************************************************)
Exchanged(t) == {c \in Tokens : tokens[c] # NoToken /\ tokens[c].parent = t}
Racing == IF overlapped THEN Cardinality(Slots) ELSE 1

RotationIsBounded ==
  \A t \in Tokens :
    /\ Exchanged(t) # {} => tokens[t].revoked
    /\ Cardinality(Exchanged(t)) <= Racing

(***************************************************************************)
(* Rotation signs nobody out: whatever refreshes, logins and logouts race, *)
(* of however many tabs, as long as none of them is cut short and each     *)
(* response arrives, a browser whose cookie refresh would refuse as        *)
(* revoked is about to be given another one, or none.                      *)
(***************************************************************************)
Answering(b) ==
  \E h \in Slots : req[h].op \in {"issue", "respond"} /\ req[h].browser = b

CookieStaysValid ==
  ~ faulted =>
    \A b \in Browsers :
      cookie[b] # None /\ tokens[cookie[b]].revoked => Answering(b)

(***************************************************************************)
(* Logging out ends the session: in sequence, and when no response is      *)
(* lost, no token of a session whose token was logged out can be used.     *)
(***************************************************************************)
LogoutEndsSession ==
  (~ overlapped /\ ~ faulted) =>
    \A c \in closed, t \in Tokens :
      (tokens[t] # NoToken /\ tokens[t].session = tokens[c].session) =>
        tokens[t].revoked
=============================================================================
