------------------------ MODULE AuthSessions_proofs ------------------------
(***************************************************************************)
(* Proofs about AuthSessions, for any numbers of accounts, browsers,       *)
(* tokens and concurrent requests.  The invariant says what a request in   *)
(* flight still knows of the rows it read before its last await.           *)
(***************************************************************************)
EXTENDS AuthSessions, TLAPS

Issued(t) == tokens[t] # NoToken

RequestSound(r) ==
  /\ r.op = "succeed" => users[r.user] # NoAccount
  /\ r.op = "fail" => /\ users[r.user] # NoAccount
                      /\ r.failedLoginAttempts < wrong[r.user]
  /\ r.op = "issue" /\ r.parent # None =>
       Issued(r.parent) /\ tokens[r.parent].revoked
  /\ r.op = "respond" /\ r.cookie # None => Issued(r.cookie)
  /\ r.op = "revoke" => Issued(r.token)
  /\ r.op = "password" => admins[r.admin] # NoAccount

RequestsSound == \A h \in Slots : RequestSound(req[h])

CookiesAreIssued == \A b \in Browsers : cookie[b] # None => Issued(cookie[b])

ParentsAreIssued ==
  \A t \in Tokens :
    Issued(t) /\ tokens[t].parent # None => Issued(tokens[t].parent)

RotationRevokesFirst ==
  \A t \in Tokens :
    Issued(t) /\ tokens[t].parent # None => tokens[tokens[t].parent].revoked

IInv ==
  /\ TypeOK
  /\ RequestsSound
  /\ CookiesAreIssued
  /\ ParentsAreIssued
  /\ RotationRevokesFirst
  /\ LockNeedsFailures

-----------------------------------------------------------------------------
LEMMA Rows ==
  ASSUME TypeOK
  PROVE  /\ \A u \in Users : users[u] # NoAccount => users[u] \in UserRow
         /\ \A a \in Admins : admins[a] # NoAccount => admins[a] \in AdminRow
         /\ \A t \in Tokens : Issued(t) => tokens[t] \in TokenRow
  BY DEF TypeOK, Issued

LEMMA Absent ==
  /\ NoAccount \notin UserRow
  /\ NoAccount \notin AdminRow
  /\ NoToken \notin TokenRow
  BY NoneAssumption DEF NoAccount, NoToken, UserRow, AdminRow, TokenRow

(* The fields of a request in flight. *)
LEMMA Requests ==
  ASSUME NEW r \in AuthReq
  PROVE  /\ r.op \in {"register", "admin"} =>
              /\ r.browser \in Browsers /\ r.email \in Emails
              /\ r.password \in Passwords
         /\ r.op = "succeed" => r.browser \in Browsers /\ r.user \in Users
         /\ r.op = "fail" => r.user \in Users /\ r.failedLoginAttempts \in Nat
         /\ r.op = "issue" => /\ r.browser \in Browsers /\ r.owner \in Principals
                              /\ r.parent \in Tokens \cup {None}
         /\ r.op = "respond" => /\ r.browser \in Browsers
                                /\ r.cookie \in Tokens \cup {None}
         /\ r.op = "revoke" => r.browser \in Browsers /\ r.token \in Tokens
         /\ r.op = "password" => r.admin \in Admins /\ r.password \in Passwords
  BY DEF AuthReq, Idle

(***************************************************************************)
(* What every step keeps of the rows that requests remember.               *)
(***************************************************************************)
Keeps ==
  /\ \A u \in Users : users[u] # NoAccount => users'[u] # NoAccount
  /\ \A a \in Admins : admins[a] # NoAccount => admins'[a] # NoAccount
  /\ \A t \in Tokens : Issued(t) =>
       /\ tokens'[t] # NoToken
       /\ tokens[t].revoked => tokens'[t].revoked
  /\ \A u \in Users : wrong[u] <= wrong'[u]

LEMMA SoundnessKept ==
  ASSUME TypeOK, TypeOK', Keeps, NEW r \in AuthReq, RequestSound(r)
  PROVE  RequestSound(r)'
<1>1. \A u \in Users : wrong[u] \in Nat /\ wrong'[u] \in Nat
  BY DEF TypeOK
<1>2. QED BY <1>1, Requests DEF Keeps, RequestSound, Issued

(* A step that only changes what slot h will do next, or nothing. *)
LEMMA RequestsKept ==
  ASSUME TypeOK, TypeOK', RequestsSound, Keeps, NEW h \in Slots,
         \A k \in Slots : k # h => req'[k] = req[k],
         RequestSound(req[h])'
  PROVE  RequestsSound'
<1> SUFFICES ASSUME NEW k \in Slots PROVE RequestSound(req[k])'
  BY DEF RequestsSound
<1>1. CASE k = h BY <1>1
<1>2. CASE k # h
  <2> DEFINE r == req[k]
  <2>1. r \in AuthReq /\ RequestSound(r)
    BY DEF TypeOK, RequestsSound
  <2>2. RequestSound(r)'
    <3> SUFFICES ASSUME NEW q, q = req[k] PROVE RequestSound(q)'
      BY <1>2 DEF RequestSound
    <3> QED BY <2>1, SoundnessKept
  <2>3. QED BY <2>2
<1>3. QED BY <1>1, <1>2

(* Steps that leave users or tokens alone. *)
LEMMA UsersFrame ==
  ASSUME LockNeedsFailures, UNCHANGED <<users, wrong>>
  PROVE  LockNeedsFailures'
  BY DEF LockNeedsFailures

LEMMA TokensFrame ==
  ASSUME CookiesAreIssued, ParentsAreIssued, RotationRevokesFirst,
         UNCHANGED <<tokens, cookie>>
  PROVE  CookiesAreIssued' /\ ParentsAreIssued' /\ RotationRevokesFirst'
  BY DEF CookiesAreIssued, ParentsAreIssued, RotationRevokesFirst, Issued

(***************************************************************************)
(* Registration and login.                                                 *)
(***************************************************************************)
(* A request arrives and only reads. *)
LEMMA ArrivalStep ==
  ASSUME IInv, NEW h \in Slots, NEW operation, NEW r \in AuthReq,
         Begin(h, operation, r), RequestSound(r),
         UNCHANGED <<users, admins, tokens, cookie, history>>
  PROVE  IInv'
<1> USE DEF IInv
<1>1. req' = [req EXCEPT ![h] = r] /\ workload' = workload /\ faulted' = faulted
      /\ overlapped' \in BOOLEAN
  BY DEF Begin, TypeOK
<1>2. TypeOK'
  BY <1>1 DEF TypeOK, history
<1>3. wrong \in [Users -> Nat] /\ req \in [Slots -> AuthReq]
  BY DEF TypeOK
<1>4. Keeps
  BY <1>3 DEF Keeps, Issued, history
<1>5. RequestsSound'
  <2>1. RequestSound(r)'
    BY DEF RequestSound, Issued, history
  <2>2. req'[h] = r /\ \A k \in Slots : k # h => req'[k] = req[k]
    BY <1>1, <1>3
  <2>3. RequestSound(req[h])'
    BY <2>1, <2>2
  <2>4. QED BY <1>2, <1>4, <2>2, <2>3, RequestsKept
<1>6. QED
  BY <1>2, <1>5, UsersFrame, TokensFrame DEF history

LEMMA RegisterFindStep ==
  ASSUME IInv, NEW h \in Slots, NEW b \in Browsers, NEW e \in Emails,
         NEW p \in Passwords, RegisterFind(h, b, e, p)
  PROVE  IInv'
<1> DEFINE r == [op |-> "register", browser |-> b, email |-> e, password |-> p]
<1>1. r \in AuthReq /\ RequestSound(r)
  BY DEF AuthReq, RequestSound
<1>2. QED BY <1>1, ArrivalStep DEF RegisterFind

LEMMA LoginFindNoUserStep ==
  ASSUME IInv, NEW h \in Slots, NEW b \in Browsers, NEW e \in Emails,
         NEW p \in Passwords, LoginFindNoUser(h, b, e, p)
  PROVE  IInv'
<1> DEFINE r == [op |-> "admin", browser |-> b, email |-> e, password |-> p]
<1>1. r \in AuthReq /\ RequestSound(r)
  BY DEF AuthReq, RequestSound
<1>2. QED BY <1>1, ArrivalStep DEF LoginFindNoUser

LEMMA RefreshFindStep ==
  ASSUME IInv, NEW h \in Slots, NEW b \in Browsers, RefreshFind(h, b)
  PROVE  IInv'
<1> DEFINE r == [op |-> "revoke", browser |-> b, token |-> cookie[b]]
<1>1. cookie[b] \in Tokens
  BY DEF IInv, TypeOK, RefreshFind
<1>2. r \in AuthReq /\ RequestSound(r)
  BY <1>1 DEF AuthReq, RequestSound, RefreshFind, Usable, Issued
<1>3. QED BY <1>2, ArrivalStep DEF RefreshFind

LEMMA ChangePasswordVerifyStep ==
  ASSUME IInv, NEW h \in Slots, NEW a \in Admins, NEW current \in Passwords,
         NEW new \in Passwords, ChangePasswordVerify(h, a, current, new)
  PROVE  IInv'
<1> DEFINE r == [op |-> "password", admin |-> a, password |-> new]
<1>1. r \in AuthReq /\ RequestSound(r)
  BY DEF AuthReq, RequestSound, ChangePasswordVerify, LiveAdmin
<1>2. QED BY <1>1, ArrivalStep DEF ChangePasswordVerify

(* A wrong password is counted before its request can fail: what the       *)
(* counter said then is below what has been tried.                         *)
LEMMA LoginFindUserStep ==
  ASSUME IInv, NEW h \in Slots, NEW b \in Browsers, NEW e \in Emails,
         NEW p \in Passwords, LoginFindUser(h, b, e, p)
  PROVE  IInv'
<1> USE DEF IInv
<1>1. PICK u \in Users :
        /\ users[u] # NoAccount
        /\ IF users[u].password = p
           THEN /\ Begin(h, "login",
                         [op |-> "succeed", browser |-> b, user |-> u])
                /\ UNCHANGED wrong
           ELSE /\ Begin(h, "guess",
                     [op |-> "fail", user |-> u,
                      failedLoginAttempts |-> users[u].failedLoginAttempts])
                /\ wrong' = [wrong EXCEPT ![u] = @ + 1]
        /\ UNCHANGED <<users, admins, tokens, cookie, closed>>
  BY DEF LoginFindUser, UserWith, LiveUser
<1>2. /\ users[u] \in UserRow /\ users[u].failedLoginAttempts \in Nat
      /\ wrong \in [Users -> Nat] /\ req \in [Slots -> AuthReq]
  BY <1>1 DEF TypeOK, UserRow
<1>3. CASE users[u].password = p
  <2> DEFINE r == [op |-> "succeed", browser |-> b, user |-> u]
  <2>1. r \in AuthReq /\ RequestSound(r)
    BY <1>1 DEF AuthReq, RequestSound
  <2>2. QED BY <1>1, <1>3, <2>1, ArrivalStep DEF history
<1>4. CASE users[u].password # p
  <2> DEFINE r == [op |-> "fail", user |-> u,
                   failedLoginAttempts |-> users[u].failedLoginAttempts]
  <2>1. /\ req' = [req EXCEPT ![h] = r] /\ workload' = workload
        /\ faulted' = faulted /\ overlapped' \in BOOLEAN
        /\ wrong' = [wrong EXCEPT ![u] = @ + 1]
        /\ UNCHANGED <<users, admins, tokens, cookie, closed>>
    BY <1>1, <1>4 DEF Begin, TypeOK
  <2>2. r \in AuthReq
    BY <1>2 DEF AuthReq
  <2>3. wrong' \in [Users -> Nat] /\ wrong'[u] = wrong[u] + 1
        /\ \A v \in Users : wrong[v] <= wrong'[v]
    BY <1>2, <2>1
  <2>4. TypeOK'
    BY <1>2, <2>1, <2>2, <2>3 DEF TypeOK
  <2>5. Keeps
    BY <2>1, <2>3 DEF Keeps, Issued
  <2>6. RequestsSound'
    <3>1. users[u].failedLoginAttempts < wrong'[u]
      BY <1>1, <1>2, <2>3 DEF LockNeedsFailures
    <3>2. req'[h] = r /\ \A k \in Slots : k # h => req'[k] = req[k]
      BY <1>2, <2>1
    <3>3. RequestSound(req[h])'
      BY <1>1, <2>1, <3>1, <3>2 DEF RequestSound
    <3>4. QED BY <2>4, <2>5, <3>2, <3>3, RequestsKept
  <2>7. LockNeedsFailures'
    <3> SUFFICES ASSUME NEW v \in Users, users[v] # NoAccount
                 PROVE  /\ users[v].failedLoginAttempts <= wrong'[v]
                        /\ users[v].locked => wrong'[v] >= LOCKOUT_THRESHOLD
      BY <2>1 DEF LockNeedsFailures
    <3>1. users[v].failedLoginAttempts \in Nat
      BY Rows DEF UserRow
    <3>2. QED BY <1>2, <2>3, <3>1, ThresholdAssumption DEF LockNeedsFailures
  <2>8. QED BY <2>1, <2>4, <2>6, <2>7, TokensFrame
<1>5. QED BY <1>3, <1>4

LEMMA ProceedType ==
  ASSUME TypeOK, NEW h \in Slots, NEW r \in AuthReq, Proceed(h, r)
  PROVE  /\ req' \in [Slots -> AuthReq] /\ req'[h] = r
         /\ \A k \in Slots : k # h => req'[k] = req[k]
         /\ workload' \in Workloads /\ overlapped' \in BOOLEAN
         /\ faulted' \in BOOLEAN
  BY DEF Proceed, TypeOK

LEMMA IdleIsSound == Idle \in AuthReq /\ RequestSound(Idle) /\ RequestSound(Idle)'
  BY DEF Idle, AuthReq, RequestSound

(* A request goes on after an await, having changed nothing. *)
LEMMA ReadOnStep ==
  ASSUME IInv, NEW h \in Slots, NEW r \in AuthReq, Proceed(h, r),
         RequestSound(r)', UNCHANGED <<users, admins, tokens, cookie, history>>
  PROVE  IInv'
<1> USE DEF IInv
<1>1. TypeOK'
  BY ProceedType DEF TypeOK, history
<1>2. wrong \in [Users -> Nat]
  BY DEF TypeOK
<1>3. Keeps
  BY <1>2 DEF Keeps, Issued, history
<1>4. RequestSound(req[h])'
  BY ProceedType
<1>5. RequestsSound'
  BY <1>1, <1>3, <1>4, ProceedType, RequestsKept
<1>6. QED
  BY <1>1, <1>5, UsersFrame, TokensFrame DEF history

LEMMA LoginFindAdminStep ==
  ASSUME IInv, NEW h \in Slots, LoginFindAdmin(h)
  PROVE  IInv'
<1> DEFINE r == req[h]
<1>1. r \in AuthReq /\ r.op = "admin"
  BY DEF IInv, TypeOK, LoginFindAdmin
<1>2. CASE Finish(h)
  BY <1>2, IdleIsSound, ReadOnStep DEF LoginFindAdmin, Finish
<1>3. CASE ~ Finish(h)
  <2>1. PICK a \in Admins : Proceed(h, [op |-> "issue", browser |-> r.browser,
                                       owner |-> a, parent |-> None])
    BY <1>3 DEF LoginFindAdmin
  <2>2. PICK q \in AuthReq : q = [op |-> "issue", browser |-> r.browser,
                                 owner |-> a, parent |-> None]
    BY <1>1, Requests DEF AuthReq, Principals
  <2>3. RequestSound(q)'
    BY <2>2 DEF RequestSound
  <2>4. UNCHANGED <<users, admins, tokens, cookie, history>>
    BY DEF LoginFindAdmin
  <2>5. QED BY <2>1, <2>2, <2>3, <2>4, ReadOnStep
<1>4. QED BY <1>2, <1>3

(***************************************************************************)
(* Steps that change accounts: the counters stay below what was tried.     *)
(***************************************************************************)
(* What a change of one user's row must show. *)
LEMMA UserWriteStep ==
  ASSUME IInv, NEW h \in Slots, NEW u \in Users, NEW row \in UserRow,
         NEW r \in AuthReq,
         users' = [users EXCEPT ![u] = row],
         row.failedLoginAttempts <= wrong[u],
         row.locked => wrong[u] >= LOCKOUT_THRESHOLD,
         req' = [req EXCEPT ![h] = r], RequestSound(r)',
         overlapped' \in BOOLEAN,
         UNCHANGED <<admins, tokens, cookie, workload, wrong, closed, faulted>>
  PROVE  IInv'
<1> USE DEF IInv
<1>1. users \in [Users -> {NoAccount} \cup UserRow] /\ wrong \in [Users -> Nat]
      /\ req \in [Slots -> AuthReq]
  BY DEF TypeOK
<1>2. TypeOK'
  BY <1>1 DEF TypeOK
<1>3. users'[u] = row /\ \A v \in Users : v # u => users'[v] = users[v]
  BY <1>1
<1>4. req'[h] = r /\ \A k \in Slots : k # h => req'[k] = req[k]
  BY <1>1
<1>5. Keeps
  BY <1>1, <1>3, Absent DEF Keeps, Issued
<1>6. RequestsSound'
  BY <1>2, <1>4, <1>5, RequestsKept
<1>7. LockNeedsFailures'
  <2> SUFFICES ASSUME NEW v \in Users, users'[v] # NoAccount
               PROVE  /\ users'[v].failedLoginAttempts <= wrong[v]
                      /\ users'[v].locked => wrong[v] >= LOCKOUT_THRESHOLD
    BY DEF LockNeedsFailures
  <2>1. CASE v = u BY <1>3, <2>1
  <2>2. CASE v # u BY <1>3, <2>2 DEF LockNeedsFailures
  <2>3. QED BY <2>1, <2>2
<1>8. QED BY <1>2, <1>6, <1>7, TokensFrame

LEMMA FreshUser ==
  ASSUME TypeOK, NEW u \in Users, NEW e \in Emails,
         NEW p \in Passwords \cup {None},
         NEW row, row = [email |-> e, deleted |-> FALSE, password |-> p,
                         failedLoginAttempts |-> 0, locked |-> FALSE]
  PROVE  /\ row \in UserRow /\ row.failedLoginAttempts <= wrong[u]
         /\ ~ row.locked
<1>1. wrong[u] \in Nat BY DEF TypeOK
<1>2. QED BY <1>1 DEF UserRow

LEMMA RegisterCommitStep ==
  ASSUME IInv, NEW h \in Slots, RegisterCommit(h)
  PROVE  IInv'
<1>0. TypeOK BY DEF IInv
<1>1. req[h] \in AuthReq /\ req[h].op = "register"
  BY <1>0 DEF TypeOK, RegisterCommit
<1>2. PICK u \in Users :
        /\ users[u] = NoAccount
        /\ IF UserEmailAdmitted(u, req[h].email)
           THEN /\ users' = [users EXCEPT ![u] =
                     [email |-> req[h].email, deleted |-> FALSE,
                      password |-> req[h].password,
                      failedLoginAttempts |-> 0, locked |-> FALSE]]
                /\ Proceed(h, [op |-> "issue", browser |-> req[h].browser,
                               owner |-> u, parent |-> None])
           ELSE Finish(h) /\ UNCHANGED users
  BY DEF RegisterCommit
<1>3. UNCHANGED <<admins, tokens, cookie, history>>
  BY DEF RegisterCommit
<1>4. CASE UserEmailAdmitted(u, req[h].email)
  <2>1. PICK row : row = [email |-> req[h].email, deleted |-> FALSE,
                          password |-> req[h].password,
                          failedLoginAttempts |-> 0, locked |-> FALSE]
    OBVIOUS
  <2>2. PICK q \in AuthReq : q = [op |-> "issue", browser |-> req[h].browser,
                                 owner |-> u, parent |-> None]
    BY <1>1, Requests DEF AuthReq, Principals
  <2>3. RequestSound(q)'
    BY <2>2 DEF RequestSound
  <2>4. /\ row \in UserRow /\ row.failedLoginAttempts <= wrong[u]
        /\ ~ row.locked
    BY <1>0, <1>1, <2>1, FreshUser, Requests
  <2>5. overlapped \in BOOLEAN
    BY <1>0 DEF TypeOK
  <2>6. QED
    BY <1>2, <1>3, <1>4, <2>1, <2>2, <2>3, <2>4, <2>5, UserWriteStep
    DEF Proceed, history
<1>5. CASE ~ UserEmailAdmitted(u, req[h].email)
  BY <1>2, <1>3, <1>5, IdleIsSound, ReadOnStep DEF Finish
<1>6. QED BY <1>4, <1>5

LEMMA Written ==
  ASSUME NEW old \in UserRow, NEW n \in Nat
  PROVE  /\ [old EXCEPT !.failedLoginAttempts = n, !.locked = TRUE] \in UserRow
         /\ [old EXCEPT !.failedLoginAttempts = n, !.locked = TRUE]
              .failedLoginAttempts = n
         /\ [old EXCEPT !.failedLoginAttempts = n, !.locked = FALSE] \in UserRow
         /\ [old EXCEPT !.failedLoginAttempts = n, !.locked = FALSE]
              .failedLoginAttempts = n
         /\ [old EXCEPT !.failedLoginAttempts = n, !.locked = FALSE]
              .locked = FALSE
  BY DEF UserRow

LEMMA Edited ==
  ASSUME NEW old \in UserRow
  PROVE  /\ \A e \in Emails :
              /\ [old EXCEPT !.email = e] \in UserRow
              /\ [old EXCEPT !.email = e].failedLoginAttempts
                   = old.failedLoginAttempts
              /\ [old EXCEPT !.email = e].locked = old.locked
         /\ [old EXCEPT !.deleted = TRUE] \in UserRow
         /\ [old EXCEPT !.deleted = TRUE].failedLoginAttempts
              = old.failedLoginAttempts
         /\ [old EXCEPT !.deleted = TRUE].locked = old.locked
         /\ [old EXCEPT !.locked = FALSE] \in UserRow
         /\ [old EXCEPT !.locked = FALSE].failedLoginAttempts
              = old.failedLoginAttempts
         /\ [old EXCEPT !.locked = FALSE].locked = FALSE
  BY DEF UserRow

(* The counter written is the one read plus one: no more than was tried. *)
LEMMA LoginFailStep ==
  ASSUME IInv, NEW h \in Slots, LoginFail(h)
  PROVE  IInv'
<1>0. TypeOK BY DEF IInv
<1> DEFINE u == req[h].user
           attempts_ == req[h].failedLoginAttempts + 1
<1>1. /\ req[h] \in AuthReq /\ req[h].op = "fail" /\ RequestSound(req[h])
  BY DEF IInv, TypeOK, LoginFail, RequestsSound
<1>2. /\ u \in Users /\ users[u] # NoAccount /\ users[u] \in UserRow
      /\ attempts_ \in Nat /\ wrong[u] \in Nat /\ attempts_ <= wrong[u]
  <2>1. u \in Users /\ req[h].failedLoginAttempts \in Nat
    BY <1>1, Requests
  <2>2. wrong[u] \in Nat
    BY <1>0, <2>1 DEF TypeOK
  <2>3. QED BY <1>0, <1>1, <2>1, <2>2, Rows DEF RequestSound
<1>3. PICK v \in Users, n \in Nat : v = u /\ n = attempts_
  BY <1>2
<1>4. users' = [users EXCEPT ![v] = [users[v] EXCEPT
                   !.failedLoginAttempts = n, !.locked = n >= LOCKOUT_THRESHOLD]]
  BY <1>0, <1>2, <1>3 DEF LoginFail, TypeOK
<1>5. PICK row \in UserRow :
        /\ users' = [users EXCEPT ![v] = row]
        /\ row.failedLoginAttempts <= wrong[v]
        /\ row.locked => wrong[v] >= LOCKOUT_THRESHOLD
  <2>1. CASE n >= LOCKOUT_THRESHOLD
    <3> DEFINE row == [users[v] EXCEPT !.failedLoginAttempts = n, !.locked = TRUE]
    <3>1. row \in UserRow /\ row.failedLoginAttempts = n
      BY <1>2, <1>3, Written
    <3>2. wrong[v] >= LOCKOUT_THRESHOLD /\ n <= wrong[v]
      BY <1>2, <1>3, <2>1, ThresholdAssumption
    <3>3. (n >= LOCKOUT_THRESHOLD) = TRUE
      BY <2>1
    <3>4. users' = [users EXCEPT ![v] = row]
      BY <1>4, <3>3
    <3>5. QED BY <3>1, <3>2, <3>4
  <2>2. CASE ~ (n >= LOCKOUT_THRESHOLD)
    <3> DEFINE row == [users[v] EXCEPT !.failedLoginAttempts = n, !.locked = FALSE]
    <3>1. row \in UserRow /\ row.failedLoginAttempts = n /\ ~ row.locked
      BY <1>2, <1>3, Written
    <3>2. n <= wrong[v]
      BY <1>2, <1>3
    <3>3. (n >= LOCKOUT_THRESHOLD) = FALSE
      BY <2>2
    <3>4. users' = [users EXCEPT ![v] = row]
      BY <1>4, <3>3
    <3>5. QED BY <3>1, <3>2, <3>4
  <2>3. QED BY <2>1, <2>2
<1>6. /\ req' = [req EXCEPT ![h] = Idle] /\ overlapped' \in BOOLEAN
      /\ UNCHANGED <<admins, tokens, cookie, workload, wrong, closed, faulted>>
  BY <1>0 DEF LoginFail, Finish, Proceed, history, TypeOK
<1>7. QED BY <1>5, <1>6, IdleIsSound, UserWriteStep

LEMMA LoginSucceedStep ==
  ASSUME IInv, NEW h \in Slots, LoginSucceed(h)
  PROVE  IInv'
<1>0. TypeOK BY DEF IInv
<1>1. /\ req[h] \in AuthReq /\ req[h].op = "succeed" /\ RequestSound(req[h])
  BY DEF IInv, TypeOK, LoginSucceed, RequestsSound
<1>2. /\ req[h].user \in Users /\ users[req[h].user] \in UserRow
      /\ req[h].browser \in Browsers
  BY <1>0, <1>1, Requests, Rows DEF RequestSound
<1>3. PICK v \in Users, row \in UserRow :
        /\ v = req[h].user
        /\ row = [users[v] EXCEPT !.failedLoginAttempts = 0, !.locked = FALSE]
  BY <1>2 DEF UserRow
<1>4. users' = [users EXCEPT ![v] = row]
  BY <1>0, <1>2, <1>3 DEF LoginSucceed, TypeOK
<1>5. /\ row.failedLoginAttempts <= wrong[v] /\ ~ row.locked
  <2>1. wrong[v] \in Nat BY <1>0 DEF TypeOK
  <2>2. QED BY <1>2, <1>3, <2>1 DEF UserRow
<1>6. PICK q \in AuthReq : q = [op |-> "issue", browser |-> req[h].browser,
                               owner |-> v, parent |-> None]
  BY <1>2, <1>3 DEF AuthReq, Principals
<1>7. RequestSound(q)'
  BY <1>6 DEF RequestSound
<1>8. /\ req' = [req EXCEPT ![h] = q] /\ overlapped' \in BOOLEAN
      /\ UNCHANGED <<admins, tokens, cookie, workload, wrong, closed, faulted>>
  BY <1>0, <1>3, <1>6 DEF LoginSucceed, Proceed, history, TypeOK
<1>9. QED BY <1>4, <1>5, <1>7, <1>8, UserWriteStep

LEMMA LockExpiresStep ==
  ASSUME IInv, NEW u \in Users, LockExpires(u)
  PROVE  IInv'
<1> USE DEF IInv
<1>1. users[u] \in UserRow /\ users \in [Users -> {NoAccount} \cup UserRow]
      /\ wrong \in [Users -> Nat]
  BY DEF LockExpires, TypeOK
<1>2. PICK row \in UserRow : row = [users[u] EXCEPT !.locked = FALSE]
                            /\ row.locked = FALSE
                            /\ row.failedLoginAttempts
                                 = users[u].failedLoginAttempts
  BY <1>1, Edited
<1>3. users' = [users EXCEPT ![u] = row]
      /\ UNCHANGED <<admins, tokens, cookie, req, workload, wrong, closed,
                     overlapped, faulted>>
  BY <1>1, <1>2 DEF LockExpires, history
<1>4. users'[u] = row /\ \A v \in Users : v # u => users'[v] = users[v]
  BY <1>1, <1>3
<1>5. TypeOK'
  BY <1>1, <1>3 DEF TypeOK
<1>6. RequestsSound'
  <2> SUFFICES ASSUME NEW k \in Slots PROVE RequestSound(req[k])'
    BY DEF RequestsSound
  <2>1. Keeps
    BY <1>1, <1>3, <1>4, Absent DEF Keeps, Issued
  <2>2. PICK r \in AuthReq : r = req[k] /\ r = req'[k]
    BY <1>3 DEF TypeOK
  <2>3. RequestSound(r)'
    BY <1>5, <2>1, <2>2, SoundnessKept DEF RequestsSound
  <2>4. QED BY <2>2, <2>3
<1>7. LockNeedsFailures'
  BY <1>2, <1>3, <1>4, LockExpires(u) DEF LockNeedsFailures, LockExpires
<1>8. QED BY <1>3, <1>5, <1>6, <1>7, TokensFrame

(***************************************************************************)
(* AccountsService.                                                        *)
(***************************************************************************)
LEMMA UserCreateStep ==
  ASSUME IInv, NEW h \in Slots, NEW e \in Emails, UserCreate(h, e)
  PROVE  IInv'
<1>0. TypeOK BY DEF IInv
<1>1. PICK u \in Users :
        users' = [users EXCEPT ![u] =
          [email |-> e, deleted |-> FALSE, password |-> None,
           failedLoginAttempts |-> 0, locked |-> FALSE]]
  BY DEF UserCreate
<1>2. PICK row : row = [email |-> e, deleted |-> FALSE, password |-> None,
                        failedLoginAttempts |-> 0, locked |-> FALSE]
  OBVIOUS
<1>3. row \in UserRow /\ row.failedLoginAttempts <= wrong[u] /\ ~ row.locked
  BY <1>0, <1>2, FreshUser
<1>4. /\ req' = [req EXCEPT ![h] = Idle] /\ overlapped' \in BOOLEAN
      /\ UNCHANGED <<admins, tokens, cookie, workload, wrong, closed, faulted>>
  BY <1>0 DEF UserCreate, Begin, history, TypeOK
<1>5. QED BY <1>1, <1>2, <1>3, <1>4, IdleIsSound, UserWriteStep

LEMMA UserUpdateStep ==
  ASSUME IInv, NEW h \in Slots, NEW e \in Emails, NEW u \in Users,
         UserUpdate(h, u, e)
  PROVE  IInv'
<1>0. TypeOK BY DEF IInv
<1>1. users[u] \in UserRow
  BY <1>0, Rows DEF UserUpdate, LiveUser
<1>2. PICK row \in UserRow :
        /\ row = [users[u] EXCEPT !.email = e]
        /\ row.failedLoginAttempts = users[u].failedLoginAttempts
        /\ row.locked = users[u].locked
  BY <1>1, Edited
<1>3. users' = [users EXCEPT ![u] = row]
  BY <1>0, <1>2 DEF UserUpdate, TypeOK
<1>4. /\ row.failedLoginAttempts <= wrong[u]
      /\ row.locked => wrong[u] >= LOCKOUT_THRESHOLD
  BY <1>2 DEF IInv, LockNeedsFailures, UserUpdate, LiveUser
<1>5. /\ req' = [req EXCEPT ![h] = Idle] /\ overlapped' \in BOOLEAN
      /\ UNCHANGED <<admins, tokens, cookie, workload, wrong, closed, faulted>>
  BY <1>0 DEF UserUpdate, Begin, history, TypeOK
<1>6. QED BY <1>3, <1>4, <1>5, IdleIsSound, UserWriteStep

LEMMA UserRemoveStep ==
  ASSUME IInv, NEW h \in Slots, NEW u \in Users, UserRemove(h, u)
  PROVE  IInv'
<1>0. TypeOK BY DEF IInv
<1>1. users[u] \in UserRow
  BY <1>0, Rows DEF UserRemove, LiveUser
<1>2. PICK row \in UserRow :
        /\ row = [users[u] EXCEPT !.deleted = TRUE]
        /\ row.failedLoginAttempts = users[u].failedLoginAttempts
        /\ row.locked = users[u].locked
  BY <1>1, Edited
<1>3. users' = [users EXCEPT ![u] = row]
  BY <1>0, <1>2 DEF UserRemove, TypeOK
<1>4. /\ row.failedLoginAttempts <= wrong[u]
      /\ row.locked => wrong[u] >= LOCKOUT_THRESHOLD
  BY <1>2 DEF IInv, LockNeedsFailures, UserRemove, LiveUser
<1>5. /\ req' = [req EXCEPT ![h] = Idle] /\ overlapped' \in BOOLEAN
      /\ UNCHANGED <<admins, tokens, cookie, workload, wrong, closed, faulted>>
  BY <1>0 DEF UserRemove, Begin, history, TypeOK
<1>6. QED BY <1>3, <1>4, <1>5, IdleIsSound, UserWriteStep

(* Administrators' rows are only ever known to exist. *)
LEMMA AdminWriteStep ==
  ASSUME IInv, NEW h \in Slots, NEW a \in Admins, NEW row \in AdminRow,
         admins' = [admins EXCEPT ![a] = row],
         req' = [req EXCEPT ![h] = Idle], overlapped' \in BOOLEAN,
         UNCHANGED <<users, tokens, cookie, workload, wrong, closed, faulted>>
  PROVE  IInv'
<1> USE DEF IInv
<1>1. admins \in [Admins -> {NoAccount} \cup AdminRow]
      /\ wrong \in [Users -> Nat] /\ req \in [Slots -> AuthReq]
  BY DEF TypeOK
<1>2. TypeOK'
  BY <1>1, IdleIsSound DEF TypeOK
<1>3. Keeps
  BY <1>1, Absent DEF Keeps, Issued
<1>4. req'[h] = Idle /\ \A k \in Slots : k # h => req'[k] = req[k]
  BY <1>1
<1>5. RequestsSound'
  BY <1>2, <1>3, <1>4, IdleIsSound, RequestsKept
<1>6. QED BY <1>2, <1>5, UsersFrame, TokensFrame

LEMMA AdminCreateStep ==
  ASSUME IInv, NEW h \in Slots, NEW e \in Emails, NEW p \in Passwords,
         AdminCreate(h, e, p)
  PROVE  IInv'
<1>1. PICK a \in Admins, row \in AdminRow : admins' = [admins EXCEPT ![a] = row]
  <2>1. PICK a \in Admins, isActive \in BOOLEAN :
          admins' = [admins EXCEPT ![a] =
            [email |-> e, deleted |-> FALSE, isActive |-> isActive,
             password |-> p]]
    BY DEF AdminCreate
  <2>2. [email |-> e, deleted |-> FALSE, isActive |-> isActive, password |-> p]
          \in AdminRow
    BY DEF AdminRow
  <2>3. QED BY <2>1, <2>2
<1>2. /\ req' = [req EXCEPT ![h] = Idle] /\ overlapped' \in BOOLEAN
      /\ UNCHANGED <<users, tokens, cookie, workload, wrong, closed, faulted>>
  BY DEF AdminCreate, Begin, history, IInv, TypeOK
<1>3. QED BY <1>1, <1>2, AdminWriteStep

LEMMA AdminUpdateStep ==
  ASSUME IInv, NEW h \in Slots, NEW a \in Admins, NEW e \in Emails,
         NEW isActive \in BOOLEAN, NEW p \in Passwords,
         AdminUpdate(h, a, e, isActive, p)
  PROVE  IInv'
<1>1. admins[a] \in AdminRow /\ admins \in [Admins -> {NoAccount} \cup AdminRow]
  BY DEF AdminUpdate, LiveAdmin, IInv, TypeOK
<1>2. PICK row \in AdminRow :
        row = [admins[a] EXCEPT !.email = e, !.isActive = isActive,
                                !.password = p]
  BY <1>1 DEF AdminRow
<1>3. admins' = [admins EXCEPT ![a] = row]
  BY <1>1, <1>2 DEF AdminUpdate
<1>4. /\ req' = [req EXCEPT ![h] = Idle] /\ overlapped' \in BOOLEAN
      /\ UNCHANGED <<users, tokens, cookie, workload, wrong, closed, faulted>>
  BY DEF AdminUpdate, Begin, history, IInv, TypeOK
<1>5. QED BY <1>3, <1>4, AdminWriteStep

LEMMA AdminRemoveStep ==
  ASSUME IInv, NEW h \in Slots, NEW a \in Admins, AdminRemove(h, a)
  PROVE  IInv'
<1>1. admins[a] \in AdminRow /\ admins \in [Admins -> {NoAccount} \cup AdminRow]
  BY DEF AdminRemove, LiveAdmin, IInv, TypeOK
<1>2. PICK row \in AdminRow : row = [admins[a] EXCEPT !.deleted = TRUE]
  BY <1>1 DEF AdminRow
<1>3. admins' = [admins EXCEPT ![a] = row]
  BY <1>1, <1>2 DEF AdminRemove
<1>4. /\ req' = [req EXCEPT ![h] = Idle] /\ overlapped' \in BOOLEAN
      /\ UNCHANGED <<users, tokens, cookie, workload, wrong, closed, faulted>>
  BY DEF AdminRemove, Begin, history, IInv, TypeOK
<1>5. QED BY <1>3, <1>4, AdminWriteStep

LEMMA ChangePasswordUpdateStep ==
  ASSUME IInv, NEW h \in Slots, ChangePasswordUpdate(h)
  PROVE  IInv'
<1>1. /\ req[h] \in AuthReq /\ req[h].op = "password" /\ RequestSound(req[h])
      /\ admins \in [Admins -> {NoAccount} \cup AdminRow]
  BY DEF ChangePasswordUpdate, IInv, TypeOK, RequestsSound
<1>2. PICK a \in Admins : a = req[h].admin /\ admins[a] \in AdminRow
  BY <1>1, Requests DEF RequestSound
<1>3. PICK row \in AdminRow : row = [admins[a] EXCEPT !.password = req[h].password]
  BY <1>1, <1>2, Requests DEF AdminRow
<1>4. admins' = [admins EXCEPT ![a] = row]
  BY <1>1, <1>2, <1>3 DEF ChangePasswordUpdate
<1>5. /\ req' = [req EXCEPT ![h] = Idle] /\ overlapped' \in BOOLEAN
      /\ UNCHANGED <<users, tokens, cookie, workload, wrong, closed, faulted>>
  BY DEF ChangePasswordUpdate, Finish, Proceed, history, IInv, TypeOK
<1>6. QED BY <1>4, <1>5, AdminWriteStep

(***************************************************************************)
(* Steps that change tokens and cookies.                                   *)
(***************************************************************************)
LEMMA TokensType ==
  ASSUME TypeOK
  PROVE  /\ tokens \in [Tokens -> {NoToken} \cup TokenRow]
         /\ cookie \in [Browsers -> Tokens \cup {None}]
         /\ req \in [Slots -> AuthReq]
         /\ wrong \in [Users -> Nat]
  BY DEF TypeOK

LEMMA TokenEdited ==
  ASSUME NEW old \in TokenRow
  PROVE  /\ [old EXCEPT !.revoked = TRUE] \in TokenRow
         /\ [old EXCEPT !.revoked = TRUE].revoked = TRUE
         /\ [old EXCEPT !.revoked = TRUE].parent = old.parent
         /\ [old EXCEPT !.expired = TRUE] \in TokenRow
         /\ [old EXCEPT !.expired = TRUE].revoked = old.revoked
         /\ [old EXCEPT !.expired = TRUE].parent = old.parent
  BY DEF TokenRow

(* A row already issued is written again, perhaps revoked. *)
LEMMA TokenWritten ==
  ASSUME IInv, NEW t \in Tokens, Issued(t), NEW row \in TokenRow,
         row.parent = tokens[t].parent, tokens[t].revoked => row.revoked,
         tokens' = [tokens EXCEPT ![t] = row], cookie' = cookie
  PROVE  /\ \A s \in Tokens : Issued(s) => /\ tokens'[s] # NoToken
                                           /\ tokens[s].revoked => tokens'[s].revoked
         /\ CookiesAreIssued' /\ ParentsAreIssued' /\ RotationRevokesFirst'
<1> USE DEF IInv
<1>1. tokens'[t] = row /\ row # NoToken
      /\ \A s \in Tokens : s # t => tokens'[s] = tokens[s]
  BY TokensType, Absent
<1>2. \A s \in Tokens : /\ Issued(s) <=> (tokens'[s] # NoToken)
                        /\ Issued(s) => tokens'[s].parent = tokens[s].parent
                        /\ tokens[s].revoked /\ Issued(s) => tokens'[s].revoked
  BY <1>1 DEF Issued
<1>3. \A s \in Tokens : Issued(s) /\ tokens[s].parent # None =>
                         tokens[s].parent \in Tokens
  BY Rows DEF TokenRow
<1>4. CookiesAreIssued'
  <2> SUFFICES ASSUME NEW b \in Browsers, cookie[b] # None
               PROVE  tokens'[cookie[b]] # NoToken
    BY DEF CookiesAreIssued, Issued
  <2>1. cookie[b] \in Tokens /\ Issued(cookie[b])
    BY TokensType DEF CookiesAreIssued
  <2>2. QED BY <1>2, <2>1 DEF Issued
<1>5. ParentsAreIssued'
  <2> SUFFICES ASSUME NEW s \in Tokens, tokens'[s] # NoToken, tokens'[s].parent # None
               PROVE  tokens'[tokens'[s].parent] # NoToken
    BY DEF ParentsAreIssued, Issued
  <2>1. Issued(s) /\ tokens'[s].parent = tokens[s].parent
        /\ tokens[s].parent # None /\ tokens[s].parent \in Tokens
    BY <1>2, <1>3 DEF Issued
  <2>2. Issued(tokens[s].parent)
    BY <2>1 DEF ParentsAreIssued
  <2>3. QED BY <1>2, <2>1, <2>2 DEF Issued
<1>6. RotationRevokesFirst'
  <2> SUFFICES ASSUME NEW s \in Tokens, tokens'[s] # NoToken, tokens'[s].parent # None
               PROVE  tokens'[tokens'[s].parent].revoked
    BY DEF RotationRevokesFirst, Issued
  <2>1. Issued(s) /\ tokens'[s].parent = tokens[s].parent
        /\ tokens[s].parent # None /\ tokens[s].parent \in Tokens
    BY <1>2, <1>3 DEF Issued
  <2>2. Issued(tokens[s].parent) /\ tokens[tokens[s].parent].revoked
    BY <2>1 DEF ParentsAreIssued, RotationRevokesFirst, Issued
  <2>3. QED BY <1>2, <2>1, <2>2
<1>7. QED BY <1>2, <1>4, <1>5, <1>6

LEMMA KeepsAccounts ==
  ASSUME IInv, UNCHANGED <<users, admins, wrong>>,
         \A t \in Tokens : Issued(t) => /\ tokens'[t] # NoToken
                                        /\ tokens[t].revoked => tokens'[t].revoked
  PROVE  Keeps
<1>1. \A u \in Users : wrong[u] <= wrong'[u]
  BY TokensType DEF IInv
<1>2. QED BY <1>1 DEF Keeps, Issued

LEMMA RefreshRevokeStep ==
  ASSUME IInv, NEW h \in Slots, RefreshRevoke(h)
  PROVE  IInv'
<1> USE DEF IInv
<1>1. req[h] \in AuthReq /\ req[h].op = "revoke" /\ RequestSound(req[h])
  BY DEF RefreshRevoke, TypeOK, RequestsSound
<1>2. PICK t \in Tokens : t = req[h].token /\ Issued(t) /\ tokens[t] \in TokenRow
  BY <1>1, Requests, Rows DEF RequestSound
<1>3. PICK row \in TokenRow : /\ row = [tokens[t] EXCEPT !.revoked = TRUE]
                              /\ row.revoked = TRUE
                              /\ row.parent = tokens[t].parent
  BY <1>2, TokenEdited
<1>4. tokens' = [tokens EXCEPT ![t] = row] /\ tokens'[t] = row
  BY <1>2, <1>3, TokensType DEF RefreshRevoke
<1>5. PICK q \in AuthReq : q = [op |-> "issue", browser |-> req[h].browser,
                               owner |-> tokens[t].owner, parent |-> t]
  BY <1>1, <1>2, Requests DEF AuthReq, TokenRow, Principals
<1>6. Proceed(h, q) /\ UNCHANGED <<users, admins, cookie, wrong, closed>>
  BY <1>2, <1>5 DEF RefreshRevoke, history
<1>7. TypeOK'
  BY <1>4, <1>6, ProceedType DEF TypeOK
<1>8. /\ \A s \in Tokens : Issued(s) => /\ tokens'[s] # NoToken
                                        /\ tokens[s].revoked => tokens'[s].revoked
      /\ CookiesAreIssued' /\ ParentsAreIssued' /\ RotationRevokesFirst'
  BY <1>2, <1>3, <1>4, <1>6, TokenWritten
<1>9. Keeps
  BY <1>6, <1>8, KeepsAccounts
<1>10. RequestSound(q)'
  BY <1>2, <1>3, <1>4, <1>5, <1>8 DEF RequestSound, Issued
<1>11. RequestSound(req[h])'
  BY <1>6, <1>10, ProceedType
<1>12. RequestsSound'
  BY <1>6, <1>7, <1>9, <1>11, ProceedType, RequestsKept
<1>13. QED BY <1>6, <1>7, <1>8, <1>12, UsersFrame

LEMMA LogoutStep ==
  ASSUME IInv, NEW h \in Slots, NEW b \in Browsers, Logout(h, b)
  PROVE  IInv'
<1> USE DEF IInv
<1>1. PICK t \in Tokens : t = cookie[b] /\ Issued(t) /\ tokens[t] \in TokenRow
  BY TokensType, Rows DEF Logout, CookiesAreIssued
<1>2. PICK row \in TokenRow : /\ row = [tokens[t] EXCEPT !.revoked = TRUE]
                              /\ row.revoked = TRUE
                              /\ row.parent = tokens[t].parent
  BY <1>1, TokenEdited
<1>3. tokens' = [tokens EXCEPT ![t] = row]
  BY <1>1, <1>2, TokensType DEF Logout
<1>4. PICK q \in AuthReq : q = [op |-> "respond", browser |-> b, cookie |-> None]
  BY DEF AuthReq
<1>5. /\ req' = [req EXCEPT ![h] = q] /\ workload' = workload
      /\ faulted' = faulted /\ overlapped' \in BOOLEAN
      /\ closed' \subseteq Tokens
      /\ UNCHANGED <<users, admins, cookie, wrong>>
  BY <1>1, <1>4 DEF Logout, Begin, TypeOK
<1>6. TypeOK'
  BY <1>3, <1>5 DEF TypeOK
<1>7. /\ \A s \in Tokens : Issued(s) => /\ tokens'[s] # NoToken
                                        /\ tokens[s].revoked => tokens'[s].revoked
      /\ CookiesAreIssued' /\ ParentsAreIssued' /\ RotationRevokesFirst'
  BY <1>1, <1>2, <1>3, <1>5, TokenWritten
<1>8. Keeps
  BY <1>5, <1>7, KeepsAccounts
<1>9. req'[h] = q /\ \A k \in Slots : k # h => req'[k] = req[k]
  BY <1>5, TokensType
<1>10. RequestSound(req[h])'
  BY <1>4, <1>9 DEF RequestSound
<1>11. RequestsSound'
  BY <1>6, <1>8, <1>9, <1>10, RequestsKept
<1>12. QED BY <1>5, <1>6, <1>7, <1>11, UsersFrame

LEMMA TokenExpiresStep ==
  ASSUME IInv, NEW t \in Tokens, TokenExpires(t)
  PROVE  IInv'
<1> USE DEF IInv
<1>1. Issued(t) /\ tokens[t] \in TokenRow
  BY Rows DEF TokenExpires, Usable, Issued
<1>2. PICK row \in TokenRow : /\ row = [tokens[t] EXCEPT !.expired = TRUE]
                              /\ row.revoked = tokens[t].revoked
                              /\ row.parent = tokens[t].parent
  BY <1>1, TokenEdited
<1>3. tokens' = [tokens EXCEPT ![t] = row]
      /\ UNCHANGED <<users, admins, cookie, req, workload, wrong, closed,
                     overlapped, faulted>>
  BY <1>1, <1>2, TokensType DEF TokenExpires, history
<1>4. TypeOK'
  BY <1>3 DEF TypeOK
<1>5. /\ \A s \in Tokens : Issued(s) => /\ tokens'[s] # NoToken
                                        /\ tokens[s].revoked => tokens'[s].revoked
      /\ CookiesAreIssued' /\ ParentsAreIssued' /\ RotationRevokesFirst'
  BY <1>1, <1>2, <1>3, TokenWritten
<1>6. RequestsSound'
  <2> SUFFICES ASSUME NEW k \in Slots PROVE RequestSound(req[k])'
    BY DEF RequestsSound
  <2>1. Keeps
    BY <1>3, <1>5, KeepsAccounts
  <2>2. PICK r \in AuthReq : r = req[k] /\ r = req'[k]
    BY <1>3, TokensType
  <2>3. RequestSound(r)'
    BY <1>4, <2>1, <2>2, SoundnessKept DEF RequestsSound
  <2>4. QED BY <2>2, <2>3
<1>7. QED BY <1>3, <1>4, <1>5, <1>6, UsersFrame

(* A new token: its parent, if it has one, is already revoked. *)
LEMMA IssueTokenPairStep ==
  ASSUME IInv, NEW h \in Slots, IssueTokenPair(h)
  PROVE  IInv'
<1> USE DEF IInv
<1>1. req[h] \in AuthReq /\ req[h].op = "issue" /\ RequestSound(req[h])
  BY DEF IssueTokenPair, TypeOK, RequestsSound
<1>2. PICK parent \in Tokens \cup {None} :
        /\ parent = req[h].parent
        /\ parent # None => Issued(parent) /\ tokens[parent].revoked
  BY <1>1, Requests DEF RequestSound
<1>2a. PICK t \in Tokens : \E row :
        /\ ~ Issued(t)
        /\ row = [owner |-> req[h].owner, revoked |-> FALSE, expired |-> FALSE,
                  parent |-> parent,
                  session |-> IF parent = None THEN t
                              ELSE tokens[parent].session]
        /\ tokens' = [tokens EXCEPT ![t] = row]
        /\ Proceed(h, [op |-> "respond", browser |-> req[h].browser,
                       cookie |-> t])
  BY <1>2 DEF IssueTokenPair, Issued
<1>3. PICK row :
        /\ ~ Issued(t)
        /\ row = [owner |-> req[h].owner, revoked |-> FALSE, expired |-> FALSE,
                  parent |-> parent,
                  session |-> IF parent = None THEN t
                              ELSE tokens[parent].session]
        /\ tokens' = [tokens EXCEPT ![t] = row]
        /\ Proceed(h, [op |-> "respond", browser |-> req[h].browser,
                       cookie |-> t])
  BY <1>2a
<1>4. row \in TokenRow /\ row.parent = parent
  <2>1. (IF parent = None THEN t ELSE tokens[parent].session) \in Tokens
    BY <1>2, Rows DEF TokenRow
  <2>2. req[h].owner \in Users \cup Admins
    BY <1>1, Requests DEF Principals
  <2>3. QED BY <1>3, <2>1, <2>2 DEF TokenRow
<1>5. PICK q \in AuthReq : q = [op |-> "respond", browser |-> req[h].browser,
                                cookie |-> t]
  BY <1>1, Requests DEF AuthReq
<1>6. Proceed(h, q) /\ UNCHANGED <<users, admins, cookie, wrong, closed>>
  BY <1>3, <1>5 DEF IssueTokenPair, history
<1>7. /\ tokens'[t] = row /\ row # NoToken
      /\ \A s \in Tokens : s # t => tokens'[s] = tokens[s]
  BY <1>3, <1>4, TokensType, Absent
<1>8. \A s \in Tokens : Issued(s) => s # t /\ tokens'[s] = tokens[s]
  BY <1>3, <1>7
<1>9. TypeOK'
  BY <1>3, <1>4, <1>6, ProceedType DEF TypeOK
<1>10. Keeps
  BY <1>6, <1>8, KeepsAccounts DEF Issued
<1>11. RequestsSound'
  <2>1. RequestSound(q)'
    BY <1>5, <1>7 DEF RequestSound, Issued
  <2>2. RequestSound(req[h])'
    BY <1>6, <2>1, ProceedType
  <2>3. QED BY <1>6, <1>9, <1>10, <2>2, ProceedType, RequestsKept
<1>12. CookiesAreIssued'
  <2> SUFFICES ASSUME NEW b \in Browsers, cookie[b] # None
               PROVE  tokens'[cookie[b]] # NoToken
    BY <1>6 DEF CookiesAreIssued, Issued
  <2>1. cookie[b] \in Tokens /\ Issued(cookie[b])
    BY TokensType DEF CookiesAreIssued
  <2>2. QED BY <1>8, <2>1 DEF Issued
<1>13. \A s \in Tokens :
         (tokens'[s] # NoToken /\ tokens'[s].parent # None) =>
           /\ tokens'[tokens'[s].parent] # NoToken
           /\ tokens'[tokens'[s].parent].revoked
  <2> SUFFICES ASSUME NEW s \in Tokens, tokens'[s] # NoToken,
                      tokens'[s].parent # None
               PROVE  /\ tokens'[tokens'[s].parent] # NoToken
                      /\ tokens'[tokens'[s].parent].revoked
    OBVIOUS
  <2>1. PICK p \in Tokens : /\ p = tokens'[s].parent
                            /\ Issued(p) /\ tokens[p].revoked
    <3>1. CASE s = t
      BY <1>2, <1>4, <1>7, <3>1
    <3>2. CASE s # t
      <4>1. tokens'[s] = tokens[s] /\ Issued(s)
        BY <1>7, <3>2 DEF Issued
      <4>2. tokens[s].parent \in Tokens
        BY <4>1, Rows DEF TokenRow
      <4>3. QED
        BY <4>1, <4>2 DEF ParentsAreIssued, RotationRevokesFirst, Issued
    <3>3. QED BY <3>1, <3>2
  <2>2. QED BY <1>8, <2>1 DEF Issued
<1>14. ParentsAreIssued' /\ RotationRevokesFirst'
  BY <1>13 DEF ParentsAreIssued, RotationRevokesFirst, Issued
<1>15. QED BY <1>6, <1>9, <1>11, <1>12, <1>14, UsersFrame

LEMMA RespondStep ==
  ASSUME IInv, NEW h \in Slots, Respond(h)
  PROVE  IInv'
<1> USE DEF IInv
<1>1. req[h] \in AuthReq /\ req[h].op = "respond" /\ RequestSound(req[h])
  BY DEF Respond, TypeOK, RequestsSound
<1>2. PICK b \in Browsers, c \in Tokens \cup {None} :
        /\ b = req[h].browser /\ c = req[h].cookie
        /\ c # None => Issued(c)
  BY <1>1, Requests DEF RequestSound
<1>3. /\ cookie' = [cookie EXCEPT ![b] = c] /\ Proceed(h, Idle)
      /\ UNCHANGED <<users, admins, tokens, wrong, closed>>
  BY <1>2 DEF Respond, Finish, history
<1>4. TypeOK'
  BY <1>3, IdleIsSound, ProceedType DEF TypeOK
<1>5. Keeps
  BY <1>3, KeepsAccounts DEF Issued
<1>6. RequestsSound'
  <2>1. RequestSound(req[h])'
    BY <1>3, IdleIsSound, ProceedType
  <2>2. QED BY <1>3, <1>4, <1>5, <2>1, IdleIsSound, ProceedType, RequestsKept
<1>7. CookiesAreIssued'
  <2> SUFFICES ASSUME NEW d \in Browsers, cookie'[d] # None
               PROVE  Issued(cookie'[d])
    BY <1>3 DEF CookiesAreIssued, Issued
  <2>1. CASE d = b BY <1>2, <1>3, <2>1, TokensType
  <2>2. CASE d # b BY <1>3, <2>2, TokensType DEF CookiesAreIssued
  <2>3. QED BY <2>1, <2>2
<1>8. ParentsAreIssued' /\ RotationRevokesFirst'
  BY <1>3 DEF ParentsAreIssued, RotationRevokesFirst, Issued
<1>9. QED BY <1>3, <1>4, <1>6, <1>7, <1>8, UsersFrame

LEMMA AbortStep ==
  ASSUME IInv, NEW h \in Slots, Abort(h)
  PROVE  IInv'
<1> USE DEF IInv
<1>1. /\ req' = [req EXCEPT ![h] = Idle] /\ faulted' = TRUE
      /\ UNCHANGED <<users, admins, tokens, cookie, workload, wrong, closed,
                     overlapped>>
  BY DEF Abort, history
<1>2. req'[h] = Idle /\ \A k \in Slots : k # h => req'[k] = req[k]
  BY <1>1, TokensType
<1>3. TypeOK'
  BY <1>1, IdleIsSound DEF TypeOK
<1>4. Keeps
  BY <1>1, KeepsAccounts DEF Issued
<1>5. RequestSound(req[h])'
  BY <1>2, IdleIsSound
<1>6. RequestsSound'
  BY <1>2, <1>3, <1>4, <1>5, RequestsKept
<1>7. QED BY <1>1, <1>3, <1>6, UsersFrame, TokensFrame

LEMMA StutterStep ==
  ASSUME IInv, UNCHANGED authVars
  PROVE  IInv'
  BY DEF IInv, authVars, TypeOK, RequestsSound, RequestSound, CookiesAreIssued,
         ParentsAreIssued, RotationRevokesFirst, LockNeedsFailures, Issued

-----------------------------------------------------------------------------
LEMMA InitEstablishes == Init => IInv
<1> SUFFICES ASSUME Init PROVE IInv
  OBVIOUS
<1>1. \A e \in Emails, p \in Passwords :
        /\ Registered(e, p) \in UserRow
        /\ Registered(e, p).failedLoginAttempts = 0
        /\ Registered(e, p).locked = FALSE
  BY DEF Registered, UserRow
<1>2. \A e \in Emails, p \in Passwords : Appointed(e, p) \in AdminRow
  BY DEF Appointed, AdminRow
<1>3. TypeOK
  <2>1. users \in [Users -> {NoAccount} \cup UserRow]
    <3>1. {NoAccount} \cup {Registered(e, p) : e \in Emails, p \in Passwords}
            \subseteq {NoAccount} \cup UserRow
      BY <1>1
    <3>2. QED BY <3>1 DEF Init
  <2>2. admins \in [Admins -> {NoAccount} \cup AdminRow]
    <3>1. {NoAccount} \cup {Appointed(e, p) : e \in Emails, p \in Passwords}
            \subseteq {NoAccount} \cup AdminRow
      BY <1>2
    <3>2. QED BY <3>1 DEF Init
  <2>3. tokens \in [Tokens -> {NoToken} \cup TokenRow]
        /\ cookie \in [Browsers -> Tokens \cup {None}]
        /\ wrong \in [Users -> Nat]
    BY DEF Init
  <2>4. req \in [Slots -> AuthReq]
    BY IdleIsSound DEF Init
  <2>5. /\ workload \in Workloads /\ closed \subseteq Tokens
        /\ overlapped \in BOOLEAN /\ faulted \in BOOLEAN
    <3>1. workload \in Workloads /\ closed = {}
      BY DEF Init
    <3>2. overlapped = FALSE /\ faulted = FALSE
      BY DEF Init
    <3>3. QED BY <3>1, <3>2
  <2>6. QED BY <2>1, <2>2, <2>3, <2>4, <2>5 DEF TypeOK
<1>4. RequestsSound
  BY IdleIsSound DEF Init, RequestsSound
<1>5. \A t \in Tokens : ~ Issued(t)
  BY DEF Init, Issued
<1>6. CookiesAreIssued /\ ParentsAreIssued /\ RotationRevokesFirst
  BY <1>5 DEF Init, CookiesAreIssued, ParentsAreIssued, RotationRevokesFirst,
              Issued
<1>7. LockNeedsFailures
  <2> SUFFICES ASSUME NEW u \in Users, users[u] # NoAccount
               PROVE  /\ users[u].failedLoginAttempts <= wrong[u]
                      /\ ~ users[u].locked
    BY DEF LockNeedsFailures
  <2>1. PICK e \in Emails, p \in Passwords : users[u] = Registered(e, p)
    BY DEF Init
  <2>2. QED BY <1>1, <2>1 DEF Init
<1>8. QED BY <1>3, <1>4, <1>6, <1>7 DEF IInv

LEMMA AuthStep ==
  ASSUME IInv, AuthNext
  PROVE  IInv'
  BY RegisterFindStep, LoginFindUserStep, LoginFindNoUserStep,
     RegisterCommitStep, LoginFindAdminStep, LoginFailStep, LoginSucceedStep,
     IssueTokenPairStep, RespondStep, RefreshFindStep, LogoutStep,
     RefreshRevokeStep, ChangePasswordVerifyStep, ChangePasswordUpdateStep,
     LockExpiresStep, TokenExpiresStep
  DEF AuthNext

LEMMA AccountsStep ==
  ASSUME IInv, AccountsNext
  PROVE  IInv'
  BY UserCreateStep, UserUpdateStep, AdminCreateStep, AdminUpdateStep,
     UserRemoveStep, AdminRemoveStep
  DEF AccountsNext

(* Every reachable state satisfies the invariant. *)
THEOREM Invariance == Spec => []IInv
<1>1. Init => IInv
  BY InitEstablishes
<1>2. IInv /\ [Next]_authVars => IInv'
  BY AuthStep, AccountsStep, AbortStep, StutterStep DEF Next
<1>3. QED BY <1>1, <1>2, PTL DEF Spec

(* Every table, cookie and request in flight has its type. *)
THEOREM TypeCorrect == Spec => []TypeOK
<1>1. IInv => TypeOK
  BY DEF IInv
<1>2. QED BY <1>1, Invariance, PTL

(* AuthService.login: whatever attempts race, no account is locked, and no *)
(* counter stands higher than its user's wrong passwords, before           *)
(* LOCKOUT_THRESHOLD wrong passwords have really been tried.               *)
THEOREM NoLockWithoutFailures == Spec => []LockNeedsFailures
<1>1. IInv => LockNeedsFailures
  BY DEF IInv
<1>2. QED BY <1>1, Invariance, PTL
=============================================================================
