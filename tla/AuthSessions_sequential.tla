----------------------- MODULE AuthSessions_sequential -----------------------
(***************************************************************************)
(* What AuthSessions promises as long as no two requests overlap, proved   *)
(* for any numbers of accounts, browsers and tokens: the lockout is the    *)
(* one of Lockout, and, when no response is lost either, logging out ends  *)
(* the session.  Last, what holds of rotation even when requests overlap:  *)
(* how often a token is exchanged, and that the token in a browser's       *)
(* cookie stays good unless a request was cut short or its reply lost.     *)
(***************************************************************************)
EXTENDS AuthSessions_proofs, FiniteSetTheorems

OneAtATime == \A h, k \in Slots : req[h] # Idle /\ req[k] # Idle => h = k

RowFresh(r) ==
  /\ r.op = "fail" =>
       /\ ~ users[r.user].locked
       /\ users[r.user].failedLoginAttempts = r.failedLoginAttempts
  /\ r.op = "succeed" => ~ users[r.user].locked

AccountsInSequence ==
  ~ overlapped => OneAtATime /\ \A h \in Slots : RowFresh(req[h])

Unrevoked(t) == Issued(t) /\ ~ tokens[t].revoked
SameSession(s, t) == Issued(s) /\ tokens[s].session = tokens[t].session

ChainsAreIssued ==
  /\ \A t \in Tokens : Issued(t) => Issued(tokens[t].session)
  /\ \A c \in closed : Issued(c)

TokenFresh(r) ==
  /\ r.op = "respond" /\ r.cookie # None =>
       Unrevoked(r.cookie) /\ \A b \in Browsers : cookie[b] # r.cookie
  /\ r.op = "revoke" => cookie[r.browser] = r.token /\ Unrevoked(r.token)
  /\ r.op = "issue" /\ r.parent # None =>
       /\ \A t \in Tokens : SameSession(t, r.parent) => tokens[t].revoked
       /\ \A c \in closed : ~ SameSession(c, r.parent)

OneCookieEach ==
  \A b, c \in Browsers : cookie[b] = cookie[c] /\ cookie[b] # None => b = c
CookieValidOrAnswering ==
  \A b \in Browsers :
    cookie[b] # None => Unrevoked(cookie[b]) \/ Answering(b)
OneTokenPerSession ==
  \A s, t \in Tokens : Unrevoked(s) /\ Unrevoked(t) /\ SameSession(s, t) => s = t

SessionsClosed ==
  \A c \in closed, t \in Tokens : SameSession(t, c) => tokens[t].revoked

SessionsSound ==
  /\ \A h \in Slots : TokenFresh(req[h])
  /\ OneCookieEach
  /\ CookieValidOrAnswering
  /\ OneTokenPerSession
  /\ SessionsClosed

SessionsInSequence == (~ overlapped /\ ~ faulted) => SessionsSound

-----------------------------------------------------------------------------
(***************************************************************************)
(* A step of the request in slot h, as long as requests do not overlap:    *)
(* every other slot is idle before it and after it.                        *)
(***************************************************************************)
Arrives(h, r) == \E operation \in workload : Begin(h, operation, r)
GoesOn(h, r) == req[h] # Idle /\ Proceed(h, r)

LEMMA Alone ==
  ASSUME IInv, ~ overlapped => OneAtATime, ~ overlapped', NEW h \in Slots,
         NEW r, Arrives(h, r) \/ GoesOn(h, r)
  PROVE  /\ ~ overlapped
         /\ req'[h] = r
         /\ \A k \in Slots : k # h => req[k] = Idle /\ req'[k] = Idle
         /\ OneAtATime'
         /\ Arrives(h, r) => req[h] = Idle
         /\ faulted' = faulted
<1>1. req \in [Slots -> AuthReq]
  BY DEF IInv, TypeOK
<1>2. CASE Arrives(h, r)
  <2>1. req' = [req EXCEPT ![h] = r] /\ req[h] = Idle /\ faulted' = faulted
        /\ overlapped' = (overlapped \/ \E k \in Slots : req[k] # Idle)
    BY <1>2 DEF Arrives, Begin
  <2>2. ~ overlapped /\ \A k \in Slots : req[k] = Idle
    BY <2>1
  <2>3. req'[h] = r /\ \A k \in Slots : k # h => req'[k] = Idle
    BY <1>1, <2>1, <2>2
  <2>4. QED BY <2>1, <2>2, <2>3 DEF OneAtATime
<1>3. CASE GoesOn(h, r)
  <2>1. req' = [req EXCEPT ![h] = r] /\ req[h] # Idle /\ faulted' = faulted
        /\ overlapped' = overlapped
    BY <1>3 DEF GoesOn, Proceed
  <2>2. \A k \in Slots : k # h => req[k] = Idle
    BY <2>1 DEF OneAtATime
  <2>3. req'[h] = r /\ \A k \in Slots : k # h => req'[k] = Idle
    BY <1>1, <2>1, <2>2
  <2>4. QED BY <2>1, <2>2, <2>3 DEF OneAtATime, Arrives, Begin
<1>4. QED BY <1>2, <1>3

LEMMA NotIdle ==
  ASSUME NEW r, r.op \in {"register", "admin", "succeed", "fail", "issue",
                          "respond", "revoke", "password"}
  PROVE  r # Idle
  BY DEF Idle

-----------------------------------------------------------------------------
(***************************************************************************)
(* Accounts.  A request that is alone finds the rows as it read them.      *)
(***************************************************************************)
LEMMA AccountsStepOf ==
  ASSUME IInv, AccountsInSequence, NEW h \in Slots, NEW r,
         Arrives(h, r) \/ GoesOn(h, r), RowFresh(r)'
  PROVE  AccountsInSequence'
<1> SUFFICES ASSUME ~ overlapped'
             PROVE  OneAtATime' /\ \A k \in Slots : RowFresh(req[k])'
  BY DEF AccountsInSequence
<1>1. /\ req'[h] = r /\ OneAtATime'
      /\ \A k \in Slots : k # h => req'[k] = Idle
  BY Alone DEF AccountsInSequence
<1>2. ASSUME NEW k \in Slots PROVE RowFresh(req[k])'
  BY <1>1 DEF RowFresh, Idle
<1>3. QED BY <1>1, <1>2

(* The requests that remember no row. *)
LEMMA RowUnread ==
  ASSUME NEW r, r.op \notin {"fail", "succeed"}
  PROVE  RowFresh(r)'
  BY DEF RowFresh

LEMMA AuthAccounts ==
  ASSUME IInv, AccountsInSequence, NEW h \in Slots,
         \/ \E b \in Browsers, e \in Emails, p \in Passwords :
              \/ RegisterFind(h, b, e, p)
              \/ LoginFindUser(h, b, e, p)
              \/ LoginFindNoUser(h, b, e, p)
         \/ RegisterCommit(h) \/ LoginFindAdmin(h) \/ LoginFail(h)
         \/ LoginSucceed(h) \/ IssueTokenPair(h) \/ Respond(h)
         \/ \E b \in Browsers : RefreshFind(h, b) \/ Logout(h, b)
         \/ RefreshRevoke(h)
         \/ \E a \in Admins, current, new \in Passwords :
              ChangePasswordVerify(h, a, current, new)
         \/ ChangePasswordUpdate(h)
  PROVE  AccountsInSequence'
<1>1. \E r : (Arrives(h, r) \/ GoesOn(h, r)) /\ RowFresh(r)'
  <2>0. Idle.op \notin {"fail", "succeed"}
    BY DEF Idle
  <2>1. ASSUME NEW b \in Browsers, NEW e \in Emails, NEW p \in Passwords,
               RegisterFind(h, b, e, p) \/ LoginFindNoUser(h, b, e, p)
        PROVE  <1>1!:
    <3>1. \/ Arrives(h, [op |-> "register", browser |-> b, email |-> e,
                        password |-> p])
          \/ Arrives(h, [op |-> "admin", browser |-> b, email |-> e,
                        password |-> p])
      BY <2>1 DEF RegisterFind, LoginFindNoUser, Arrives, Begin
    <3>2. QED BY <3>1, RowUnread
  <2>2. ASSUME NEW b \in Browsers, NEW e \in Emails, NEW p \in Passwords,
               LoginFindUser(h, b, e, p)
        PROVE  <1>1!:
    <3>1. PICK u \in Users :
            /\ ~ users[u].locked /\ users' = users
            /\ \/ Arrives(h, [op |-> "succeed", browser |-> b, user |-> u])
               \/ Arrives(h, [op |-> "fail", user |-> u,
                    failedLoginAttempts |-> users[u].failedLoginAttempts])
      BY <2>2 DEF LoginFindUser, Arrives, Begin
    <3>2. RowFresh([op |-> "succeed", browser |-> b, user |-> u])'
      BY <3>1 DEF RowFresh
    <3>3. RowFresh([op |-> "fail", user |-> u,
                    failedLoginAttempts |-> users[u].failedLoginAttempts])'
      BY <3>1 DEF RowFresh
    <3>4. QED BY <3>1, <3>2, <3>3
  <2>3. CASE RegisterCommit(h)
    <3>1. GoesOn(h, Idle) \/ \E u \in Users :
            GoesOn(h, [op |-> "issue", browser |-> req[h].browser,
                       owner |-> u, parent |-> None])
      BY <2>3, NotIdle DEF RegisterCommit, GoesOn, Finish
    <3>2. QED BY <2>0, <3>1, RowUnread
  <2>4. CASE LoginFindAdmin(h)
    <3>1. GoesOn(h, Idle) \/ \E a \in Admins :
            GoesOn(h, [op |-> "issue", browser |-> req[h].browser,
                       owner |-> a, parent |-> None])
      BY <2>4, NotIdle DEF LoginFindAdmin, GoesOn, Finish
    <3>2. QED BY <2>0, <3>1, RowUnread
  <2>5. CASE LoginFail(h) \/ Respond(h) \/ ChangePasswordUpdate(h)
    <3>1. GoesOn(h, Idle)
      BY <2>5, NotIdle DEF LoginFail, Respond, ChangePasswordUpdate, GoesOn, Finish
    <3>2. QED BY <2>0, <3>1, RowUnread
  <2>6. CASE LoginSucceed(h)
    <3>1. GoesOn(h, [op |-> "issue", browser |-> req[h].browser,
                     owner |-> req[h].user, parent |-> None])
      BY <2>6, NotIdle DEF LoginSucceed, GoesOn
    <3>2. QED BY <3>1, RowUnread
  <2>7. CASE RefreshRevoke(h)
    <3>1. GoesOn(h, [op |-> "issue", browser |-> req[h].browser,
                     owner |-> tokens[req[h].token].owner,
                     parent |-> req[h].token])
      BY <2>7, NotIdle DEF RefreshRevoke, GoesOn
    <3>2. QED BY <3>1, RowUnread
  <2>8. CASE IssueTokenPair(h)
    <3>1. PICK t \in Tokens :
            GoesOn(h, [op |-> "respond", browser |-> req[h].browser,
                       cookie |-> t])
      BY <2>8, NotIdle DEF IssueTokenPair, GoesOn
    <3>2. QED BY <3>1, RowUnread
  <2>9. ASSUME NEW b \in Browsers, RefreshFind(h, b) \/ Logout(h, b)
        PROVE  <1>1!:
    <3>1. \/ Arrives(h, [op |-> "revoke", browser |-> b, token |-> cookie[b]])
          \/ Arrives(h, [op |-> "respond", browser |-> b, cookie |-> None])
      BY <2>9 DEF RefreshFind, Logout, Arrives, Begin
    <3>2. QED BY <3>1, RowUnread
  <2>10. ASSUME NEW a \in Admins, NEW current \in Passwords,
                NEW new \in Passwords, ChangePasswordVerify(h, a, current, new)
         PROVE  <1>1!:
    <3>1. Arrives(h, [op |-> "password", admin |-> a, password |-> new])
      BY <2>10 DEF ChangePasswordVerify, Arrives, Begin
    <3>2. QED BY <3>1, RowUnread
  <2>11. QED
    BY <2>1, <2>2, <2>3, <2>4, <2>5, <2>6, <2>7, <2>8, <2>9, <2>10
<1>2. QED BY <1>1, AccountsStepOf

(* AccountsService's requests are done with their first await. *)
LEMMA AccountsArrives ==
  ASSUME AccountsNext
  PROVE  \E h \in Slots : /\ Arrives(h, Idle) /\ req[h] = Idle
                          /\ UNCHANGED <<tokens, cookie, closed>>
<1> DEFINE Done(h) == /\ Arrives(h, Idle) /\ req[h] = Idle
                      /\ UNCHANGED <<tokens, cookie, closed>>
<1>1. ASSUME NEW h \in Slots, NEW e \in Emails,
             UserCreate(h, e) \/ \E u \in Users : UserUpdate(h, u, e)
      PROVE  Done(h)
  BY <1>1 DEF UserCreate, UserUpdate, Arrives, Begin, history
<1>2. ASSUME NEW h \in Slots, NEW e \in Emails, NEW p \in Passwords,
             \/ AdminCreate(h, e, p)
             \/ \E a \in Admins, isActive \in BOOLEAN :
                  AdminUpdate(h, a, e, isActive, p)
      PROVE  Done(h)
  BY <1>2 DEF AdminCreate, AdminUpdate, Arrives, Begin, history
<1>3. ASSUME NEW h \in Slots, \/ \E u \in Users : UserRemove(h, u)
                              \/ \E a \in Admins : AdminRemove(h, a)
      PROVE  Done(h)
  BY <1>3 DEF UserRemove, AdminRemove, Arrives, Begin, history
<1> HIDE DEF Done
<1>4. \E h \in Slots : Done(h)
  BY <1>1, <1>2, <1>3 DEF AccountsNext
<1>5. QED BY <1>4 DEF Done

LEMMA AccountsAccounts ==
  ASSUME IInv, AccountsInSequence, AccountsNext
  PROVE  AccountsInSequence'
<1>1. PICK h \in Slots : Arrives(h, Idle)
  BY AccountsArrives
<1>2. RowFresh(Idle)'
  BY RowUnread DEF Idle
<1>3. QED BY <1>1, <1>2, AccountsStepOf

(* A lock that expires was set, and a request that is alone saw it clear. *)
LEMMA LockExpiresAccounts ==
  ASSUME IInv, AccountsInSequence, NEW u \in Users, LockExpires(u)
  PROVE  AccountsInSequence'
<1> SUFFICES ASSUME ~ overlapped'
             PROVE  OneAtATime' /\ \A h \in Slots : RowFresh(req[h])'
  BY DEF AccountsInSequence
<1>1. users[u].locked /\ UNCHANGED <<admins, req, overlapped>>
      /\ \A v \in Users : v # u => users'[v] = users[v]
  BY DEF LockExpires, IInv, TypeOK
<1>2. OneAtATime'
  BY <1>1 DEF AccountsInSequence, OneAtATime
<1>3. ASSUME NEW h \in Slots PROVE RowFresh(req[h])'
  <2>1. req[h] \in AuthReq /\ RowFresh(req[h])
    BY <1>1 DEF AccountsInSequence, IInv, TypeOK
  <2>2. req[h].op \in {"fail", "succeed"} =>
          users'[req[h].user] = users[req[h].user]
    BY <1>1, <2>1, Requests DEF RowFresh
  <2>3. QED BY <1>1, <2>1, <2>2 DEF RowFresh
<1>4. QED BY <1>2, <1>3

(* Steps that change no account and at most give a slot up. *)
LEMMA AccountsFrame ==
  ASSUME IInv, AccountsInSequence, UNCHANGED <<users, admins, overlapped>>,
         req' = req \/ \E h \in Slots : req' = [req EXCEPT ![h] = Idle]
  PROVE  AccountsInSequence'
<1> SUFFICES ASSUME ~ overlapped
             PROVE  OneAtATime' /\ \A h \in Slots : RowFresh(req[h])'
  BY DEF AccountsInSequence
<1>1. \A k \in Slots : req'[k] = Idle \/ req'[k] = req[k]
  BY DEF IInv, TypeOK
<1>2. OneAtATime'
  BY <1>1 DEF AccountsInSequence, OneAtATime
<1>3. ASSUME NEW k \in Slots PROVE RowFresh(req[k])'
  BY <1>1 DEF AccountsInSequence, RowFresh, Idle
<1>4. QED BY <1>2, <1>3

LEMMA AccountsStepInSequence ==
  ASSUME IInv, AccountsInSequence, [Next]_authVars
  PROVE  AccountsInSequence'
<1>1. CASE AuthNext
  <2>1. ASSUME NEW t \in Tokens, TokenExpires(t) PROVE AccountsInSequence'
    BY <2>1, AccountsFrame DEF TokenExpires
  <2>2. QED BY <1>1, <2>1, AuthAccounts, LockExpiresAccounts DEF AuthNext
<1>2. CASE AccountsNext
  BY <1>2, AccountsAccounts
<1>3. ASSUME NEW h \in Slots, Abort(h) PROVE AccountsInSequence'
  BY <1>3, AccountsFrame DEF Abort
<1>4. CASE UNCHANGED authVars
  BY <1>4, AccountsFrame DEF authVars
<1>5. QED BY <1>1, <1>2, <1>3, <1>4 DEF Next

LEMMA AccountsInvariance == Spec => [](IInv /\ AccountsInSequence)
<1>1. Init => IInv /\ AccountsInSequence
  BY InitEstablishes
  DEF Init, AccountsInSequence, OneAtATime, RowFresh, Idle
<1>2. (IInv /\ AccountsInSequence) /\ [Next]_authVars
        => (IInv /\ AccountsInSequence)'
  BY AuthStep, AccountsStep, AbortStep, StutterStep, AccountsStepInSequence
  DEF Next
<1>3. QED BY <1>1, <1>2, PTL DEF Spec

(* Requests overlap when one arrives while another is in flight, and only  *)
(* then; what has overlapped has.                                          *)
OverlapsAs ==
  \/ overlapped' = overlapped
  \/ \E h \in Slots :
       /\ req[h] = Idle
       /\ overlapped' = (overlapped \/ \E k \in Slots : req[k] # Idle)

LEMMA OnlyArrivalsOverlap ==
  ASSUME [Next]_authVars
  PROVE  OverlapsAs
<1>1. ASSUME NEW h \in Slots, NEW operation, NEW r, Begin(h, operation, r)
      PROVE  OverlapsAs
  BY <1>1 DEF Begin, OverlapsAs
<1>2. ASSUME NEW h, NEW r, Proceed(h, r) PROVE OverlapsAs
  BY <1>2 DEF Proceed, OverlapsAs
<1>3. CASE AuthNext
  <2>1. ASSUME NEW h \in Slots, NEW b \in Browsers, NEW e \in Emails,
               NEW p \in Passwords,
               \/ RegisterFind(h, b, e, p) \/ LoginFindUser(h, b, e, p)
               \/ LoginFindNoUser(h, b, e, p)
        PROVE  OverlapsAs
    BY <2>1, <1>1 DEF RegisterFind, LoginFindUser, LoginFindNoUser
  <2>2. ASSUME NEW h \in Slots, RegisterCommit(h) \/ LoginFindAdmin(h)
        PROVE  OverlapsAs
    BY <2>2, <1>2 DEF RegisterCommit, LoginFindAdmin, Finish
  <2>3. ASSUME NEW h \in Slots,
               \/ LoginFail(h) \/ LoginSucceed(h) \/ IssueTokenPair(h)
               \/ Respond(h) \/ ChangePasswordUpdate(h)
        PROVE  OverlapsAs
    BY <2>3, <1>2 DEF LoginFail, LoginSucceed, IssueTokenPair, Respond,
                      ChangePasswordUpdate, Finish
  <2>4. ASSUME NEW h \in Slots, RefreshRevoke(h) PROVE OverlapsAs
    BY <2>4, <1>2 DEF RefreshRevoke
  <2>5. ASSUME NEW h \in Slots, NEW b \in Browsers,
               RefreshFind(h, b) \/ Logout(h, b)
        PROVE  OverlapsAs
    BY <2>5, <1>1 DEF RefreshFind, Logout
  <2>6. ASSUME NEW h \in Slots, NEW a \in Admins, NEW current \in Passwords,
               NEW new \in Passwords, ChangePasswordVerify(h, a, current, new)
        PROVE  OverlapsAs
    BY <2>6, <1>1 DEF ChangePasswordVerify
  <2>7. ASSUME NEW u \in Users, LockExpires(u) PROVE OverlapsAs
    BY <2>7 DEF LockExpires, OverlapsAs
  <2>8. ASSUME NEW t \in Tokens, TokenExpires(t) PROVE OverlapsAs
    BY <2>8 DEF TokenExpires, OverlapsAs
  <2>9. QED
    BY <1>3, <2>1, <2>2, <2>3, <2>4, <2>5, <2>6, <2>7, <2>8 DEF AuthNext
<1>4. CASE AccountsNext
  BY <1>4, <1>1, AccountsArrives DEF Arrives
<1>5. ASSUME NEW h \in Slots, Abort(h) PROVE OverlapsAs
  BY <1>5 DEF Abort, OverlapsAs
<1>6. CASE UNCHANGED authVars
  BY <1>6 DEF authVars, OverlapsAs
<1>7. QED BY <1>3, <1>4, <1>5, <1>6 DEF Next

LEMMA OverlapStays ==
  ASSUME [Next]_authVars, ~ overlapped'
  PROVE  ~ overlapped
  BY OnlyArrivalsOverlap DEF OverlapsAs

-----------------------------------------------------------------------------
(***************************************************************************)
(* The lockout.  What a change of one user's row shows of it.              *)
(***************************************************************************)
LEMMA LockoutOfRow ==
  ASSUME TypeOK, NEW u \in Users, NEW row \in UserRow,
         users' = [users EXCEPT ![u] = row]
  PROVE  /\ attempts' = [attempts EXCEPT ![u] = row.failedLoginAttempts]
         /\ locked' = [locked EXCEPT ![u] = row.locked]
         /\ users[u] # NoAccount => /\ attempts[u] = users[u].failedLoginAttempts
                                    /\ locked[u] = users[u].locked
         /\ users[u] = NoAccount => attempts[u] = 0 /\ locked[u] = FALSE
<1>1. /\ users' \in [Users -> {NoAccount} \cup UserRow] /\ users'[u] = row
      /\ row # NoAccount
      /\ \A v \in Users : v # u => users'[v] = users[v]
  BY Absent DEF TypeOK
<1>2. attempts' = [attempts EXCEPT ![u] = row.failedLoginAttempts]
  BY <1>1 DEF attempts
<1>3. row.locked \in BOOLEAN
  BY DEF UserRow
<1>4. locked' = [locked EXCEPT ![u] = row.locked]
  <2>1. ASSUME NEW v \in Users
        PROVE  (users'[v] # NoAccount /\ users'[v].locked)
                 = IF v = u THEN row.locked
                   ELSE (users[v] # NoAccount /\ users[v].locked)
    BY <1>1, <1>3
  <2>2. QED BY <2>1 DEF locked
<1>5. users[u] # NoAccount => users[u].locked \in BOOLEAN
  BY Rows DEF UserRow
<1>6. locked[u] = (users[u] # NoAccount /\ users[u].locked)
  BY DEF locked
<1>7. QED BY <1>2, <1>4, <1>5, <1>6 DEF attempts

(* Steps after which the lockout is as it was. *)
LockoutKept == UNCHANGED <<attempts, locked>>

LEMMA LockoutUnread ==
  ASSUME users' = users
  PROVE  LockoutKept
  BY DEF LockoutKept, attempts, locked

LEMMA LockoutSame ==
  ASSUME TypeOK, NEW u \in Users, NEW row \in UserRow,
         users' = [users EXCEPT ![u] = row],
         \/ /\ users[u] # NoAccount
            /\ row.failedLoginAttempts = users[u].failedLoginAttempts
            /\ row.locked = users[u].locked
         \/ /\ users[u] = NoAccount
            /\ row.failedLoginAttempts = 0 /\ row.locked = FALSE
  PROVE  LockoutKept
<1>1. /\ attempts' = [attempts EXCEPT ![u] = row.failedLoginAttempts]
      /\ locked' = [locked EXCEPT ![u] = row.locked]
      /\ attempts[u] = row.failedLoginAttempts
      /\ locked[u] = row.locked
  BY LockoutOfRow
<1>2. attempts = [v \in Users |-> attempts[v]]
  BY DEF attempts
<1>3. locked = [v \in Users |-> locked[v]]
  BY DEF locked
<1>4. attempts' = attempts
  BY <1>1, <1>2
<1>5. locked' = locked
  BY <1>1, <1>3
<1>6. QED BY <1>4, <1>5 DEF LockoutKept

LEMMA CreatedUnlocked ==
  ASSUME TypeOK, NEW u \in Users, NEW e \in Emails,
         NEW p \in Passwords \cup {None}, users[u] = NoAccount,
         users' = [users EXCEPT ![u] =
           [email |-> e, deleted |-> FALSE, password |-> p,
            failedLoginAttempts |-> 0, locked |-> FALSE]]
  PROVE  LockoutKept
<1> DEFINE row == [email |-> e, deleted |-> FALSE, password |-> p,
                   failedLoginAttempts |-> 0, locked |-> FALSE]
<1>1. /\ row \in UserRow /\ row.failedLoginAttempts = 0 /\ row.locked = FALSE
  BY DEF UserRow
<1>2. QED BY <1>1, LockoutSame

LEMMA RegisterCommitLockout ==
  ASSUME IInv, NEW h \in Slots, RegisterCommit(h)
  PROVE  LockoutKept
<1>1. req[h].email \in Emails /\ req[h].password \in Passwords
  BY Requests DEF RegisterCommit, IInv, TypeOK
<1>2. users' = users \/ \E u \in Users :
        /\ users[u] = NoAccount
        /\ users' = [users EXCEPT ![u] =
             [email |-> req[h].email, deleted |-> FALSE,
              password |-> req[h].password, failedLoginAttempts |-> 0,
              locked |-> FALSE]]
  BY DEF RegisterCommit
<1>3. QED BY <1>1, <1>2, LockoutUnread, CreatedUnlocked DEF IInv

LEMMA AccountsLockout ==
  ASSUME IInv, AccountsNext
  PROVE  LockoutKept
<1>0. TypeOK BY DEF IInv
<1>1. ASSUME NEW h \in Slots, NEW e \in Emails, UserCreate(h, e)
      PROVE  LockoutKept
  <2>1. PICK u \in Users :
          /\ users[u] = NoAccount
          /\ users' = [users EXCEPT ![u] =
               [email |-> e, deleted |-> FALSE, password |-> None,
                failedLoginAttempts |-> 0, locked |-> FALSE]]
    BY <1>1 DEF UserCreate
  <2>2. QED BY <1>0, <2>1, CreatedUnlocked
<1>2. ASSUME NEW h \in Slots, NEW u \in Users, NEW e \in Emails,
             UserUpdate(h, u, e)
      PROVE  LockoutKept
  <2>1. users[u] \in UserRow /\ users[u] # NoAccount
    BY <1>0, <1>2, Rows DEF UserUpdate, LiveUser
  <2>2. PICK row \in UserRow :
          /\ row = [users[u] EXCEPT !.email = e]
          /\ row.failedLoginAttempts = users[u].failedLoginAttempts
          /\ row.locked = users[u].locked
    BY <2>1, Edited
  <2>3. users' = [users EXCEPT ![u] = row]
    BY <1>0, <1>2, <2>2 DEF UserUpdate, TypeOK
  <2>4. QED BY <1>0, <2>1, <2>2, <2>3, LockoutSame
<1>3. ASSUME NEW h \in Slots, NEW u \in Users, UserRemove(h, u)
      PROVE  LockoutKept
  <2>1. users[u] \in UserRow /\ users[u] # NoAccount
    BY <1>0, <1>3, Rows DEF UserRemove, LiveUser
  <2>2. PICK row \in UserRow :
          /\ row = [users[u] EXCEPT !.deleted = TRUE]
          /\ row.failedLoginAttempts = users[u].failedLoginAttempts
          /\ row.locked = users[u].locked
    BY <2>1, Edited
  <2>3. users' = [users EXCEPT ![u] = row]
    BY <1>0, <1>3, <2>2 DEF UserRemove, TypeOK
  <2>4. QED BY <1>0, <2>1, <2>2, <2>3, LockoutSame
<1>4. ASSUME NEW h \in Slots, NEW e \in Emails, NEW p \in Passwords,
             \/ AdminCreate(h, e, p)
             \/ \E a \in Admins, isActive \in BOOLEAN :
                  AdminUpdate(h, a, e, isActive, p)
      PROVE  LockoutKept
  BY <1>4, LockoutUnread DEF AdminCreate, AdminUpdate
<1>5. ASSUME NEW h \in Slots, NEW a \in Admins, AdminRemove(h, a)
      PROVE  LockoutKept
  BY <1>5, LockoutUnread DEF AdminRemove
<1>6. QED BY <1>1, <1>2, <1>3, <1>4, <1>5 DEF AccountsNext

(* A request that is alone writes the counter it read plus one. *)
LEMMA LoginFailLockout ==
  ASSUME IInv, NEW h \in Slots, LoginFail(h), RowFresh(req[h])
  PROVE  L!Next
<1>0. TypeOK BY DEF IInv
<1>1. /\ req[h] \in AuthReq /\ req[h].op = "fail" /\ RequestSound(req[h])
  BY DEF IInv, TypeOK, LoginFail, RequestsSound
<1>2. PICK u \in Users, n \in Nat :
        /\ u = req[h].user /\ n = req[h].failedLoginAttempts
        /\ users[u] # NoAccount /\ users[u] \in UserRow
        /\ ~ users[u].locked /\ users[u].failedLoginAttempts = n
  BY <1>0, <1>1, Requests, Rows DEF RequestSound, RowFresh
<1>3. (n + 1 >= LOCKOUT_THRESHOLD) \in BOOLEAN /\ n + 1 \in Nat
  BY ThresholdAssumption
<1>4. PICK row \in UserRow :
        /\ row = [users[u] EXCEPT !.failedLoginAttempts = n + 1,
                                  !.locked = n + 1 >= LOCKOUT_THRESHOLD]
        /\ row.failedLoginAttempts = n + 1
        /\ row.locked = (n + 1 >= LOCKOUT_THRESHOLD)
  <2>1. CASE n + 1 >= LOCKOUT_THRESHOLD
    <3>1. (n + 1 >= LOCKOUT_THRESHOLD) = TRUE BY <2>1
    <3> DEFINE row == [users[u] EXCEPT !.failedLoginAttempts = n + 1,
                                       !.locked = TRUE]
    <3>2. row \in UserRow /\ row.failedLoginAttempts = n + 1 /\ row.locked = TRUE
      BY <1>2, <1>3 DEF UserRow
    <3>3. QED BY <3>1, <3>2
  <2>2. CASE ~ (n + 1 >= LOCKOUT_THRESHOLD)
    <3>1. (n + 1 >= LOCKOUT_THRESHOLD) = FALSE BY <2>2
    <3> DEFINE row == [users[u] EXCEPT !.failedLoginAttempts = n + 1,
                                       !.locked = FALSE]
    <3>2. row \in UserRow /\ row.failedLoginAttempts = n + 1 /\ row.locked = FALSE
      BY <1>2, <1>3 DEF UserRow
    <3>3. QED BY <3>1, <3>2
  <2>3. QED BY <2>1, <2>2
<1>5. users' = [users EXCEPT ![u] = row]
  BY <1>0, <1>2, <1>4 DEF LoginFail, TypeOK
<1>6. /\ attempts' = [attempts EXCEPT ![u] = n + 1]
      /\ locked' = [locked EXCEPT ![u] = n + 1 >= LOCKOUT_THRESHOLD]
      /\ attempts[u] = n /\ locked[u] = users[u].locked
  <2>1. /\ attempts' = [attempts EXCEPT ![u] = row.failedLoginAttempts]
        /\ locked' = [locked EXCEPT ![u] = row.locked]
        /\ attempts[u] = users[u].failedLoginAttempts
        /\ locked[u] = users[u].locked
    BY <1>0, <1>2, <1>5, LockoutOfRow
  <2>2. QED BY <1>2, <1>4, <2>1, Zenon
<1>7. L!Wrong(u)
  BY <1>2, <1>6 DEF L!Wrong
<1>8. QED BY <1>7 DEF L!Next

LEMMA LoginSucceedLockout ==
  ASSUME IInv, NEW h \in Slots, LoginSucceed(h), RowFresh(req[h])
  PROVE  L!Next
<1>0. TypeOK BY DEF IInv
<1>1. /\ req[h] \in AuthReq /\ req[h].op = "succeed" /\ RequestSound(req[h])
  BY DEF IInv, TypeOK, LoginSucceed, RequestsSound
<1>2. PICK u \in Users :
        /\ u = req[h].user /\ users[u] # NoAccount /\ users[u] \in UserRow
        /\ users[u].locked = FALSE
  BY <1>0, <1>1, Requests, Rows DEF RequestSound, RowFresh, UserRow
<1> DEFINE row == [users[u] EXCEPT !.failedLoginAttempts = 0,
                                   !.locked = FALSE]
<1>3. /\ row \in UserRow
      /\ row.failedLoginAttempts = 0 /\ row.locked = FALSE
  BY <1>2 DEF UserRow
<1>4. users' = [users EXCEPT ![u] = row]
  BY <1>0, <1>2, <1>3 DEF LoginSucceed, TypeOK
<1>5. /\ attempts' = [attempts EXCEPT ![u] = 0]
      /\ locked' = [locked EXCEPT ![u] = FALSE] /\ locked[u] = FALSE
  <2> HIDE DEF row
  <2>1. /\ attempts' = [attempts EXCEPT ![u] = row.failedLoginAttempts]
        /\ locked' = [locked EXCEPT ![u] = row.locked]
        /\ locked[u] = users[u].locked
    BY <1>0, <1>2, <1>3, <1>4, LockoutOfRow
  <2>2. QED BY <1>2, <1>3, <2>1, Zenon
<1>6. locked' = locked
  <2>1. locked = [v \in Users |-> locked[v]]
    BY DEF locked
  <2>2. QED BY <1>5, <2>1
<1>7. L!Right(u)
  BY <1>5, <1>6 DEF L!Right
<1>8. QED BY <1>7 DEF L!Next

LEMMA LockExpiresLockout ==
  ASSUME IInv, NEW u \in Users, LockExpires(u)
  PROVE  L!Next
<1>0. TypeOK BY DEF IInv
<1>1. users[u] # NoAccount /\ users[u] \in UserRow /\ users[u].locked
  BY <1>0, Rows DEF LockExpires
<1>2. PICK row \in UserRow :
        /\ row = [users[u] EXCEPT !.locked = FALSE] /\ row.locked = FALSE
        /\ row.failedLoginAttempts = users[u].failedLoginAttempts
  BY <1>1, Edited
<1>3. users' = [users EXCEPT ![u] = row]
  BY <1>0, <1>2 DEF LockExpires, TypeOK
<1>4. /\ attempts' = [attempts EXCEPT ![u] = attempts[u]]
      /\ locked' = [locked EXCEPT ![u] = FALSE] /\ locked[u] = users[u].locked
  <2>1. /\ attempts' = [attempts EXCEPT ![u] = row.failedLoginAttempts]
        /\ locked' = [locked EXCEPT ![u] = row.locked]
        /\ attempts[u] = users[u].failedLoginAttempts
        /\ locked[u] = users[u].locked
    BY <1>0, <1>1, <1>3, LockoutOfRow
  <2>2. QED BY <1>2, <2>1, Zenon
<1>5. attempts' = attempts
  <2>1. attempts = [v \in Users |-> attempts[v]]
    BY DEF attempts
  <2>2. QED BY <1>4, <2>1
<1>6. L!Expire(u)
  BY <1>1, <1>4, <1>5 DEF L!Expire
<1>7. QED BY <1>6 DEF L!Next

LEMMA LockoutStep ==
  ASSUME IInv, AccountsInSequence, [Next]_authVars, ~ overlapped'
  PROVE  L!Next \/ LockoutKept
<1>0. \A h \in Slots : RowFresh(req[h])
  BY OverlapStays DEF AccountsInSequence
<1>1. CASE AuthNext
  <2>1. ASSUME NEW h \in Slots, NEW b \in Browsers, NEW e \in Emails,
               NEW p \in Passwords,
               \/ RegisterFind(h, b, e, p) \/ LoginFindUser(h, b, e, p)
               \/ LoginFindNoUser(h, b, e, p)
        PROVE  LockoutKept
    BY <2>1, LockoutUnread
    DEF RegisterFind, LoginFindUser, LoginFindNoUser
  <2>2. ASSUME NEW h \in Slots,
               \/ LoginFindAdmin(h) \/ IssueTokenPair(h) \/ Respond(h)
               \/ RefreshRevoke(h) \/ ChangePasswordUpdate(h)
        PROVE  LockoutKept
    BY <2>2, LockoutUnread
    DEF LoginFindAdmin, IssueTokenPair, Respond, RefreshRevoke,
        ChangePasswordUpdate
  <2>3. ASSUME NEW h \in Slots, NEW b \in Browsers,
               RefreshFind(h, b) \/ Logout(h, b)
        PROVE  LockoutKept
    BY <2>3, LockoutUnread DEF RefreshFind, Logout
  <2>4. ASSUME NEW h \in Slots, NEW a \in Admins, NEW current \in Passwords,
               NEW new \in Passwords, ChangePasswordVerify(h, a, current, new)
        PROVE  LockoutKept
    BY <2>4, LockoutUnread DEF ChangePasswordVerify
  <2>5. ASSUME NEW t \in Tokens, TokenExpires(t) PROVE LockoutKept
    BY <2>5, LockoutUnread DEF TokenExpires
  <2>6. QED
    BY <1>0, <1>1, <2>1, <2>2, <2>3, <2>4, <2>5, RegisterCommitLockout,
       LoginFailLockout, LoginSucceedLockout, LockExpiresLockout
    DEF AuthNext
<1>2. CASE AccountsNext
  BY <1>2, AccountsLockout
<1>3. ASSUME NEW h \in Slots, Abort(h) PROVE LockoutKept
  BY <1>3, LockoutUnread DEF Abort
<1>4. CASE UNCHANGED authVars
  BY <1>4, LockoutUnread DEF authVars
<1>5. QED BY <1>1, <1>2, <1>3, <1>4 DEF Next

(* AuthService.login and auth.service.ts:30: as long as no two requests    *)
(* overlap, reading the counter, checking the password and writing the     *)
(* counter back are together one step of Lockout.                          *)
THEOREM LockoutIsFollowed == Spec => LockoutFollowed
<1>1. (IInv /\ AccountsInSequence) /\ [Next]_authVars =>
        [~ overlapped' => L!Next \/ UNCHANGED <<attempts, locked>>]_authVars
  BY LockoutStep DEF LockoutKept
<1>2. QED BY <1>1, AccountsInvariance, PTL DEF Spec, LockoutFollowed

-----------------------------------------------------------------------------
LEMMA OneSlotNeverOverlaps ==
  ASSUME \A h, k \in Slots : h = k, ~ overlapped, [Next]_authVars
  PROVE  ~ overlapped'
  BY OnlyArrivalsOverlap DEF OverlapsAs

(* A server that answers one request at a time implements Lockout: three   *)
(* awaits of login are its one step, and nothing else touches the counter  *)
(* or the lock.                                                            *)
THEOREM OneRequestAtATimeIsLockout ==
  ASSUME \A h, k \in Slots : h = k
  PROVE  Spec => L!Spec
<1>1. Init => L!Init /\ ~ overlapped
  <2> SUFFICES ASSUME Init PROVE L!Init /\ ~ overlapped
    OBVIOUS
  <2>1. \A u \in Users :
          users[u] # NoAccount =>
            users[u].failedLoginAttempts = 0 /\ users[u].locked = FALSE
    BY DEF Init, Registered
  <2>2. \A u \in Users : (users[u] # NoAccount /\ users[u].locked) = FALSE
    BY <2>1
  <2>3. attempts = [u \in Users |-> 0]
    BY <2>1 DEF attempts
  <2>4. locked = [u \in Users |-> FALSE]
    BY <2>2 DEF locked
  <2>5. QED BY <2>3, <2>4 DEF L!Init, Init
<1>2. ~ overlapped /\ [Next]_authVars => ~ overlapped'
  BY OneSlotNeverOverlaps
<1>3. (IInv /\ AccountsInSequence) /\ ~ overlapped' /\ [Next]_authVars
        => [L!Next]_<<attempts, locked>>
  BY LockoutStep DEF LockoutKept
<1>4. QED BY <1>1, <1>2, <1>3, AccountsInvariance, PTL DEF Spec, L!Spec

-----------------------------------------------------------------------------
(***************************************************************************)
(* Sessions.  Every chain of tokens starts with an issued one.             *)
(***************************************************************************)
LEMMA SessionType ==
  ASSUME TypeOK
  PROVE  \A t \in Tokens : Issued(t) => tokens[t].session \in Tokens
  BY Rows DEF TokenRow

(* What the steps that write the tokens table do to it. *)
Revokes(t) ==
  /\ Issued(t)
  /\ tokens'[t] # NoToken
  /\ tokens'[t].session = tokens[t].session
  /\ tokens'[t].parent = tokens[t].parent
  /\ tokens'[t].revoked
  /\ \A s \in Tokens : s # t => tokens'[s] = tokens[s]

Issues(t, parent) ==
  /\ ~ Issued(t)
  /\ tokens'[t] # NoToken
  /\ ~ tokens'[t].revoked
  /\ tokens'[t].parent = parent
  /\ parent = None => tokens'[t].session = t
  /\ parent # None => /\ Issued(parent)
                      /\ tokens'[t].session = tokens[parent].session
  /\ \A s \in Tokens : s # t => tokens'[s] = tokens[s]

LEMMA SessionKept ==
  ASSUME NEW old \in TokenRow
  PROVE  /\ [old EXCEPT !.revoked = TRUE].session = old.session
         /\ [old EXCEPT !.expired = TRUE].session = old.session
  BY DEF TokenRow

LEMMA RevokeWrites ==
  ASSUME IInv, NEW t \in Tokens, Issued(t),
         tokens' = [tokens EXCEPT ![t].revoked = TRUE]
  PROVE  Revokes(t)
<1>1. tokens[t] \in TokenRow
  BY Rows DEF IInv
<1>2. PICK row \in TokenRow : /\ row = [tokens[t] EXCEPT !.revoked = TRUE]
                              /\ row.revoked = TRUE
                              /\ row.parent = tokens[t].parent
                              /\ row.session = tokens[t].session
  BY <1>1, TokenEdited, SessionKept
<1>3. /\ tokens'[t] = row /\ row # NoToken
      /\ \A s \in Tokens : s # t => tokens'[s] = tokens[s]
  BY <1>2, TokensType, Absent DEF IInv
<1>4. QED BY <1>2, <1>3 DEF Revokes

LEMMA IssueWrites ==
  ASSUME IInv, NEW h \in Slots, IssueTokenPair(h)
  PROVE  \E t \in Tokens :
           /\ Issues(t, req[h].parent)
           /\ GoesOn(h, [op |-> "respond", browser |-> req[h].browser,
                         cookie |-> t])
<1>1. req[h] \in AuthReq /\ req[h].op = "issue" /\ RequestSound(req[h])
  BY DEF IInv, TypeOK, IssueTokenPair, RequestsSound
<1>2. PICK parent \in Tokens \cup {None} :
        parent = req[h].parent /\ (parent # None => Issued(parent))
  BY <1>1, Requests DEF RequestSound
<1>3. PICK t \in Tokens : \E row :
        /\ ~ Issued(t)
        /\ row = [owner |-> req[h].owner, revoked |-> FALSE, expired |-> FALSE,
                  parent |-> parent,
                  session |-> IF parent = None THEN t
                              ELSE tokens[parent].session]
        /\ tokens' = [tokens EXCEPT ![t] = row]
        /\ Proceed(h, [op |-> "respond", browser |-> req[h].browser,
                       cookie |-> t])
  BY <1>2 DEF IssueTokenPair, Issued
<1>4. PICK row :
        /\ ~ Issued(t)
        /\ row = [owner |-> req[h].owner, revoked |-> FALSE, expired |-> FALSE,
                  parent |-> parent,
                  session |-> IF parent = None THEN t
                              ELSE tokens[parent].session]
        /\ tokens' = [tokens EXCEPT ![t] = row]
        /\ Proceed(h, [op |-> "respond", browser |-> req[h].browser,
                       cookie |-> t])
  BY <1>3
<1>5. row \in TokenRow
  <2>1. (IF parent = None THEN t ELSE tokens[parent].session) \in Tokens
    BY <1>2, SessionType DEF IInv
  <2>2. req[h].owner \in Users \cup Admins
    BY <1>1, Requests DEF Principals
  <2>3. QED BY <1>4, <2>1, <2>2 DEF TokenRow
<1>6. /\ tokens'[t] = row /\ row # NoToken
      /\ \A s \in Tokens : s # t => tokens'[s] = tokens[s]
  BY <1>4, <1>5, TokensType, Absent DEF IInv
<1>7. Issues(t, parent)
  BY <1>2, <1>4, <1>6 DEF Issues
<1>8. QED BY <1>1, <1>2, <1>4, <1>7, NotIdle DEF GoesOn

LEMMA ExpiryWrites ==
  ASSUME IInv, NEW t \in Tokens, TokenExpires(t)
  PROVE  /\ Issued(t)
         /\ tokens'[t] # NoToken
         /\ tokens'[t].revoked = tokens[t].revoked
         /\ tokens'[t].parent = tokens[t].parent
         /\ tokens'[t].session = tokens[t].session
         /\ \A s \in Tokens : s # t => tokens'[s] = tokens[s]
<1>1. Issued(t) /\ tokens[t] \in TokenRow
  BY Rows DEF IInv, TokenExpires, Usable, Issued
<1>2. PICK row \in TokenRow : /\ row = [tokens[t] EXCEPT !.expired = TRUE]
                              /\ row.revoked = tokens[t].revoked
                              /\ row.parent = tokens[t].parent
                              /\ row.session = tokens[t].session
  BY <1>1, TokenEdited, SessionKept
<1>3. /\ tokens'[t] = row /\ row # NoToken
      /\ \A s \in Tokens : s # t => tokens'[s] = tokens[s]
  BY <1>2, TokensType, Absent DEF IInv, TokenExpires
<1>4. QED BY <1>1, <1>2, <1>3

LEMMA RefreshRevokeWrites ==
  ASSUME IInv, NEW h \in Slots, RefreshRevoke(h)
  PROVE  req[h].token \in Tokens /\ Revokes(req[h].token)
<1>1. req[h].token \in Tokens /\ Issued(req[h].token)
  BY Requests DEF IInv, TypeOK, RefreshRevoke, RequestsSound, RequestSound
<1>2. QED BY <1>1, RevokeWrites DEF RefreshRevoke

LEMMA LogoutWrites ==
  ASSUME IInv, NEW h \in Slots, NEW b \in Browsers, Logout(h, b)
  PROVE  cookie[b] \in Tokens /\ Revokes(cookie[b])
<1>1. cookie[b] \in Tokens /\ Issued(cookie[b])
  BY TokensType DEF IInv, Logout, CookiesAreIssued
<1>2. QED BY <1>1, RevokeWrites DEF Logout

LEMMA ChainsStep ==
  ASSUME IInv, ChainsAreIssued, [Next]_authVars
  PROVE  ChainsAreIssued'
<1>1. ASSUME tokens' = tokens, closed' = closed PROVE ChainsAreIssued'
  BY <1>1 DEF ChainsAreIssued, Issued
<1>2. \A t \in Tokens : Issued(t) => tokens[t].session \in Tokens
  BY SessionType DEF IInv
<1>3. closed \subseteq Tokens
  BY DEF IInv, TypeOK
<1>4. ASSUME NEW t \in Tokens, Issued(t), tokens'[t] # NoToken,
             tokens'[t].session = tokens[t].session,
             \A s \in Tokens : s # t => tokens'[s] = tokens[s],
             closed' = closed \/ closed' = closed \cup {t}
      PROVE  ChainsAreIssued'
  <2>1. \A s \in Tokens : /\ Issued(s) <=> tokens'[s] # NoToken
                          /\ Issued(s) => tokens'[s].session = tokens[s].session
    BY <1>4 DEF Issued
  <2>2. QED BY <1>2, <1>3, <1>4, <2>1 DEF ChainsAreIssued, Issued
<1>5. ASSUME NEW h \in Slots, IssueTokenPair(h) PROVE ChainsAreIssued'
  <2>1. PICK t \in Tokens, parent \in Tokens \cup {None} : Issues(t, parent)
    <3>1. req[h].parent \in Tokens \cup {None}
      BY <1>5, Requests DEF IInv, TypeOK, IssueTokenPair
    <3>2. QED BY <1>5, <3>1, IssueWrites
  <2>2. \A s \in Tokens : Issued(s) => tokens'[s] = tokens[s]
    BY <2>1 DEF Issues
  <2>3. closed' = closed
    BY <1>5 DEF IssueTokenPair, history
  <2>4. \A c \in closed : tokens'[c] # NoToken
    BY <1>3, <2>2 DEF ChainsAreIssued, Issued
  <2>5. ASSUME NEW s \in Tokens, tokens'[s] # NoToken
        PROVE  tokens'[tokens'[s].session] # NoToken
    <3>1. CASE s = t /\ parent = None
      BY <2>1, <3>1 DEF Issues
    <3>2. CASE s = t /\ parent # None
      <4>1. PICK first \in Tokens : first = tokens[parent].session /\ Issued(first)
        BY <1>2, <2>1, <3>2 DEF Issues, ChainsAreIssued
      <4>2. tokens'[s].session = first
        BY <2>1, <3>2, <4>1 DEF Issues
      <4>3. QED BY <2>2, <4>1, <4>2 DEF Issued
    <3>3. CASE s # t
      <4>1. tokens'[s] = tokens[s] /\ Issued(s)
        BY <2>1, <2>5, <3>3 DEF Issues, Issued
      <4>2. PICK first \in Tokens : first = tokens[s].session /\ Issued(first)
        BY <1>2, <4>1 DEF ChainsAreIssued
      <4>3. QED BY <2>2, <4>1, <4>2 DEF Issued
    <3>4. QED BY <3>1, <3>2, <3>3
  <2>6. QED BY <2>3, <2>4, <2>5 DEF ChainsAreIssued, Issued
<1>6. CASE AuthNext
  <2>1. ASSUME NEW h \in Slots, NEW b \in Browsers, NEW e \in Emails,
               NEW p \in Passwords,
               \/ RegisterFind(h, b, e, p) \/ LoginFindUser(h, b, e, p)
               \/ LoginFindNoUser(h, b, e, p)
        PROVE  ChainsAreIssued'
    BY <2>1, <1>1 DEF RegisterFind, LoginFindUser, LoginFindNoUser, history
  <2>2. ASSUME NEW h \in Slots,
               \/ RegisterCommit(h) \/ LoginFindAdmin(h) \/ LoginFail(h)
               \/ LoginSucceed(h) \/ Respond(h) \/ ChangePasswordUpdate(h)
        PROVE  ChainsAreIssued'
    BY <2>2, <1>1
    DEF RegisterCommit, LoginFindAdmin, LoginFail, LoginSucceed, Respond,
        ChangePasswordUpdate, history
  <2>3. ASSUME NEW h \in Slots, RefreshRevoke(h) PROVE ChainsAreIssued'
    <3>1. PICK t \in Tokens : Revokes(t)
      BY <2>3, RefreshRevokeWrites
    <3>2. closed' = closed
      BY <2>3 DEF RefreshRevoke, history
    <3>3. QED BY <3>1, <3>2, <1>4 DEF Revokes
  <2>4. ASSUME NEW h \in Slots, NEW b \in Browsers, Logout(h, b)
        PROVE  ChainsAreIssued'
    <3>1. PICK t \in Tokens : t = cookie[b] /\ Revokes(t)
      BY <2>4, LogoutWrites
    <3>2. closed' = closed \cup {t}
      BY <2>4, <3>1 DEF Logout
    <3>3. QED BY <3>1, <3>2, <1>4 DEF Revokes
  <2>5. ASSUME NEW h \in Slots, NEW b \in Browsers, RefreshFind(h, b)
        PROVE  ChainsAreIssued'
    BY <2>5, <1>1 DEF RefreshFind, history
  <2>6. ASSUME NEW h \in Slots, NEW a \in Admins, NEW current \in Passwords,
               NEW new \in Passwords, ChangePasswordVerify(h, a, current, new)
        PROVE  ChainsAreIssued'
    BY <2>6, <1>1 DEF ChangePasswordVerify, history
  <2>7. ASSUME NEW u \in Users, LockExpires(u) PROVE ChainsAreIssued'
    BY <2>7, <1>1 DEF LockExpires, history
  <2>8. ASSUME NEW t \in Tokens, TokenExpires(t) PROVE ChainsAreIssued'
    <3>1. closed' = closed
      BY <2>8 DEF TokenExpires, history
    <3>2. QED BY <2>8, <3>1, <1>4, ExpiryWrites
  <2>9. QED
    BY <1>6, <1>5, <2>1, <2>2, <2>3, <2>4, <2>5, <2>6, <2>7, <2>8 DEF AuthNext
<1>7. CASE AccountsNext
  BY <1>7, <1>1, AccountsArrives
<1>8. ASSUME NEW h \in Slots, Abort(h) PROVE ChainsAreIssued'
  BY <1>8, <1>1 DEF Abort, history
<1>9. CASE UNCHANGED authVars
  BY <1>9, <1>1 DEF authVars
<1>10. QED BY <1>6, <1>7, <1>8, <1>9 DEF Next

-----------------------------------------------------------------------------
(***************************************************************************)
(* What a step of a request that is alone leaves of the sessions.          *)
(***************************************************************************)
InSequence == ~ overlapped /\ ~ faulted

SeqInv ==
  /\ IInv
  /\ AccountsInSequence
  /\ ChainsAreIssued
  /\ SessionsInSequence

(* Every slot but h is idle, before and after; nothing was ever lost. *)
LEMMA Undisturbed ==
  ASSUME SeqInv, InSequence', NEW h \in Slots, NEW r,
         Arrives(h, r) \/ GoesOn(h, r)
  PROVE  /\ SessionsSound
         /\ req'[h] = r
         /\ \A k \in Slots : k # h => req[k] = Idle /\ req'[k] = Idle
         /\ Arrives(h, r) => req[h] = Idle
  BY Alone DEF SeqInv, AccountsInSequence, SessionsInSequence, InSequence

LEMMA FreshSlots ==
  ASSUME NEW h \in Slots, NEW r, req'[h] = r, TokenFresh(r)',
         \A k \in Slots : k # h => req'[k] = Idle
  PROVE  \A k \in Slots : TokenFresh(req[k])'
<1> SUFFICES ASSUME NEW k \in Slots PROVE TokenFresh(req[k])'
  OBVIOUS
<1>1. CASE k = h BY <1>1 DEF TokenFresh
<1>2. CASE k # h BY <1>2 DEF TokenFresh, Idle
<1>3. QED BY <1>1, <1>2

(* When no request is about to answer, every cookie is good. *)
LEMMA CookiesGood ==
  ASSUME SessionsSound, NEW h \in Slots, req[h].op \notin {"issue", "respond"},
         \A k \in Slots : k # h => req[k] = Idle,
         NEW b \in Browsers, cookie[b] # None
  PROVE  Unrevoked(cookie[b])
  BY DEF SessionsSound, CookieValidOrAnswering, Answering, Idle

(* A step that leaves tokens, cookies and closed sessions as they were. *)
LEMMA QuietStep ==
  ASSUME SeqInv, InSequence', NEW h \in Slots, NEW r,
         Arrives(h, r) \/ GoesOn(h, r),
         req[h].op \notin {"issue", "respond"},
         TokenFresh(r)', UNCHANGED <<tokens, cookie, closed>>
  PROVE  SessionsSound'
<1>1. /\ SessionsSound /\ req'[h] = r
      /\ \A k \in Slots : k # h => req[k] = Idle /\ req'[k] = Idle
  BY Undisturbed
<1>2. \A k \in Slots : TokenFresh(req[k])'
  BY <1>1, FreshSlots
<1>3. CookieValidOrAnswering'
  <2> SUFFICES ASSUME NEW b \in Browsers, cookie[b] # None
               PROVE  Unrevoked(cookie[b])'
    BY DEF CookieValidOrAnswering
  <2>1. Unrevoked(cookie[b])
    BY <1>1, CookiesGood
  <2>2. QED BY <2>1 DEF Unrevoked, Issued
<1>4. OneCookieEach' /\ OneTokenPerSession' /\ SessionsClosed'
  BY <1>1 DEF SessionsSound, OneCookieEach, OneTokenPerSession, SessionsClosed,
              Unrevoked, SameSession, Issued
<1>5. QED BY <1>2, <1>3, <1>4 DEF SessionsSound

(* The requests that remember no token. *)
LEMMA TokenUnread ==
  ASSUME NEW r, \/ r.op \notin {"respond", "revoke", "issue"}
                \/ r.op = "issue" /\ r.parent = None
  PROVE  TokenFresh(r)'
  BY DEF TokenFresh

(* A step that changes no request and no token's fate. *)
LEMMA SessionsFrame ==
  ASSUME SeqInv, InSequence', UNCHANGED <<req, cookie, closed, overlapped, faulted>>,
         \A s \in Tokens : /\ Issued(s) <=> tokens'[s] # NoToken
                           /\ Issued(s) =>
                                /\ tokens'[s].revoked = tokens[s].revoked
                                /\ tokens'[s].session = tokens[s].session
  PROVE  SessionsSound'
<1>1. SessionsSound
  BY DEF SeqInv, SessionsInSequence, InSequence
<1>2. \A s \in Tokens : /\ Issued(s)' <=> Issued(s)
                        /\ Unrevoked(s)' <=> Unrevoked(s)
                        /\ Issued(s) => tokens'[s].revoked = tokens[s].revoked
  BY DEF Unrevoked, Issued
<1>3. \A s, t \in Tokens : Issued(t) => (SameSession(s, t)' <=> SameSession(s, t))
  BY DEF SameSession, Issued
<1>4. TypeOK /\ RequestsSound /\ CookiesAreIssued
  BY DEF SeqInv, IInv
<1>5. ASSUME NEW k \in Slots PROVE TokenFresh(req[k])'
  <2> DEFINE r == req[k]
  <2>1. r \in AuthReq /\ RequestSound(r) /\ TokenFresh(r) /\ r = req'[k]
    BY <1>1, <1>4 DEF TypeOK, RequestsSound, SessionsSound
  <2>2. \A c \in closed : c \in Tokens
    BY <1>4 DEF TypeOK
  <2>3. r.op = "respond" /\ r.cookie # None =>
          r.cookie \in Tokens /\ Unrevoked(r.cookie)'
    BY <1>2, <2>1, Requests DEF TokenFresh
  <2>4. r.op = "revoke" => r.token \in Tokens /\ Unrevoked(r.token)'
    BY <1>2, <2>1, Requests DEF TokenFresh
  <2>5. r.op = "issue" /\ r.parent # None =>
          /\ r.parent \in Tokens /\ Issued(r.parent)
          /\ \A t \in Tokens : SameSession(t, r.parent)' => tokens'[t].revoked
          /\ \A c \in closed : ~ SameSession(c, r.parent)'
    <3> SUFFICES ASSUME r.op = "issue", r.parent # None
                 PROVE  /\ r.parent \in Tokens /\ Issued(r.parent)
                        /\ \A t \in Tokens :
                             SameSession(t, r.parent)' => tokens'[t].revoked
                        /\ \A c \in closed : ~ SameSession(c, r.parent)'
      OBVIOUS
    <3>1. PICK p \in Tokens : p = r.parent /\ Issued(p)
      BY <2>1, Requests DEF RequestSound
    <3>2. \A t \in Tokens : SameSession(t, p)' => tokens'[t].revoked
      BY <1>2, <1>3, <2>1, <3>1 DEF TokenFresh, SameSession
    <3>3. \A c \in closed : ~ SameSession(c, p)'
      BY <1>3, <2>1, <2>2, <3>1 DEF TokenFresh
    <3>4. QED BY <2>1, <3>1, <3>2, <3>3 DEF SameSession
  <2>6. QED BY <2>1, <2>3, <2>4, <2>5 DEF TokenFresh
<1>6. OneCookieEach'
  BY <1>1 DEF SessionsSound, OneCookieEach
<1>7. CookieValidOrAnswering'
  <2> SUFFICES ASSUME NEW b \in Browsers, cookie[b] # None
               PROVE  Unrevoked(cookie[b])' \/ Answering(b)'
    BY DEF CookieValidOrAnswering
  <2>1. cookie[b] \in Tokens
    BY <1>4, TokensType
  <2>2. Unrevoked(cookie[b]) \/ Answering(b)
    BY <1>1 DEF SessionsSound, CookieValidOrAnswering
  <2>3. QED BY <1>2, <2>1, <2>2 DEF Answering, Unrevoked, Issued
<1>8. OneTokenPerSession'
  BY <1>1, <1>2, <1>3 DEF SessionsSound, OneTokenPerSession, Unrevoked
<1>9. SessionsClosed'
  <2> SUFFICES ASSUME NEW c \in closed, NEW t \in Tokens, SameSession(t, c)'
               PROVE  tokens'[t].revoked
    BY DEF SessionsClosed
  <2>1. c \in Tokens /\ Issued(c)
    BY <1>4 DEF TypeOK, SeqInv, ChainsAreIssued
  <2>2. SameSession(t, c)
    BY <1>3, <2>1
  <2>3. QED
    BY <1>1, <1>2, <2>2 DEF SessionsSound, SessionsClosed, SameSession
<1>10. QED BY <1>5, <1>6, <1>7, <1>8, <1>9 DEF SessionsSound

(* A rotation's revoke: the session's only token in use goes. *)
LEMMA RevokeSessions ==
  ASSUME SeqInv, InSequence', NEW h \in Slots, RefreshRevoke(h)
  PROVE  SessionsSound'
<1> DEFINE r == req[h]
<1>0. PICK q : q = [op |-> "issue", browser |-> r.browser,
                    owner |-> tokens[r.token].owner, parent |-> r.token]
  OBVIOUS
<1>1. GoesOn(h, q) /\ r.op = "revoke" /\ UNCHANGED <<cookie, closed>>
  BY <1>0, NotIdle DEF RefreshRevoke, GoesOn, history
<1>2. /\ SessionsSound /\ req'[h] = q
      /\ \A k \in Slots : k # h => req[k] = Idle /\ req'[k] = Idle
  BY <1>1, Undisturbed
<1>3. PICK t \in Tokens : t = r.token /\ Revokes(t)
  BY RefreshRevokeWrites DEF SeqInv
<1>4. TypeOK /\ CookiesAreIssued /\ r \in AuthReq
      /\ closed \subseteq Tokens
  BY DEF SeqInv, IInv, TypeOK
<1>5. r.browser \in Browsers /\ cookie[r.browser] = t /\ Unrevoked(t)
  BY <1>1, <1>2, <1>3, <1>4, Requests DEF SessionsSound, TokenFresh
<1>6. \A s \in Tokens : /\ Issued(s)' <=> Issued(s)
                        /\ Issued(s) => tokens'[s].session = tokens[s].session
                        /\ Unrevoked(s)' <=> Unrevoked(s) /\ s # t
  BY <1>3, <1>5 DEF Revokes, Unrevoked, Issued
<1>7. \A s, u \in Tokens : Issued(u) => (SameSession(s, u)' <=> SameSession(s, u))
  BY <1>6 DEF SameSession
<1>8. \A s \in Tokens : SameSession(s, t)' => tokens'[s].revoked
  <2> SUFFICES ASSUME NEW s \in Tokens, SameSession(s, t)', ~ tokens'[s].revoked
               PROVE  FALSE
    OBVIOUS
  <2>1. SameSession(s, t) /\ Unrevoked(s) /\ s # t
    BY <1>5, <1>6, <1>7 DEF SameSession, Unrevoked
  <2>2. QED BY <1>2, <1>5, <2>1 DEF SessionsSound, OneTokenPerSession
<1>9. \A c \in closed : ~ SameSession(c, t)'
  <2> SUFFICES ASSUME NEW c \in closed, SameSession(c, t)' PROVE FALSE
    OBVIOUS
  <2>1. c \in Tokens /\ SameSession(c, t)
    BY <1>4, <1>5, <1>7 DEF Unrevoked
  <2>2. SameSession(t, c)
    BY <1>5, <2>1 DEF SameSession, Unrevoked
  <2>3. QED
    BY <1>2, <1>5, <2>2 DEF SessionsSound, SessionsClosed, Unrevoked
<1>10. TokenFresh(q)'
  <2>1. q.op = "issue" /\ q.parent = t
    BY <1>0, <1>3
  <2>2. QED BY <1>1, <2>1, <1>8, <1>9 DEF TokenFresh
<1>11. \A k \in Slots : TokenFresh(req[k])'
  BY <1>2, <1>10, FreshSlots
<1>12. OneCookieEach'
  BY <1>1, <1>2 DEF SessionsSound, OneCookieEach
<1>13. CookieValidOrAnswering'
  <2> SUFFICES ASSUME NEW b \in Browsers, cookie[b] # None
               PROVE  Unrevoked(cookie[b])' \/ Answering(b)'
    BY <1>1 DEF CookieValidOrAnswering
  <2>1. CASE b = r.browser
    BY <1>0, <1>2, <2>1 DEF Answering
  <2>2. CASE b # r.browser
    <3>1. cookie[b] \in Tokens /\ Unrevoked(cookie[b])
      BY <1>1, <1>2, <1>4, CookiesGood, TokensType
    <3>2. cookie[b] # t
      BY <1>2, <1>5, <2>2 DEF SessionsSound, OneCookieEach
    <3>3. QED BY <1>1, <1>6, <3>1, <3>2 DEF Unrevoked, Issued
  <2>3. QED BY <2>1, <2>2
<1>14. OneTokenPerSession'
  BY <1>2, <1>6, <1>7 DEF SessionsSound, OneTokenPerSession, Unrevoked
<1>15. SessionsClosed'
  <2> SUFFICES ASSUME NEW c \in closed, NEW s \in Tokens, SameSession(s, c)',
                      ~ tokens'[s].revoked
               PROVE  FALSE
    BY <1>1 DEF SessionsClosed
  <2>1. c \in Tokens /\ Issued(c)
    BY <1>4 DEF SeqInv, ChainsAreIssued
  <2>2. SameSession(s, c) /\ Unrevoked(s)
    BY <1>6, <1>7, <2>1 DEF SameSession, Unrevoked
  <2>3. QED BY <1>2, <2>2 DEF SessionsSound, SessionsClosed, Unrevoked
<1>16. QED BY <1>11, <1>12, <1>13, <1>14, <1>15 DEF SessionsSound

(* A new token: the only one in use of its session. *)
LEMMA IssueSessions ==
  ASSUME SeqInv, InSequence', NEW h \in Slots, IssueTokenPair(h)
  PROVE  SessionsSound'
<1> DEFINE r == req[h]
<1>1. r \in AuthReq /\ r.op = "issue" /\ RequestSound(r)
      /\ UNCHANGED <<cookie, closed>>
  BY DEF IssueTokenPair, history, SeqInv, IInv, TypeOK, RequestsSound
<1>2. PICK t \in Tokens :
        /\ Issues(t, r.parent)
        /\ GoesOn(h, [op |-> "respond", browser |-> r.browser, cookie |-> t])
  BY IssueWrites DEF SeqInv
<1>2a. PICK q : q = [op |-> "respond", browser |-> r.browser, cookie |-> t]
  OBVIOUS
<1>3. /\ SessionsSound /\ req'[h] = q
      /\ \A k \in Slots : k # h => req[k] = Idle /\ req'[k] = Idle
  BY <1>2, <1>2a, Undisturbed
<1>4. TypeOK /\ CookiesAreIssued /\ closed \subseteq Tokens /\ r.browser \in Browsers
      /\ r.parent \in Tokens \cup {None}
      /\ \A s \in Tokens : Issued(s) => tokens[s].session \in Tokens
  BY <1>1, Requests, SessionType DEF SeqInv, IInv, TypeOK
<1>5. /\ ~ Issued(t) /\ Unrevoked(t)'
      /\ \A s \in Tokens : Issued(s) => s # t /\ tokens'[s] = tokens[s]
      /\ \A s \in Tokens : s # t => tokens'[s] = tokens[s]
  BY <1>2 DEF Issues, Unrevoked, Issued
<1>6. \A s \in Tokens : s # t =>
        /\ Issued(s)' <=> Issued(s)
        /\ Unrevoked(s)' <=> Unrevoked(s)
  BY <1>5 DEF Unrevoked, Issued
<1>7. \A s, u \in Tokens : s # t /\ u # t =>
        (SameSession(s, u)' <=> SameSession(s, u))
  BY <1>5 DEF SameSession, Issued
(* No other token of its session is in use, none was logged out. *)
<1>8. \A s \in Tokens : s # t /\ Unrevoked(s) =>
        tokens'[s].session # tokens'[t].session
  <2> SUFFICES ASSUME NEW s \in Tokens, s # t, Unrevoked(s)
               PROVE  tokens[s].session # tokens'[t].session
    BY <1>5
  <2>1. CASE r.parent = None
    BY <1>2, <1>5, <2>1 DEF Issues, SeqInv, ChainsAreIssued, Unrevoked
  <2>2. CASE r.parent # None
    BY <1>1, <1>2, <1>3, <2>2
    DEF Issues, SessionsSound, TokenFresh, SameSession, Unrevoked
  <2>3. QED BY <2>1, <2>2
<1>9. \A c \in closed : c # t /\ tokens'[c].session # tokens'[t].session
  <2> SUFFICES ASSUME NEW c \in closed
               PROVE  c # t /\ tokens'[c].session # tokens'[t].session
    OBVIOUS
  <2>1. c \in Tokens /\ Issued(c) /\ c # t /\ tokens'[c] = tokens[c]
    BY <1>4, <1>5 DEF SeqInv, ChainsAreIssued
  <2>2. CASE r.parent = None
    BY <1>2, <1>5, <2>1, <2>2 DEF Issues, SeqInv, ChainsAreIssued
  <2>3. CASE r.parent # None
    BY <1>1, <1>2, <1>3, <2>1, <2>3
    DEF Issues, SessionsSound, TokenFresh, SameSession
  <2>4. QED BY <2>1, <2>2, <2>3
<1>10. \A b \in Browsers : cookie[b] # None =>
         cookie[b] \in Tokens /\ cookie[b] # t /\ Issued(cookie[b])
  BY <1>4, <1>5, TokensType DEF CookiesAreIssued
<1>11. TokenFresh(q)'
  <2>1. \A b \in Browsers : t # None => cookie'[b] # t
    BY <1>1, <1>10
  <2>2. QED BY <1>2a, <1>5, <2>1 DEF TokenFresh
<1>12. \A k \in Slots : TokenFresh(req[k])'
  BY <1>3, <1>11, FreshSlots
<1>13. OneCookieEach'
  BY <1>1, <1>3 DEF SessionsSound, OneCookieEach
<1>14. CookieValidOrAnswering'
  <2> SUFFICES ASSUME NEW b \in Browsers, cookie[b] # None
               PROVE  Unrevoked(cookie[b])' \/ Answering(b)'
    BY <1>1 DEF CookieValidOrAnswering
  <2>1. CASE Answering(b)
    BY <1>2a, <1>3, <2>1 DEF Answering, Idle
  <2>2. CASE Unrevoked(cookie[b])
    BY <1>1, <1>5, <1>10, <2>2 DEF Unrevoked, Issued
  <2>3. QED BY <1>3, <2>1, <2>2 DEF SessionsSound, CookieValidOrAnswering
<1>15. OneTokenPerSession'
  <2> SUFFICES ASSUME NEW s \in Tokens, NEW u \in Tokens,
                      Unrevoked(s)', Unrevoked(u)', SameSession(s, u)'
               PROVE  s = u
    BY DEF OneTokenPerSession
  <2>1. CASE s # t /\ u # t
    BY <1>3, <1>6, <1>7, <2>1 DEF SessionsSound, OneTokenPerSession
  <2>2. CASE s = t \/ u = t
    BY <1>6, <1>8, <2>2 DEF SameSession
  <2>3. QED BY <2>1, <2>2
<1>16. SessionsClosed'
  <2> SUFFICES ASSUME NEW c \in closed, NEW s \in Tokens, SameSession(s, c)'
               PROVE  tokens'[s].revoked
    BY <1>1 DEF SessionsClosed
  <2>1. s # t /\ c # t /\ c \in Tokens
    BY <1>4, <1>9 DEF SameSession
  <2>2. SameSession(s, c) /\ tokens'[s] = tokens[s]
    BY <1>5, <1>7, <2>1
  <2>3. QED BY <1>3, <2>2 DEF SessionsSound, SessionsClosed
<1>17. QED BY <1>12, <1>13, <1>14, <1>15, <1>16 DEF SessionsSound

(* The answer reaches the browser. *)
LEMMA RespondSessions ==
  ASSUME SeqInv, InSequence', NEW h \in Slots, Respond(h)
  PROVE  SessionsSound'
<1> DEFINE r == req[h]
<1>1. /\ GoesOn(h, Idle) /\ r.op = "respond" /\ UNCHANGED <<tokens, closed>>
      /\ cookie' = [cookie EXCEPT ![r.browser] = r.cookie]
  BY NotIdle DEF Respond, Finish, GoesOn, history
<1>2. /\ SessionsSound /\ req'[h] = Idle
      /\ \A k \in Slots : k # h => req[k] = Idle /\ req'[k] = Idle
  BY <1>1, Undisturbed
<1>3. TypeOK /\ r \in AuthReq /\ cookie \in [Browsers -> Tokens \cup {None}]
  BY DEF SeqInv, IInv, TypeOK
<1>4. /\ r.browser \in Browsers /\ cookie'[r.browser] = r.cookie
      /\ \A b \in Browsers : b # r.browser => cookie'[b] = cookie[b]
      /\ r.cookie # None =>
           Unrevoked(r.cookie) /\ \A b \in Browsers : cookie[b] # r.cookie
  BY <1>1, <1>2, <1>3, Requests DEF SessionsSound, TokenFresh
<1>5. \A k \in Slots : TokenFresh(req[k])'
  <2>1. TokenFresh(Idle)' BY TokenUnread DEF Idle
  <2>2. QED BY <1>2, <2>1, FreshSlots
<1>6. OneCookieEach'
  BY <1>2, <1>4 DEF SessionsSound, OneCookieEach
<1>7. CookieValidOrAnswering'
  <2> SUFFICES ASSUME NEW b \in Browsers, cookie'[b] # None
               PROVE  Unrevoked(cookie'[b])
    BY <1>1 DEF CookieValidOrAnswering, Unrevoked, Issued
  <2>1. CASE b = r.browser
    BY <1>4, <2>1
  <2>2. CASE b # r.browser
    <3>1. ~ Answering(b)
      BY <1>2, <2>2 DEF Answering, Idle
    <3>2. QED
      BY <1>2, <1>4, <2>2, <3>1 DEF SessionsSound, CookieValidOrAnswering
  <2>3. QED BY <2>1, <2>2
<1>8. OneTokenPerSession' /\ SessionsClosed'
  BY <1>1, <1>2 DEF SessionsSound, OneTokenPerSession, SessionsClosed,
                    Unrevoked, SameSession, Issued
<1>9. QED BY <1>5, <1>6, <1>7, <1>8 DEF SessionsSound

(* Logging out: the token was its session's only one in use. *)
LEMMA LogoutSessions ==
  ASSUME SeqInv, InSequence', NEW h \in Slots, NEW b \in Browsers, Logout(h, b)
  PROVE  SessionsSound'
<1> DEFINE q == [op |-> "respond", browser |-> b, cookie |-> None]
<1>1. Arrives(h, q) /\ cookie[b] # None /\ cookie' = cookie
  BY DEF Logout, Arrives, Begin
<1>2. /\ SessionsSound /\ req'[h] = q /\ req[h] = Idle
      /\ \A k \in Slots : k # h => req[k] = Idle /\ req'[k] = Idle
  BY <1>1, Undisturbed
<1>3. PICK t \in Tokens : t = cookie[b] /\ Revokes(t) /\ closed' = closed \cup {t}
  BY LogoutWrites DEF SeqInv, Logout
<1>4. TypeOK /\ CookiesAreIssued /\ closed \subseteq Tokens
  BY DEF SeqInv, IInv, TypeOK
<1>5. \A d \in Browsers : cookie[d] # None =>
        cookie[d] \in Tokens /\ Unrevoked(cookie[d])
  <2>1. req[h].op \notin {"issue", "respond"}
    BY <1>2 DEF Idle
  <2>2. QED BY <1>2, <1>4, <2>1, CookiesGood, TokensType
<1>6. Unrevoked(t)
  BY <1>1, <1>3, <1>5
<1>7. \A s \in Tokens : /\ Issued(s)' <=> Issued(s)
                        /\ Unrevoked(s)' <=> Unrevoked(s) /\ s # t
  BY <1>3, <1>6 DEF Revokes, Unrevoked, Issued
<1>8. \A s, u \in Tokens : Issued(u) => (SameSession(s, u)' <=> SameSession(s, u))
  BY <1>3 DEF SameSession, Revokes, Issued
<1>9. \A k \in Slots : TokenFresh(req[k])'
  <2>1. TokenFresh(q)' BY DEF TokenFresh
  <2>2. QED BY <1>2, <2>1, FreshSlots
<1>10. OneCookieEach'
  BY <1>1, <1>2 DEF SessionsSound, OneCookieEach
<1>11. CookieValidOrAnswering'
  <2> SUFFICES ASSUME NEW d \in Browsers, cookie[d] # None
               PROVE  Unrevoked(cookie[d])' \/ Answering(d)'
    BY <1>1 DEF CookieValidOrAnswering
  <2>1. CASE d = b
    BY <1>2, <2>1 DEF Answering
  <2>2. CASE d # b
    <3>1. cookie[d] # t
      BY <1>2, <1>3, <2>2 DEF SessionsSound, OneCookieEach
    <3>2. QED BY <1>1, <1>5, <1>7, <3>1 DEF Unrevoked, Issued
  <2>3. QED BY <2>1, <2>2
<1>12. OneTokenPerSession'
  BY <1>2, <1>7, <1>8 DEF SessionsSound, OneTokenPerSession, Unrevoked
<1>13. SessionsClosed'
  <2> SUFFICES ASSUME NEW c \in closed', NEW s \in Tokens, SameSession(s, c)',
                      ~ tokens'[s].revoked
               PROVE  FALSE
    BY DEF SessionsClosed
  <2>1. c \in Tokens /\ Issued(c)
    BY <1>3, <1>4, <1>6 DEF SeqInv, ChainsAreIssued, Unrevoked
  <2>2. SameSession(s, c) /\ Unrevoked(s) /\ s # t
    BY <1>7, <1>8, <2>1 DEF SameSession, Unrevoked
  <2>3. CASE c = t
    BY <1>2, <1>6, <2>2, <2>3 DEF SessionsSound, OneTokenPerSession
  <2>4. CASE c # t
    BY <1>2, <1>3, <2>2, <2>4 DEF SessionsSound, SessionsClosed, Unrevoked
  <2>5. QED BY <2>3, <2>4
<1>14. QED BY <1>9, <1>10, <1>11, <1>12, <1>13 DEF SessionsSound

LEMMA SessionsStepInSequence ==
  ASSUME SeqInv, [Next]_authVars
  PROVE  SessionsInSequence'
<1> SUFFICES ASSUME InSequence' PROVE SessionsSound'
  BY DEF SessionsInSequence, InSequence
<1>0. Idle.op \notin {"issue", "respond", "revoke"}
  BY DEF Idle
(* The arrivals and the steps between them that leave tokens alone. *)
<1>1. ASSUME NEW h \in Slots, NEW b \in Browsers, NEW e \in Emails,
             NEW p \in Passwords,
             \/ RegisterFind(h, b, e, p) \/ LoginFindUser(h, b, e, p)
             \/ LoginFindNoUser(h, b, e, p)
      PROVE  SessionsSound'
  <2>1. \E r : Arrives(h, r) /\ r.op \in {"register", "admin", "succeed", "fail"}
    <3>1. CASE RegisterFind(h, b, e, p)
      <4>1. Arrives(h, [op |-> "register", browser |-> b, email |-> e,
                        password |-> p])
        BY <3>1 DEF RegisterFind, Arrives, Begin
      <4>2. QED BY <4>1
    <3>2. CASE LoginFindNoUser(h, b, e, p)
      <4>1. Arrives(h, [op |-> "admin", browser |-> b, email |-> e,
                        password |-> p])
        BY <3>2 DEF LoginFindNoUser, Arrives, Begin
      <4>2. QED BY <4>1
    <3>3. CASE LoginFindUser(h, b, e, p)
      <4>1. PICK u \in Users :
              \/ Arrives(h, [op |-> "succeed", browser |-> b, user |-> u])
              \/ Arrives(h, [op |-> "fail", user |-> u,
                   failedLoginAttempts |-> users[u].failedLoginAttempts])
        BY <3>3 DEF LoginFindUser, Arrives, Begin
      <4>2. QED BY <4>1
    <3>4. QED BY <1>1, <3>1, <3>2, <3>3
  <2>2. req[h] = Idle /\ UNCHANGED <<tokens, cookie, closed>>
    BY <1>1 DEF RegisterFind, LoginFindUser, LoginFindNoUser, Begin, history
  <2>3. QED BY <1>0, <2>1, <2>2, TokenUnread, QuietStep
<1>2. ASSUME NEW h \in Slots, RegisterCommit(h) \/ LoginFindAdmin(h)
      PROVE  SessionsSound'
  <2>1. /\ req[h].op \notin {"issue", "respond"}
        /\ UNCHANGED <<tokens, cookie, closed>>
    BY <1>2 DEF RegisterCommit, LoginFindAdmin, history
  <2>2. GoesOn(h, Idle) \/ \E owner :
          GoesOn(h, [op |-> "issue", browser |-> req[h].browser,
                     owner |-> owner, parent |-> None])
    <3>1. CASE RegisterCommit(h)
      <4>1. GoesOn(h, Idle) \/ \E u \in Users :
              GoesOn(h, [op |-> "issue", browser |-> req[h].browser,
                         owner |-> u, parent |-> None])
        BY <3>1, NotIdle DEF RegisterCommit, GoesOn, Finish
      <4>2. QED BY <4>1
    <3>2. CASE LoginFindAdmin(h)
      <4>1. GoesOn(h, Idle) \/ \E a \in Admins :
              GoesOn(h, [op |-> "issue", browser |-> req[h].browser,
                         owner |-> a, parent |-> None])
        BY <3>2, NotIdle DEF LoginFindAdmin, GoesOn, Finish
      <4>2. QED BY <4>1
    <3>3. QED BY <1>2, <3>1, <3>2
  <2>3. \E r : GoesOn(h, r) /\ TokenFresh(r)'
    BY <1>0, <2>2, TokenUnread
  <2>4. QED BY <2>1, <2>3, QuietStep
<1>3. ASSUME NEW h \in Slots,
             LoginFail(h) \/ LoginSucceed(h) \/ ChangePasswordUpdate(h)
      PROVE  SessionsSound'
  <2>1. /\ req[h].op \notin {"issue", "respond"}
        /\ UNCHANGED <<tokens, cookie, closed>>
    BY <1>3 DEF LoginFail, LoginSucceed, ChangePasswordUpdate, history
  <2>2. \/ GoesOn(h, Idle)
        \/ GoesOn(h, [op |-> "issue", browser |-> req[h].browser,
                      owner |-> req[h].user, parent |-> None])
    <3>1. CASE LoginFail(h) \/ ChangePasswordUpdate(h)
      BY <3>1, NotIdle DEF LoginFail, ChangePasswordUpdate, GoesOn, Finish
    <3>2. CASE LoginSucceed(h)
      BY <3>2, NotIdle DEF LoginSucceed, GoesOn
    <3>3. QED BY <1>3, <3>1, <3>2
  <2>3. \E r : GoesOn(h, r) /\ TokenFresh(r)'
    BY <1>0, <2>2, TokenUnread
  <2>4. QED BY <2>1, <2>3, QuietStep
(* A refresh finds the only cookie with its token, and the token in use. *)
<1>4. ASSUME NEW h \in Slots, NEW b \in Browsers, RefreshFind(h, b)
      PROVE  SessionsSound'
  <2>1. PICK q : q = [op |-> "revoke", browser |-> b, token |-> cookie[b]]
    OBVIOUS
  <2>2. /\ Arrives(h, q) /\ req[h] = Idle
        /\ UNCHANGED <<tokens, cookie, closed>>
    BY <1>4, <2>1 DEF RefreshFind, Arrives, Begin, history
  <2>3. Unrevoked(cookie[b])
    BY <1>4 DEF RefreshFind, Usable, Unrevoked, Issued
  <2>4. TokenFresh(q)'
    BY <2>1, <2>2, <2>3 DEF TokenFresh, Unrevoked, Issued
  <2>5. QED BY <1>0, <2>2, <2>4, QuietStep
<1>5. ASSUME NEW h \in Slots, NEW a \in Admins, NEW current \in Passwords,
             NEW new \in Passwords, ChangePasswordVerify(h, a, current, new)
      PROVE  SessionsSound'
  <2>1. /\ Arrives(h, [op |-> "password", admin |-> a, password |-> new])
        /\ req[h] = Idle /\ UNCHANGED <<tokens, cookie, closed>>
    BY <1>5 DEF ChangePasswordVerify, Arrives, Begin, history
  <2>2. TokenFresh([op |-> "password", admin |-> a, password |-> new])'
    BY TokenUnread
  <2>3. QED BY <1>0, <2>1, <2>2, QuietStep
<1>6. ASSUME AccountsNext PROVE SessionsSound'
  <2>1. PICK h \in Slots : /\ Arrives(h, Idle) /\ req[h] = Idle
                           /\ UNCHANGED <<tokens, cookie, closed>>
    BY <1>6, AccountsArrives
  <2>2. TokenFresh(Idle)'
    BY <1>0, TokenUnread
  <2>3. QED BY <1>0, <2>1, <2>2, QuietStep
(* The steps that are no request's. *)
<1>7. ASSUME NEW t \in Tokens, TokenExpires(t) PROVE SessionsSound'
  <2>1. IInv
    BY DEF SeqInv
  <2>2. /\ Issued(t) /\ tokens'[t] # NoToken
        /\ tokens'[t].revoked = tokens[t].revoked
        /\ tokens'[t].session = tokens[t].session
        /\ \A s \in Tokens : s # t => tokens'[s] = tokens[s]
    BY <1>7, <2>1, ExpiryWrites
  <2>3. UNCHANGED <<req, cookie, closed, overlapped, faulted>>
    BY <1>7 DEF TokenExpires, history
  <2>4. QED BY <2>2, <2>3, SessionsFrame DEF Issued
<1>8. ASSUME UNCHANGED <<tokens, req, cookie, closed, overlapped, faulted>>
      PROVE  SessionsSound'
  BY <1>8, SessionsFrame DEF Issued
<1>9. ASSUME NEW u \in Users, LockExpires(u) PROVE SessionsSound'
  BY <1>9, <1>8 DEF LockExpires, history
<1>10. CASE UNCHANGED authVars
  BY <1>10, <1>8 DEF authVars
<1>11. ASSUME NEW h \in Slots, Abort(h) PROVE SessionsSound'
  BY <1>11 DEF Abort, InSequence
<1>12. CASE AuthNext
  BY <1>12, <1>1, <1>2, <1>3, <1>4, <1>5, <1>7, <1>9, IssueSessions,
     RespondSessions, RevokeSessions, LogoutSessions
  DEF AuthNext
<1>13. QED BY <1>6, <1>10, <1>11, <1>12 DEF Next

LEMMA SequentialInvariance == Spec => []SeqInv
<1>1. Init => SeqInv
  <2> SUFFICES ASSUME Init PROVE SeqInv
    OBVIOUS
  <2>1. IInv
    BY InitEstablishes
  <2>2. (\A h \in Slots : req[h] = Idle) /\ closed = {}
        /\ (\A b \in Browsers : cookie[b] = None)
        /\ (\A t \in Tokens : ~ Issued(t))
    BY DEF Init, Issued
  <2>3. AccountsInSequence
    BY <2>2 DEF AccountsInSequence, OneAtATime, RowFresh, Idle
  <2>4. ChainsAreIssued
    BY <2>2 DEF ChainsAreIssued
  <2>5. SessionsInSequence
    BY <2>2 DEF SessionsInSequence, SessionsSound, TokenFresh, Idle,
                OneCookieEach, CookieValidOrAnswering, OneTokenPerSession,
                SessionsClosed, Unrevoked
  <2>6. QED BY <2>1, <2>3, <2>4, <2>5 DEF SeqInv
<1>2. SeqInv /\ [Next]_authVars => SeqInv'
  <2> SUFFICES ASSUME SeqInv, [Next]_authVars PROVE SeqInv'
    OBVIOUS
  <2>1. IInv /\ AccountsInSequence /\ ChainsAreIssued
    BY DEF SeqInv
  <2>2. IInv'
    BY <2>1, AuthStep, AccountsStep, AbortStep, StutterStep DEF Next
  <2>3. AccountsInSequence' /\ ChainsAreIssued'
    BY <2>1, AccountsStepInSequence, ChainsStep
  <2>4. QED BY <2>2, <2>3, SessionsStepInSequence DEF SeqInv
<1>3. QED BY <1>1, <1>2, PTL DEF Spec

(* AuthService.logout: as long as requests do not overlap and every        *)
(* response arrives, revoking the one token the browser sent revokes all   *)
(* that is left of its session, however often it was rotated, and no later *)
(* step gives the session a token again.                                   *)
THEOREM LogoutIsFinal == Spec => []LogoutEndsSession
<1>1. SeqInv => LogoutEndsSession
  BY DEF SeqInv, SessionsInSequence, SessionsSound, SessionsClosed,
         SameSession, Issued, LogoutEndsSession
<1>2. QED BY <1>1, SequentialInvariance, PTL

-----------------------------------------------------------------------------
(***************************************************************************)
(* Rotation, whatever overlaps.  The tokens a token was exchanged for and  *)
(* the requests that are still about to exchange it are together no more   *)
(* than the requests that can be in flight: the first of them to write     *)
(* revokes the token, and no request that arrives later passes the read.   *)
(***************************************************************************)
Holds(r, t) ==
  \/ r.op = "revoke" /\ r.token = t
  \/ r.op = "issue" /\ r.parent = t

Holding(t) == {h \in Slots : Holds(req[h], t)}

Counted(t) ==
  /\ IsFiniteSet(Exchanged(t))
  /\ Cardinality(Exchanged(t)) + Cardinality(Holding(t)) <= Racing

ExchangesCounted == \A t \in Tokens : Counted(t)

LEMMA HoldingFinite ==
  ASSUME NEW t
  PROVE  /\ IsFiniteSet(Holding(t)) /\ Cardinality(Holding(t)) \in Nat
         /\ IsFiniteSet(Holding(t)') /\ Cardinality(Holding(t)') \in Nat
         /\ Cardinality(Slots) \in Nat
<1>1. Holding(t) \in SUBSET Slots /\ Holding(t)' \in SUBSET Slots
  BY DEF Holding
<1>2. IsFiniteSet(Holding(t)) /\ IsFiniteSet(Holding(t)')
  BY <1>1, FS_Subset, SlotsAssumption
<1>3. QED BY <1>2, FS_CardinalityType, SlotsAssumption

(* The bound itself only grows. *)
LEMMA RacingGrows ==
  ASSUME TypeOK, [Next]_authVars
  PROVE  Racing \in Nat /\ Racing' \in Nat /\ Racing <= Racing'
<1>1. Cardinality(Slots) \in Nat
  BY HoldingFinite
<1>2. CASE overlapped' = overlapped
  BY <1>1, <1>2 DEF Racing
<1>3. CASE overlapped' # overlapped
  <2>1. PICK h \in Slots :
          overlapped' = (overlapped \/ \E k \in Slots : req[k] # Idle)
    BY <1>3, OnlyArrivalsOverlap DEF OverlapsAs
  <2>2. overlapped \in BOOLEAN /\ ~ overlapped /\ overlapped'
    BY <1>3, <2>1 DEF TypeOK
  <2>3. Cardinality(Slots) # 0
    BY FS_EmptySet, SlotsAssumption
  <2>4. QED BY <1>1, <2>2, <2>3 DEF Racing
<1>4. QED BY <1>2, <1>3

(* A step that exchanges nothing, and after which no slot holds a token    *)
(* that it did not hold before.                                            *)
HoldsNoMore == \A k \in Slots, t \in Tokens : Holds(req'[k], t) => Holds(req[k], t)
ExchangesNothing == \A t \in Tokens : Exchanged(t)' = Exchanged(t)

LEMMA QuietExchange ==
  ASSUME TypeOK, ExchangesCounted, [Next]_authVars, HoldsNoMore, ExchangesNothing
  PROVE  ExchangesCounted'
<1> SUFFICES ASSUME NEW t \in Tokens PROVE Counted(t)'
  BY DEF ExchangesCounted
<1>1. Counted(t) /\ Exchanged(t)' = Exchanged(t)
  BY DEF ExchangesCounted, ExchangesNothing
<1>2. Holding(t)' \in SUBSET Holding(t)
  BY DEF HoldsNoMore, Holding, Holds
<1>3. Cardinality(Holding(t)') <= Cardinality(Holding(t))
  BY <1>2, HoldingFinite, FS_Subset
<1>4. Cardinality(Exchanged(t)) \in Nat
  BY <1>1, FS_CardinalityType DEF Counted
<1>5. IsFiniteSet(Exchanged(t)')
  BY <1>1 DEF Counted
<1>6. Cardinality(Exchanged(t)') = Cardinality(Exchanged(t))
  BY <1>1
<1>7. Cardinality(Exchanged(t)') + Cardinality(Holding(t)') <= Racing'
  BY <1>1, <1>3, <1>4, <1>6, RacingGrows, HoldingFinite DEF Counted
<1>8. QED BY <1>5, <1>7 DEF Counted

LEMMA SameExchanges ==
  ASSUME \A c \in Tokens : /\ tokens'[c] # NoToken <=> tokens[c] # NoToken
                           /\ tokens[c] # NoToken =>
                                tokens'[c].parent = tokens[c].parent
  PROVE  ExchangesNothing
  BY DEF ExchangesNothing, Exchanged

(* What a request that is done, or that has nothing to exchange, holds. *)
LEMMA HoldsNothing ==
  ASSUME NEW r, NEW t \in Tokens,
         \/ r.op \in {"idle", "register", "admin", "succeed", "fail", "respond",
                      "password"}
         \/ r.op = "issue" /\ r.parent = None
  PROVE  ~ Holds(r, t)
  BY NoneAssumption DEF Holds

(* A refresh finds its token unrevoked, hence not exchanged yet.           *)
LEMMA FindExchange ==
  ASSUME IInv, ExchangesCounted, [Next]_authVars, NEW h \in Slots,
         NEW b \in Browsers, RefreshFind(h, b)
  PROVE  ExchangesCounted'
<1> SUFFICES ASSUME NEW t \in Tokens PROVE Counted(t)'
  BY DEF ExchangesCounted
<1> USE DEF IInv
<1>1. PICK r : /\ r = [op |-> "revoke", browser |-> b, token |-> cookie[b]]
               /\ req[h] = Idle /\ req'[h] = r /\ tokens' = tokens
               /\ \A k \in Slots : k # h => req'[k] = req[k]
               /\ overlapped' = (overlapped \/ \E k \in Slots : req[k] # Idle)
  BY TokensType DEF RefreshFind, Begin
<1>2. Exchanged(t)' = Exchanged(t) /\ Counted(t)
  BY <1>1 DEF Exchanged, ExchangesCounted
<1>3. IsFiniteSet(Exchanged(t)') /\ Cardinality(Exchanged(t)) \in Nat
  BY <1>2, FS_CardinalityType DEF Counted
<1>4. Racing \in Nat /\ Racing' \in Nat /\ Racing <= Racing'
  BY RacingGrows
<1>5. CASE cookie[b] # t
  <2>1. Holding(t)' \in SUBSET Holding(t)
    BY <1>1, <1>5 DEF Holding, Holds
  <2>2. Cardinality(Holding(t)') <= Cardinality(Holding(t))
    BY <2>1, HoldingFinite, FS_Subset
  <2>3. Cardinality(Exchanged(t)') = Cardinality(Exchanged(t))
    BY <1>2
  <2>4. Cardinality(Exchanged(t)') + Cardinality(Holding(t)') <= Racing'
    BY <1>2, <1>3, <1>4, <2>2, <2>3, HoldingFinite DEF Counted
  <2>5. QED BY <1>3, <2>4 DEF Counted
<1>6. CASE cookie[b] = t
  <2>1. ~ tokens[t].revoked
    BY <1>6 DEF RefreshFind, Usable
  <2>2. Exchanged(t) = {}
    <3>1. t # None
      BY NoneAssumption
    <3>2. QED BY <2>1, <3>1 DEF Exchanged, RotationRevokesFirst, Issued
  <2>3. Cardinality(Exchanged(t)') = 0
    BY <1>2, <2>2, FS_EmptySet
  <2>4. Cardinality(Holding(t)') <= Racing'
    <3>1. CASE overlapped'
      <4>1. Holding(t)' \in SUBSET Slots
        BY DEF Holding
      <4>2. Cardinality(Holding(t)') <= Cardinality(Slots)
        BY <4>1, SlotsAssumption, FS_Subset
      <4>3. QED BY <3>1, <4>2 DEF Racing
    <3>2. CASE ~ overlapped'
      <4>1. \A k \in Slots : req[k] = Idle
        BY <1>1, <3>2
      <4>2. Holding(t)' \in SUBSET {h}
        BY <1>1, <4>1 DEF Holding, Holds, Idle
      <4>3. IsFiniteSet({h}) /\ Cardinality({h}) = 1
        BY FS_Singleton
      <4>4. Cardinality(Holding(t)') <= 1
        BY <4>2, <4>3, FS_Subset
      <4>5. QED BY <3>2, <4>4 DEF Racing
    <3>3. QED BY <3>1, <3>2
  <2>5. Cardinality(Exchanged(t)') + Cardinality(Holding(t)') <= Racing'
    BY <1>4, <2>3, <2>4, HoldingFinite
  <2>6. QED BY <1>3, <2>5 DEF Counted
<1>7. QED BY <1>5, <1>6

(* The token that is issued takes the place of the request that issued it. *)
LEMMA IssueExchange ==
  ASSUME IInv, ExchangesCounted, [Next]_authVars, NEW h \in Slots,
         IssueTokenPair(h)
  PROVE  ExchangesCounted'
<1> SUFFICES ASSUME NEW t \in Tokens PROVE Counted(t)'
  BY DEF ExchangesCounted
<1> USE DEF IInv
<1>1. PICK c \in Tokens :
        /\ Issues(c, req[h].parent)
        /\ GoesOn(h, [op |-> "respond", browser |-> req[h].browser,
                      cookie |-> c])
  BY IssueWrites
<1>2. PICK q : /\ q = [op |-> "respond", browser |-> req[h].browser,
                       cookie |-> c]
               /\ req' = [req EXCEPT ![h] = q]
  BY <1>1 DEF GoesOn, Proceed
<1>3. /\ req'[h] = q /\ q.op = "respond"
      /\ \A k \in Slots : k # h => req'[k] = req[k]
  BY <1>2, TokensType
<1>4. Counted(t) /\ Racing \in Nat /\ Racing' \in Nat /\ Racing <= Racing'
      /\ req[h].op = "issue"
  BY RacingGrows DEF ExchangesCounted, IssueTokenPair
<1>5. /\ Cardinality(Exchanged(t)) \in Nat /\ IsFiniteSet(Exchanged(t))
      /\ Cardinality(Exchanged(t)) + Cardinality(Holding(t)) <= Racing
  BY <1>4, FS_CardinalityType DEF Counted
<1>6. CASE req[h].parent = t
  <2>1. Exchanged(t)' = Exchanged(t) \cup {c} /\ c \notin Exchanged(t)
    BY <1>1, <1>6 DEF Exchanged, Issues, Issued
  <2>2. /\ IsFiniteSet(Exchanged(t)')
        /\ Cardinality(Exchanged(t)') = Cardinality(Exchanged(t)) + 1
    BY <1>5, <2>1, FS_AddElement
  <2>3. Holding(t)' = Holding(t) \ {h} /\ h \in Holding(t)
    BY <1>3, <1>4, <1>6 DEF Holding, Holds
  <2>4. Cardinality(Holding(t)') = Cardinality(Holding(t)) - 1
    BY <2>3, HoldingFinite, FS_RemoveElement
  <2>5. Cardinality(Exchanged(t)') + Cardinality(Holding(t)') <= Racing'
    BY <1>4, <1>5, <2>2, <2>4, HoldingFinite
  <2>6. QED BY <2>2, <2>5 DEF Counted
<1>7. CASE req[h].parent # t
  <2>1. Exchanged(t)' = Exchanged(t)
    BY <1>1, <1>7 DEF Exchanged, Issues, Issued
  <2>2. Holding(t)' \in SUBSET Holding(t)
    BY <1>3 DEF Holding, Holds
  <2>3. Cardinality(Holding(t)') <= Cardinality(Holding(t))
    BY <2>2, HoldingFinite, FS_Subset
  <2>4. IsFiniteSet(Exchanged(t)')
        /\ Cardinality(Exchanged(t)') = Cardinality(Exchanged(t))
    BY <1>5, <2>1
  <2>5. Cardinality(Exchanged(t)') + Cardinality(Holding(t)') <= Racing'
    BY <1>4, <1>5, <2>3, <2>4, HoldingFinite
  <2>6. QED BY <2>4, <2>5 DEF Counted
<1>8. QED BY <1>6, <1>7

(* A slot goes on to what holds nothing new. *)
LEMMA SlotExchange ==
  ASSUME TypeOK, ExchangesCounted, [Next]_authVars, NEW h \in Slots, NEW r,
         Arrives(h, r) \/ GoesOn(h, r) \/ req' = [req EXCEPT ![h] = r],
         \A t \in Tokens : Holds(r, t) => Holds(req[h], t), ExchangesNothing
  PROVE  ExchangesCounted'
<1>1. req' = [req EXCEPT ![h] = r]
  BY DEF Arrives, GoesOn, Begin, Proceed
<1>2. req'[h] = r /\ \A k \in Slots : k # h => req'[k] = req[k]
  BY <1>1, TokensType
<1>3. HoldsNoMore
  BY <1>2 DEF HoldsNoMore
<1>4. QED BY <1>3, QuietExchange

LEMMA ExchangeStep ==
  ASSUME IInv, ExchangesCounted, [Next]_authVars
  PROVE  ExchangesCounted'
<1> USE DEF IInv
<1>1. ASSUME tokens' = tokens PROVE ExchangesNothing
  BY <1>1, SameExchanges
<1>2. ASSUME NEW t \in Tokens, Revokes(t) PROVE ExchangesNothing
  BY <1>2, SameExchanges DEF Revokes, Issued
<1>3. CASE AuthNext
  <2>1. ASSUME NEW h \in Slots, NEW b \in Browsers, NEW e \in Emails,
               NEW p \in Passwords,
               \/ RegisterFind(h, b, e, p) \/ LoginFindUser(h, b, e, p)
               \/ LoginFindNoUser(h, b, e, p)
        PROVE  ExchangesCounted'
    <3>1. PICK u \in Users \cup {None} :
            \/ Arrives(h, [op |-> "register", browser |-> b, email |-> e,
                           password |-> p])
            \/ Arrives(h, [op |-> "admin", browser |-> b, email |-> e,
                           password |-> p])
            \/ Arrives(h, [op |-> "succeed", browser |-> b, user |-> u])
            \/ Arrives(h, [op |-> "fail", user |-> u,
                 failedLoginAttempts |-> users[u].failedLoginAttempts])
      BY <2>1 DEF RegisterFind, LoginFindUser, LoginFindNoUser, Arrives, Begin
    <3>2. tokens' = tokens
      BY <2>1 DEF RegisterFind, LoginFindUser, LoginFindNoUser
    <3>3. QED BY <1>1, <3>1, <3>2, HoldsNothing, SlotExchange
  <2>2. ASSUME NEW h \in Slots, RegisterCommit(h) \/ LoginFindAdmin(h)
        PROVE  ExchangesCounted'
    <3>1. CASE GoesOn(h, Idle)
      <4>1. tokens' = tokens /\ Idle.op = "idle"
        BY <2>2 DEF RegisterCommit, LoginFindAdmin, Idle
      <4>2. QED BY <1>1, <3>1, <4>1, HoldsNothing, SlotExchange
    <3>2. ASSUME NEW owner,
                 GoesOn(h, [op |-> "issue", browser |-> req[h].browser,
                            owner |-> owner, parent |-> None])
          PROVE  ExchangesCounted'
      <4>1. tokens' = tokens
        BY <2>2 DEF RegisterCommit, LoginFindAdmin
      <4>2. QED BY <1>1, <3>2, <4>1, HoldsNothing, SlotExchange
    <3>3. CASE RegisterCommit(h)
      <4>1. GoesOn(h, Idle) \/ \E u \in Users :
              GoesOn(h, [op |-> "issue", browser |-> req[h].browser,
                         owner |-> u, parent |-> None])
        BY <3>3, NotIdle DEF RegisterCommit, GoesOn, Finish
      <4>2. QED BY <3>1, <3>2, <4>1
    <3>4. CASE LoginFindAdmin(h)
      <4>1. GoesOn(h, Idle) \/ \E a \in Admins :
              GoesOn(h, [op |-> "issue", browser |-> req[h].browser,
                         owner |-> a, parent |-> None])
        BY <3>4, NotIdle DEF LoginFindAdmin, GoesOn, Finish
      <4>2. QED BY <3>1, <3>2, <4>1
    <3>5. QED BY <2>2, <3>3, <3>4
  <2>3. ASSUME NEW h \in Slots,
               LoginFail(h) \/ Respond(h) \/ ChangePasswordUpdate(h)
        PROVE  ExchangesCounted'
    <3>1. GoesOn(h, Idle) /\ Idle.op = "idle"
      BY <2>3, NotIdle
      DEF LoginFail, Respond, ChangePasswordUpdate, GoesOn, Finish, Idle
    <3>2. tokens' = tokens
      BY <2>3 DEF LoginFail, Respond, ChangePasswordUpdate
    <3>3. QED BY <1>1, <3>1, <3>2, HoldsNothing, SlotExchange
  <2>4. ASSUME NEW h \in Slots, LoginSucceed(h) PROVE ExchangesCounted'
    <3>1. PICK r : GoesOn(h, r) /\ r.op = "issue" /\ r.parent = None
      BY <2>4, NotIdle DEF LoginSucceed, GoesOn
    <3>2. tokens' = tokens
      BY <2>4 DEF LoginSucceed
    <3>3. QED BY <1>1, <3>1, <3>2, HoldsNothing, SlotExchange
  <2>5. ASSUME NEW h \in Slots, RefreshRevoke(h) PROVE ExchangesCounted'
    <3>1. PICK r : /\ GoesOn(h, r) /\ r.op = "issue" /\ r.parent = req[h].token
                   /\ req[h].op = "revoke"
      BY <2>5, NotIdle DEF RefreshRevoke, GoesOn
    <3>2. \A t \in Tokens : Holds(r, t) => Holds(req[h], t)
      BY <3>1 DEF Holds
    <3>3. ExchangesNothing
      BY <1>2, <2>5, RefreshRevokeWrites
    <3>4. QED BY <3>1, <3>2, <3>3, SlotExchange
  <2>6. ASSUME NEW h \in Slots, NEW b \in Browsers, Logout(h, b)
        PROVE  ExchangesCounted'
    <3>1. Arrives(h, [op |-> "respond", browser |-> b, cookie |-> None])
      BY <2>6 DEF Logout, Arrives, Begin
    <3>2. ExchangesNothing
      BY <1>2, <2>6, LogoutWrites
    <3>3. QED BY <3>1, <3>2, HoldsNothing, SlotExchange
  <2>7. ASSUME NEW h \in Slots, NEW a \in Admins, NEW current \in Passwords,
               NEW new \in Passwords, ChangePasswordVerify(h, a, current, new)
        PROVE  ExchangesCounted'
    <3>1. Arrives(h, [op |-> "password", admin |-> a, password |-> new])
      BY <2>7 DEF ChangePasswordVerify, Arrives, Begin
    <3>2. tokens' = tokens
      BY <2>7 DEF ChangePasswordVerify
    <3>3. QED BY <1>1, <3>1, <3>2, HoldsNothing, SlotExchange
  <2>8. ASSUME NEW u \in Users, LockExpires(u) PROVE ExchangesCounted'
    BY <2>8, <1>1, QuietExchange DEF LockExpires, HoldsNoMore
  <2>9. ASSUME NEW t \in Tokens, TokenExpires(t) PROVE ExchangesCounted'
    <3>1. ExchangesNothing
      BY <2>9, ExpiryWrites, SameExchanges DEF Issued
    <3>2. QED BY <2>9, <3>1, QuietExchange DEF TokenExpires, HoldsNoMore
  <2>10. QED
    BY <1>3, <2>1, <2>2, <2>3, <2>4, <2>5, <2>6, <2>7, <2>8, <2>9,
       FindExchange, IssueExchange
    DEF AuthNext
<1>4. CASE AccountsNext
  <2>1. PICK h \in Slots : Arrives(h, Idle) /\ tokens' = tokens
    BY <1>4, AccountsArrives
  <2>2. Idle.op = "idle"
    BY DEF Idle
  <2>3. QED BY <1>1, <2>1, <2>2, HoldsNothing, SlotExchange
<1>5. ASSUME NEW h \in Slots, Abort(h) PROVE ExchangesCounted'
  <2>1. req' = [req EXCEPT ![h] = Idle] /\ tokens' = tokens /\ Idle.op = "idle"
    BY <1>5 DEF Abort, Idle
  <2>2. QED BY <1>1, <2>1, HoldsNothing, SlotExchange
<1>6. CASE UNCHANGED authVars
  BY <1>6, <1>1, QuietExchange DEF authVars, HoldsNoMore
<1>7. QED BY <1>3, <1>4, <1>5, <1>6 DEF Next

LEMMA ExchangesStart ==
  ASSUME Init
  PROVE  ExchangesCounted
<1> SUFFICES ASSUME NEW t \in Tokens PROVE Counted(t)
  BY DEF ExchangesCounted
<1>1. Exchanged(t) = {} /\ Holding(t) = {}
  BY DEF Init, Exchanged, Holding, Holds, Idle
<1>2. IsFiniteSet(Exchanged(t)) /\ Cardinality(Exchanged(t)) = 0
      /\ Cardinality(Holding(t)) = 0
  BY <1>1, FS_EmptySet
<1>3. Racing \in Nat
  BY HoldingFinite DEF Racing
<1>4. QED BY <1>2, <1>3 DEF Counted

(* AuthService.refresh: an exchanged token is revoked, through every race  *)
(* and every stop between its two writes.  Requests that follow each other *)
(* exchange it once; racing ones, each given a token of its own, exchange  *)
(* it at most as often as there can be requests in flight.                 *)
THEOREM ExchangesAreBounded == Spec => []RotationIsBounded
<1>1. Init => IInv /\ ExchangesCounted
  BY InitEstablishes, ExchangesStart
<1>2. (IInv /\ ExchangesCounted) /\ [Next]_authVars
        => (IInv /\ ExchangesCounted)'
  BY AuthStep, AccountsStep, AbortStep, StutterStep, ExchangeStep DEF Next
<1>3. ASSUME IInv, ExchangesCounted PROVE RotationIsBounded
  <2> SUFFICES ASSUME NEW t \in Tokens
               PROVE  /\ Exchanged(t) # {} => tokens[t].revoked
                      /\ Cardinality(Exchanged(t)) <= Racing
    BY DEF RotationIsBounded
  <2>1. Exchanged(t) # {} => tokens[t].revoked
    BY <1>3, NoneAssumption DEF IInv, Exchanged, RotationRevokesFirst, Issued
  <2>2. /\ Cardinality(Exchanged(t)) \in Nat /\ Cardinality(Holding(t)) \in Nat
        /\ Cardinality(Exchanged(t)) + Cardinality(Holding(t)) <= Racing
    BY <1>3, HoldingFinite, FS_CardinalityType DEF ExchangesCounted, Counted
  <2>3. Racing \in Nat
    BY HoldingFinite DEF Racing
  <2>4. QED BY <2>1, <2>2, <2>3
<1>4. QED BY <1>1, <1>2, <1>3, PTL DEF Spec

-----------------------------------------------------------------------------
(***************************************************************************)
(* Cookies, whatever overlaps.  A new token is in one response alone; a    *)
(* token that a browser holds is that browser's alone, and only its own    *)
(* requests are about to revoke it.                                        *)
(***************************************************************************)
Revoking(r, t) == r.op = "revoke" /\ r.token = t
Giving(r, t) == r.op = "respond" /\ r.cookie = t

ResponsesFresh ==
  \A h \in Slots, t \in Tokens :
    Giving(req[h], t) =>
      /\ ~ tokens[t].revoked
      /\ \A b \in Browsers : cookie[b] # t
      /\ \A k \in Slots : Giving(req[k], t) => k = h
      /\ \A k \in Slots : ~ Revoking(req[k], t)

CookiesApart ==
  \A b, c \in Browsers : cookie[b] = cookie[c] /\ cookie[b] # None => b = c

RevokedByItsOwn ==
  \A h \in Slots, b \in Browsers :
    cookie[b] # None /\ Revoking(req[h], cookie[b]) => req[h].browser = b

CookiesSound ==
  /\ ResponsesFresh
  /\ CookiesApart
  /\ RevokedByItsOwn
  /\ CookieStaysValid

(* Slot h, and no other, goes on to r. *)
Turns(h, r) == req'[h] = r /\ \A k \in Slots : k # h => req'[k] = req[k]

LEMMA SlotTurns ==
  ASSUME TypeOK, NEW h \in Slots, NEW r,
         Arrives(h, r) \/ GoesOn(h, r) \/ req' = [req EXCEPT ![h] = r]
  PROVE  /\ Turns(h, r)
         /\ Arrives(h, r) \/ GoesOn(h, r) => faulted' = faulted
         /\ Arrives(h, r) => req[h] = Idle
<1>1. req' = [req EXCEPT ![h] = r]
  BY DEF Arrives, GoesOn, Begin, Proceed
<1>2. Turns(h, r)
  BY <1>1, TokensType DEF Turns
<1>3. QED BY <1>2 DEF Arrives, GoesOn, Begin, Proceed

(* A browser whose answer is on its way still has it on its way. *)
LEMMA StillAnswered ==
  ASSUME NEW h \in Slots, NEW r, Turns(h, r), NEW b \in Browsers, Answering(b),
         req[h].op \in {"issue", "respond"} /\ req[h].browser = b =>
           r.op \in {"issue", "respond"} /\ r.browser = b
  PROVE  Answering(b)'
<1>1. PICK k \in Slots : req[k].op \in {"issue", "respond"} /\ req[k].browser = b
  BY DEF Answering
<1>2. CASE k = h BY <1>1, <1>2 DEF Answering, Turns
<1>3. CASE k # h BY <1>1, <1>3 DEF Answering, Turns
<1>4. QED BY <1>2, <1>3

(* Steps that revoke nothing, change no cookie and leave slots alone.      *)
SameRevoked == \A t \in Tokens : tokens'[t].revoked = tokens[t].revoked

LEMMA CookiesFrame ==
  ASSUME TypeOK, CookiesSound, SameRevoked, UNCHANGED <<cookie, req, faulted>>
  PROVE  CookiesSound'
<1>1. \A b \in Browsers : cookie[b] \in Tokens \cup {None}
  BY TokensType
<1>2. ResponsesFresh' /\ CookiesApart' /\ RevokedByItsOwn'
  BY DEF CookiesSound, SameRevoked, ResponsesFresh, CookiesApart,
         RevokedByItsOwn, Revoking, Giving
<1>3. CookieStaysValid'
  BY <1>1 DEF CookiesSound, SameRevoked, CookieStaysValid, Answering
<1>4. QED BY <1>2, <1>3 DEF CookiesSound

(* A slot turns to what revokes nothing and gives no token; unless the     *)
(* request was lost, it had nothing to answer with.                        *)
LEMMA QuietTurn ==
  ASSUME TypeOK, CookiesSound, NEW h \in Slots, NEW r, Turns(h, r),
         r.op # "revoke", r.op # "respond", UNCHANGED <<tokens, cookie>>,
         \/ faulted'
         \/ faulted' = faulted /\ req[h].op \notin {"issue", "respond"}
  PROVE  CookiesSound'
<1>1. ResponsesFresh'
  BY DEF CookiesSound, ResponsesFresh, Turns, Revoking, Giving
<1>2. CookiesApart' /\ RevokedByItsOwn'
  BY DEF CookiesSound, CookiesApart, RevokedByItsOwn, Turns, Revoking
<1>3. CookieStaysValid'
  <2> SUFFICES ASSUME ~ faulted', NEW b \in Browsers, cookie[b] # None,
                      tokens[cookie[b]].revoked
               PROVE  Answering(b)'
    BY DEF CookieStaysValid
  <2>1. Answering(b) /\ req[h].op \notin {"issue", "respond"}
    BY DEF CookiesSound, CookieStaysValid
  <2>2. QED BY <2>1, StillAnswered
<1>4. QED BY <1>1, <1>2, <1>3 DEF CookiesSound

(* A refresh reads a cookie: no response is about to give its token.       *)
LEMMA FindCookies ==
  ASSUME IInv, CookiesSound, NEW h \in Slots, NEW b \in Browsers,
         RefreshFind(h, b)
  PROVE  CookiesSound'
<1>1. TypeOK
  BY DEF IInv
<1>2. PICK r : /\ r = [op |-> "revoke", browser |-> b, token |-> cookie[b]]
               /\ Arrives(h, r)
  BY DEF RefreshFind, Arrives, Begin
<1>3. /\ Turns(h, r) /\ faulted' = faulted /\ req[h] = Idle
      /\ r.op = "revoke" /\ r.browser = b /\ r.token = cookie[b]
      /\ UNCHANGED <<tokens, cookie>>
  BY <1>1, <1>2, SlotTurns DEF RefreshFind
<1>4. ResponsesFresh'
  BY <1>3 DEF CookiesSound, ResponsesFresh, Turns, Revoking, Giving
<1>5. CookiesApart' /\ RevokedByItsOwn'
  BY <1>3 DEF CookiesSound, CookiesApart, RevokedByItsOwn, Turns, Revoking
<1>6. CookieStaysValid'
  <2> SUFFICES ASSUME ~ faulted, NEW c \in Browsers, cookie[c] # None,
                      tokens[cookie[c]].revoked
               PROVE  Answering(c)'
    BY <1>3 DEF CookieStaysValid
  <2>1. Answering(c) /\ req[h].op \notin {"issue", "respond"}
    BY <1>3 DEF CookiesSound, CookieStaysValid, Idle
  <2>2. QED BY <1>3, <2>1, StillAnswered
<1>7. QED BY <1>4, <1>5, <1>6 DEF CookiesSound

(* A token is revoked by a request of the browser that holds it, if any    *)
(* does, and this request goes on to answer that browser.                  *)
LEMMA RevokingTurn ==
  ASSUME TypeOK, CookiesSound, NEW h \in Slots, NEW r, NEW t \in Tokens,
         NEW b \in Browsers, Turns(h, r), Revokes(t),
         UNCHANGED <<cookie, faulted>>,
         req[h].op \notin {"issue", "respond"},
         \/ r.op = "issue" /\ r.browser = b
         \/ r.op = "respond" /\ r.browser = b /\ r.cookie = None,
         \A c \in Browsers : cookie[c] = t => c = b,
         \A k \in Slots : ~ Giving(req[k], t)
  PROVE  CookiesSound'
<1>1. None \notin Tokens
  BY NoneAssumption
<1>2. ResponsesFresh'
  BY <1>1 DEF CookiesSound, ResponsesFresh, Turns, Revoking, Giving, Revokes
<1>3. CookiesApart' /\ RevokedByItsOwn'
  BY DEF CookiesSound, CookiesApart, RevokedByItsOwn, Turns, Revoking
<1>4. CookieStaysValid'
  <2> SUFFICES ASSUME ~ faulted, NEW c \in Browsers, cookie[c] # None,
                      tokens'[cookie[c]].revoked
               PROVE  Answering(c)'
    BY DEF CookieStaysValid
  <2>1. CASE c = b
    BY <2>1 DEF Answering, Turns
  <2>2. CASE c # b
    <3>1. cookie[c] \in Tokens /\ cookie[c] # t
      BY <2>2, TokensType
    <3>2. tokens[cookie[c]].revoked
      BY <3>1 DEF Revokes
    <3>3. Answering(c)
      BY <3>2 DEF CookiesSound, CookieStaysValid
    <3>4. QED BY <3>3, StillAnswered
  <2>3. QED BY <2>1, <2>2
<1>5. QED BY <1>2, <1>3, <1>4 DEF CookiesSound

LEMMA RevokeCookies ==
  ASSUME IInv, CookiesSound, NEW h \in Slots, RefreshRevoke(h)
  PROVE  CookiesSound'
<1>1. TypeOK /\ req[h].token \in Tokens /\ Revokes(req[h].token)
      /\ req[h].op = "revoke"
  BY RefreshRevokeWrites DEF IInv, RefreshRevoke
<1>2. req[h].browser \in Browsers
  BY <1>1, Requests DEF TypeOK
<1>3. PICK r : /\ GoesOn(h, r) /\ r.op = "issue"
               /\ r.browser = req[h].browser
  BY NotIdle DEF RefreshRevoke, GoesOn
<1>4. Turns(h, r) /\ UNCHANGED <<cookie, faulted>>
  BY <1>1, <1>3, SlotTurns DEF RefreshRevoke
<1>5. \A c \in Browsers : cookie[c] = req[h].token => c = req[h].browser
  BY <1>1, NoneAssumption DEF CookiesSound, RevokedByItsOwn, Revoking
<1>6. \A k \in Slots : ~ Giving(req[k], req[h].token)
  BY <1>1 DEF CookiesSound, ResponsesFresh, Revoking
<1>7. QED BY <1>1, <1>2, <1>3, <1>4, <1>5, <1>6, RevokingTurn

LEMMA LogoutCookies ==
  ASSUME IInv, CookiesSound, NEW h \in Slots, NEW b \in Browsers, Logout(h, b)
  PROVE  CookiesSound'
<1>1. TypeOK /\ cookie[b] \in Tokens /\ Revokes(cookie[b])
  BY LogoutWrites DEF IInv
<1>2. PICK r : /\ Arrives(h, r) /\ r.op = "respond" /\ r.browser = b
               /\ r.cookie = None
  <2>1. Arrives(h, [op |-> "respond", browser |-> b, cookie |-> None])
    BY DEF Logout, Arrives, Begin
  <2>2. QED BY <2>1
<1>3. Turns(h, r) /\ UNCHANGED <<cookie, faulted>> /\ req[h] = Idle
  BY <1>1, <1>2, SlotTurns DEF Logout
<1>4. \A c \in Browsers : cookie[c] = cookie[b] => c = b
  BY <1>1, NoneAssumption DEF CookiesSound, CookiesApart
<1>5. \A k \in Slots : ~ Giving(req[k], cookie[b])
  BY <1>1 DEF CookiesSound, ResponsesFresh
<1>6. req[h].op \notin {"issue", "respond"}
  BY <1>3 DEF Idle
<1>7. QED BY <1>1, <1>2, <1>3, <1>4, <1>5, <1>6, RevokingTurn

(* A new token is in no cookie and no other request. *)
LEMMA IssueCookies ==
  ASSUME IInv, CookiesSound, NEW h \in Slots, IssueTokenPair(h)
  PROVE  CookiesSound'
<1>1. TypeOK
  BY DEF IInv
<1>2. PICK t \in Tokens :
        /\ Issues(t, req[h].parent)
        /\ GoesOn(h, [op |-> "respond", browser |-> req[h].browser,
                      cookie |-> t])
  BY IssueWrites
<1>3. PICK r : /\ r.op = "respond" /\ r.browser = req[h].browser
               /\ r.cookie = t /\ GoesOn(h, r)
  BY <1>2
<1>4. Turns(h, r) /\ UNCHANGED <<cookie, faulted>>
  BY <1>1, <1>3, SlotTurns DEF IssueTokenPair
<1>5. \A b \in Browsers : cookie[b] # t
  BY <1>2, NoneAssumption DEF IInv, CookiesAreIssued, Issues
<1>6. \A k \in Slots : ~ Giving(req[k], t) /\ ~ Revoking(req[k], t)
  BY <1>2, NoneAssumption
  DEF IInv, RequestsSound, RequestSound, Issues, Giving, Revoking
<1>7. ResponsesFresh'
  BY <1>2, <1>3, <1>4, <1>5, <1>6
  DEF CookiesSound, ResponsesFresh, Turns, Revoking, Giving, Issues
<1>8. CookiesApart' /\ RevokedByItsOwn'
  BY <1>3, <1>4 DEF CookiesSound, CookiesApart, RevokedByItsOwn, Turns, Revoking
<1>9. CookieStaysValid'
  <2> SUFFICES ASSUME ~ faulted, NEW b \in Browsers, cookie[b] # None,
                      tokens'[cookie[b]].revoked
               PROVE  Answering(b)'
    BY <1>4 DEF CookieStaysValid
  <2>1. tokens[cookie[b]].revoked
    BY <1>1, <1>2, <1>5, TokensType DEF Issues
  <2>2. Answering(b)
    BY <2>1 DEF CookiesSound, CookieStaysValid
  <2>3. QED BY <1>3, <1>4, <2>2, StillAnswered
<1>10. QED BY <1>7, <1>8, <1>9 DEF CookiesSound

(* The browser gets what only this response had to give. *)
LEMMA RespondCookies ==
  ASSUME IInv, CookiesSound, NEW h \in Slots, Respond(h)
  PROVE  CookiesSound'
<1>1. TypeOK /\ req[h].op = "respond"
  BY DEF IInv, Respond
<1>2. PICK b \in Browsers, t \in Tokens \cup {None} :
        b = req[h].browser /\ t = req[h].cookie
  BY <1>1, Requests DEF TypeOK
<1>3. /\ cookie'[b] = t /\ tokens' = tokens
      /\ \A c \in Browsers : c # b => cookie'[c] = cookie[c]
  BY <1>1, <1>2, TokensType DEF Respond
<1>4. Turns(h, Idle) /\ faulted' = faulted
  BY <1>1, NotIdle, SlotTurns DEF Respond, Finish, GoesOn
<1>5. t # None => /\ ~ tokens[t].revoked
                  /\ \A c \in Browsers : cookie[c] # t
                  /\ \A k \in Slots : Giving(req[k], t) => k = h
                  /\ \A k \in Slots : ~ Revoking(req[k], t)
  BY <1>1, <1>2 DEF CookiesSound, ResponsesFresh, Giving
<1>6. ResponsesFresh'
  BY <1>3, <1>4, <1>5, NoneAssumption
  DEF CookiesSound, ResponsesFresh, Turns, Revoking, Giving, Idle
<1>7. CookiesApart'
  BY <1>3, <1>5 DEF CookiesSound, CookiesApart
<1>8. RevokedByItsOwn'
  BY <1>3, <1>4, <1>5 DEF CookiesSound, RevokedByItsOwn, Turns, Revoking, Idle
<1>9. CookieStaysValid'
  <2> SUFFICES ASSUME ~ faulted, NEW c \in Browsers, cookie'[c] # None,
                      tokens[cookie'[c]].revoked
               PROVE  Answering(c)'
    BY <1>3, <1>4 DEF CookieStaysValid
  <2>1. c # b
    BY <1>3, <1>5
  <2>2. Answering(c)
    BY <1>3, <2>1 DEF CookiesSound, CookieStaysValid
  <2>3. QED BY <1>2, <1>4, <2>1, <2>2, StillAnswered
<1>10. QED BY <1>6, <1>7, <1>8, <1>9 DEF CookiesSound

LEMMA CookiesStep ==
  ASSUME IInv, CookiesSound, [Next]_authVars
  PROVE  CookiesSound'
<1> USE DEF IInv
<1>1. ASSUME NEW h \in Slots, NEW r,
             Arrives(h, r) \/ (GoesOn(h, r) /\ req[h].op \notin {"issue", "respond"}),
             r.op \notin {"revoke", "respond"}, UNCHANGED <<tokens, cookie>>
      PROVE  CookiesSound'
  <2>1. Turns(h, r) /\ faulted' = faulted
        /\ req[h].op \notin {"issue", "respond"}
    BY <1>1, SlotTurns DEF Idle
  <2>2. QED BY <1>1, <2>1, QuietTurn
<1>2. ASSUME UNCHANGED <<tokens, cookie, req, faulted>> PROVE CookiesSound'
  BY <1>2, CookiesFrame DEF SameRevoked
<1>3. CASE AuthNext
  <2>1. ASSUME NEW h \in Slots, NEW b \in Browsers, NEW e \in Emails,
               NEW p \in Passwords,
               \/ RegisterFind(h, b, e, p) \/ LoginFindUser(h, b, e, p)
               \/ LoginFindNoUser(h, b, e, p)
        PROVE  CookiesSound'
    <3>1. PICK u \in Users \cup {None} :
            \/ Arrives(h, [op |-> "register", browser |-> b, email |-> e,
                           password |-> p])
            \/ Arrives(h, [op |-> "admin", browser |-> b, email |-> e,
                           password |-> p])
            \/ Arrives(h, [op |-> "succeed", browser |-> b, user |-> u])
            \/ Arrives(h, [op |-> "fail", user |-> u,
                 failedLoginAttempts |-> users[u].failedLoginAttempts])
      BY <2>1 DEF RegisterFind, LoginFindUser, LoginFindNoUser, Arrives, Begin
    <3>2. UNCHANGED <<tokens, cookie>>
      BY <2>1 DEF RegisterFind, LoginFindUser, LoginFindNoUser
    <3>3. QED BY <1>1, <3>1, <3>2
  <2>2. ASSUME NEW h \in Slots,
               \/ RegisterCommit(h) \/ LoginFindAdmin(h) \/ LoginFail(h)
               \/ LoginSucceed(h) \/ ChangePasswordUpdate(h)
        PROVE  CookiesSound'
    <3>1. /\ UNCHANGED <<tokens, cookie>> /\ req[h] # Idle
          /\ req[h].op \notin {"issue", "respond"}
      BY <2>2, NotIdle DEF RegisterCommit, LoginFindAdmin, LoginFail,
         LoginSucceed, ChangePasswordUpdate
    <3>2. GoesOn(h, Idle) \/ \E owner :
            GoesOn(h, [op |-> "issue", browser |-> req[h].browser,
                       owner |-> owner, parent |-> None])
      <4>1. CASE RegisterCommit(h)
        BY <3>1, <4>1 DEF RegisterCommit, GoesOn, Finish
      <4>2. CASE LoginFindAdmin(h)
        BY <3>1, <4>2 DEF LoginFindAdmin, GoesOn, Finish
      <4>3. CASE LoginFail(h) \/ ChangePasswordUpdate(h)
        BY <3>1, <4>3 DEF LoginFail, ChangePasswordUpdate, GoesOn, Finish
      <4>4. CASE LoginSucceed(h)
        <5>1. GoesOn(h, [op |-> "issue", browser |-> req[h].browser,
                         owner |-> req[h].user, parent |-> None])
          BY <3>1, <4>4 DEF LoginSucceed, GoesOn
        <5>2. QED BY <5>1
      <4>5. QED BY <2>2, <4>1, <4>2, <4>3, <4>4
    <3>3. CASE GoesOn(h, Idle)
      <4>1. Idle.op \notin {"revoke", "respond"}
        BY DEF Idle
      <4>2. QED BY <1>1, <3>1, <3>3, <4>1
    <3>4. ASSUME NEW owner,
                 GoesOn(h, [op |-> "issue", browser |-> req[h].browser,
                            owner |-> owner, parent |-> None])
          PROVE  CookiesSound'
      <4>1. PICK r : r = [op |-> "issue", browser |-> req[h].browser,
                          owner |-> owner, parent |-> None]
        OBVIOUS
      <4>2. r.op = "issue"
        BY <4>1
      <4>3. QED BY <1>1, <3>1, <3>4, <4>1, <4>2
    <3>5. QED BY <3>2, <3>3, <3>4
  <2>3. ASSUME NEW h \in Slots, NEW a \in Admins, NEW current \in Passwords,
               NEW new \in Passwords, ChangePasswordVerify(h, a, current, new)
        PROVE  CookiesSound'
    <3>1. /\ Arrives(h, [op |-> "password", admin |-> a, password |-> new])
          /\ UNCHANGED <<tokens, cookie>>
      BY <2>3 DEF ChangePasswordVerify, Arrives, Begin
    <3>2. QED BY <1>1, <3>1
  <2>4. ASSUME NEW u \in Users, LockExpires(u) PROVE CookiesSound'
    BY <2>4, <1>2 DEF LockExpires
  <2>5. ASSUME NEW t \in Tokens, TokenExpires(t) PROVE CookiesSound'
    <3>1. SameRevoked
      BY <2>5, ExpiryWrites DEF SameRevoked
    <3>2. QED BY <2>5, <3>1, CookiesFrame DEF TokenExpires
  <2>6. QED
    BY <1>3, <2>1, <2>2, <2>3, <2>4, <2>5, FindCookies, RevokeCookies,
       LogoutCookies, IssueCookies, RespondCookies
    DEF AuthNext
<1>4. CASE AccountsNext
  <2>1. PICK h \in Slots : Arrives(h, Idle) /\ UNCHANGED <<tokens, cookie>>
    BY <1>4, AccountsArrives
  <2>2. Idle.op \notin {"revoke", "respond"}
    BY DEF Idle
  <2>3. QED BY <1>1, <2>1, <2>2
<1>5. ASSUME NEW h \in Slots, Abort(h) PROVE CookiesSound'
  <2>1. Turns(h, Idle) /\ faulted' /\ UNCHANGED <<tokens, cookie>>
    BY <1>5, SlotTurns DEF Abort
  <2>2. Idle.op # "revoke" /\ Idle.op # "respond"
    BY DEF Idle
  <2>3. QED BY <2>1, <2>2, QuietTurn
<1>6. CASE UNCHANGED authVars
  BY <1>6, <1>2 DEF authVars
<1>7. QED BY <1>3, <1>4, <1>5, <1>6 DEF Next

(* AuthService.refresh, logout and setRefreshTokenCookie, whatever races:  *)
(* while no request is cut short and every response arrives, a cookie that *)
(* was revoked is that of a browser about to be given another, or none.    *)
THEOREM RotationKeepsCookies == Spec => []CookieStaysValid
<1>1. Init => IInv /\ CookiesSound
  BY InitEstablishes
  DEF Init, CookiesSound, ResponsesFresh, CookiesApart, RevokedByItsOwn,
      CookieStaysValid, Revoking, Giving, Idle
<1>2. (IInv /\ CookiesSound) /\ [Next]_authVars => (IInv /\ CookiesSound)'
  BY AuthStep, AccountsStep, AbortStep, StutterStep, CookiesStep DEF Next
<1>3. IInv /\ CookiesSound => CookieStaysValid
  BY DEF CookiesSound
<1>4. QED BY <1>1, <1>2, <1>3, PTL DEF Spec
=============================================================================
