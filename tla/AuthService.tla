---------------------------- MODULE AuthService ----------------------------
(***************************************************************************)
(* apps/api/src/auth/auth.service.ts and auth.controller.ts: registration, *)
(* login with its lockout counter, refresh-token rotation, logout and      *)
(* password change.  Requests that are refused (401, 409) change nothing   *)
(* and are left out, except where they count.                              *)
(***************************************************************************)
EXTENDS AuthStore

(* register, first await. *)
RegisterFind(h, b, e, p) ==
  /\ \A u \in Users : ~ UserWith(e, u)
  /\ Begin(h, "register", [op |-> "register", browser |-> b, email |-> e,
                           password |-> p])
  /\ UNCHANGED <<users, admins, tokens, cookie, history>>

(* Its transaction, user and credential together.  An address taken since  *)
(* the check breaks the unique index, which nothing catches: 500.          *)
RegisterCommit(h) ==
  LET r == req[h] IN
  /\ r.op = "register"
  /\ \E u \in Users :
       /\ users[u] = NoAccount
       /\ IF UserEmailAdmitted(u, r.email)
          THEN /\ users' = [users EXCEPT ![u] =
                    [email |-> r.email, deleted |-> FALSE,
                     password |-> r.password, failedLoginAttempts |-> 0,
                     locked |-> FALSE]]
               /\ Proceed(h, [op |-> "issue", browser |-> r.browser,
                              owner |-> u, parent |-> None])
          ELSE Finish(h) /\ UNCHANGED users
  /\ UNCHANGED <<admins, tokens, cookie, history>>

-----------------------------------------------------------------------------
(* login, first await: a live user with credentials, and not locked, is    *)
(* answered from what its row says now.                                    *)
LoginFindUser(h, b, e, p) ==
  \E u \in Users :
    LET row == users[u] IN
    /\ UserWith(e, u)
    /\ row.password # None
    /\ ~ row.locked
    /\ IF row.password = p
       THEN /\ Begin(h, "login", [op |-> "succeed", browser |-> b, user |-> u])
            /\ UNCHANGED wrong
       ELSE /\ wrong[u] < MaxWrong
            /\ Begin(h, "guess",
                 [op |-> "fail", user |-> u,
                  failedLoginAttempts |-> row.failedLoginAttempts])
            /\ wrong' = [wrong EXCEPT ![u] = @ + 1]
    /\ UNCHANGED <<users, admins, tokens, cookie, closed>>

(* No such user: on to the administrators, with a second await.            *)
LoginFindNoUser(h, b, e, p) ==
  /\ \A u \in Users : UserWith(e, u) => users[u].password = None
  /\ Begin(h, "login", [op |-> "admin", browser |-> b, email |-> e,
                        password |-> p])
  /\ UNCHANGED <<users, admins, tokens, cookie, history>>

LoginFindAdmin(h) ==
  LET r == req[h]
      found == {a \in Admins : /\ AdminWith(r.email, a)
                               /\ admins[a].isActive
                               /\ admins[a].password = r.password}
  IN
  /\ r.op = "admin"
  /\ IF found = {} THEN Finish(h)
     ELSE \E a \in found :
            Proceed(h, [op |-> "issue", browser |-> r.browser, owner |-> a,
                        parent |-> None])
  /\ UNCHANGED <<users, admins, tokens, cookie, history>>

(* Mutant: the fourth failure locks. *)
LoginFailTooEarly(h) ==
  LET r == req[h]
      attempts == r.failedLoginAttempts + 1
  IN
  /\ r.op = "fail"
  /\ users' = [users EXCEPT ![r.user].failedLoginAttempts = attempts,
                            ![r.user].locked = attempts + 1 >= LOCKOUT_THRESHOLD]
  /\ Finish(h)
  /\ UNCHANGED <<admins, tokens, cookie, history>>

(* Mutant: the counter starts again with every lock. *)
LoginFailResets(h) ==
  LET r == req[h]
      attempts == r.failedLoginAttempts + 1
  IN
  /\ r.op = "fail"
  /\ users' = [users EXCEPT
       ![r.user].failedLoginAttempts =
          IF attempts >= LOCKOUT_THRESHOLD THEN 0 ELSE attempts,
       ![r.user].locked = attempts >= LOCKOUT_THRESHOLD]
  /\ Finish(h)
  /\ UNCHANGED <<admins, tokens, cookie, history>>

(* Mutant: the counter goes down. *)
LoginFailCountsDown(h) ==
  LET r == req[h]
      attempts == r.failedLoginAttempts - 1
  IN
  /\ r.op = "fail"
  /\ users' = [users EXCEPT ![r.user].failedLoginAttempts = attempts,
                            ![r.user].locked = attempts >= LOCKOUT_THRESHOLD]
  /\ Finish(h)
  /\ UNCHANGED <<admins, tokens, cookie, history>>

(* A wrong password: the counter read, plus one, is written back, and the  *)
(* lock with it.                                                           *)
LoginFail(h) ==
  LET r == req[h]
      attempts == r.failedLoginAttempts + 1
  IN
  /\ r.op = "fail"
  /\ users' = [users EXCEPT ![r.user].failedLoginAttempts = attempts,
                            ![r.user].locked = attempts >= LOCKOUT_THRESHOLD]
  /\ Finish(h)
  /\ UNCHANGED <<admins, tokens, cookie, history>>

LoginSucceed(h) ==
  LET r == req[h] IN
  /\ r.op = "succeed"
  /\ users' = [users EXCEPT ![r.user].failedLoginAttempts = 0,
                            ![r.user].locked = FALSE]
  /\ Proceed(h, [op |-> "issue", browser |-> r.browser, owner |-> r.user,
                 parent |-> None])
  /\ UNCHANGED <<admins, tokens, cookie, history>>

(* lockedUntil passes; the counter stays where it is. *)
LockExpires(u) ==
  /\ users[u] # NoAccount
  /\ users[u].locked
  /\ users' = [users EXCEPT ![u].locked = FALSE]
  /\ UNCHANGED <<admins, tokens, cookie, req, workload, history, overlapped,
                 faulted>>

-----------------------------------------------------------------------------
(* issueTokenPair: a refresh token of its own session, or of its parent's. *)
IssueTokenPair(h) ==
  LET r == req[h] IN
  /\ r.op = "issue"
  /\ \E t \in Tokens :
       /\ tokens[t] = NoToken
       /\ tokens' = [tokens EXCEPT ![t] =
            [owner |-> r.owner, revoked |-> FALSE, expired |-> FALSE,
             parent |-> r.parent,
             session |-> IF r.parent = None THEN t
                         ELSE tokens[r.parent].session]]
       /\ Proceed(h, [op |-> "respond", browser |-> r.browser, cookie |-> t])
  /\ UNCHANGED <<users, admins, cookie, history>>

(* The response reaches the browser: setRefreshTokenCookie, or             *)
(* clearRefreshTokenCookie after a logout.                                 *)
Respond(h) ==
  LET r == req[h] IN
  /\ r.op = "respond"
  /\ cookie' = [cookie EXCEPT ![r.browser] = r.cookie]
  /\ Finish(h)
  /\ UNCHANGED <<users, admins, tokens, history>>

(* Mutant: a token that was revoked is still exchanged. *)
RefreshFindRevoked(h, b) ==
  /\ cookie[b] # None
  /\ tokens[cookie[b]] # NoToken
  /\ ~ tokens[cookie[b]].expired
  /\ Begin(h, "refresh", [op |-> "revoke", browser |-> b, token |-> cookie[b]])
  /\ UNCHANGED <<users, admins, tokens, cookie, history>>

(* refresh, first await: the stored token is neither revoked nor expired.  *)
RefreshFind(h, b) ==
  /\ cookie[b] # None
  /\ Usable(cookie[b])
  /\ Begin(h, "refresh", [op |-> "revoke", browser |-> b, token |-> cookie[b]])
  /\ UNCHANGED <<users, admins, tokens, cookie, history>>

(* Mutant: the old token stays. *)
RefreshKeepsToken(h) ==
  LET r == req[h] IN
  /\ r.op = "revoke"
  /\ Proceed(h, [op |-> "issue", browser |-> r.browser,
                 owner |-> tokens[r.token].owner, parent |-> r.token])
  /\ UNCHANGED <<users, admins, tokens, cookie, history>>

(* Mutant: the owner's every other session is ended as well. *)
RefreshRevokesAll(h) ==
  LET r == req[h] IN
  /\ r.op = "revoke"
  /\ tokens' = [t \in Tokens |->
       IF tokens[t] # NoToken /\ tokens[t].owner = tokens[r.token].owner
       THEN [tokens[t] EXCEPT !.revoked = TRUE] ELSE tokens[t]]
  /\ Proceed(h, [op |-> "issue", browser |-> r.browser,
                 owner |-> tokens[r.token].owner, parent |-> r.token])
  /\ UNCHANGED <<users, admins, cookie, history>>

(* Rotation: the token is revoked by id alone, then the new pair is issued *)
(* to the owner, whatever became of the account (currentRoles).            *)
RefreshRevoke(h) ==
  LET r == req[h] IN
  /\ r.op = "revoke"
  /\ tokens' = [tokens EXCEPT ![r.token].revoked = TRUE]
  /\ Proceed(h, [op |-> "issue", browser |-> r.browser,
                 owner |-> tokens[r.token].owner, parent |-> r.token])
  /\ UNCHANGED <<users, admins, cookie, history>>

TokenExpires(t) ==
  /\ "expiry" \in workload
  /\ Usable(t)
  /\ tokens' = [tokens EXCEPT ![t].expired = TRUE]
  /\ UNCHANGED <<users, admins, cookie, req, workload, history, overlapped,
                 faulted>>

(* Mutant: the cookie is cleared and the token left alone. *)
LogoutClearsOnly(h, b) ==
  /\ cookie[b] # None
  /\ Begin(h, "logout", [op |-> "respond", browser |-> b, cookie |-> None])
  /\ closed' = closed \cup {cookie[b]}
  /\ UNCHANGED <<users, admins, tokens, cookie, wrong>>

(* logout: the token the browser sent is revoked; one already revoked is   *)
(* not an error.                                                           *)
Logout(h, b) ==
  /\ cookie[b] # None
  /\ tokens' = [tokens EXCEPT ![cookie[b]].revoked = TRUE]
  /\ Begin(h, "logout", [op |-> "respond", browser |-> b, cookie |-> None])
  /\ closed' = closed \cup {cookie[b]}
  /\ UNCHANGED <<users, admins, cookie, wrong>>

-----------------------------------------------------------------------------
(* changePassword, its check: the current password is right. *)
ChangePasswordVerify(h, a, current, new) ==
  /\ LiveAdmin(a)
  /\ admins[a].password = current
  /\ Begin(h, "admins", [op |-> "password", admin |-> a, password |-> new])
  /\ UNCHANGED <<users, admins, tokens, cookie, history>>

ChangePasswordUpdate(h) ==
  LET r == req[h] IN
  /\ r.op = "password"
  /\ admins' = [admins EXCEPT ![r.admin].password = r.password]
  /\ Finish(h)
  /\ UNCHANGED <<users, tokens, cookie, history>>

AuthNext ==
  \/ \E h \in Slots :
       \/ \E b \in Browsers, e \in Emails, p \in Passwords :
            \/ RegisterFind(h, b, e, p)
            \/ LoginFindUser(h, b, e, p)
            \/ LoginFindNoUser(h, b, e, p)
       \/ RegisterCommit(h)
       \/ LoginFindAdmin(h)
       \/ LoginFail(h)
       \/ LoginSucceed(h)
       \/ IssueTokenPair(h)
       \/ Respond(h)
       \/ \E b \in Browsers : RefreshFind(h, b) \/ Logout(h, b)
       \/ RefreshRevoke(h)
       \/ \E a \in Admins, current, new \in Passwords :
            ChangePasswordVerify(h, a, current, new)
       \/ ChangePasswordUpdate(h)
  \/ \E u \in Users : LockExpires(u)
  \/ \E t \in Tokens : TokenExpires(t)
=============================================================================
