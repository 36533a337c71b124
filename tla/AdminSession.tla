---------------------------- MODULE AdminSession ----------------------------
(***************************************************************************)
(* The session of one administration tab: AuthContext.tsx, the token store *)
(* and the silent refresh of authFetch.ts, against the tokens the API has  *)
(* issued.  The API's side of a refresh is one step here (AuthService has  *)
(* its awaits); what is split is the answer from its arrival, because the  *)
(* browser keeps the cookie and the tab the access token only then.        *)
(*                                                                         *)
(* A refresh token and the access token issued with it share one id, and   *)
(* the type of the account they belong to.                                 *)
(***************************************************************************)
EXTENDS Access, Naturals

CONSTANTS
  Fetches,     \* the data calls a page may have in flight
  MaxTokens    \* bound: token pairs issued

VARIABLES
  authStatus,  \* AuthContext: "loading", "authenticated", "unauthenticated"
  store,       \* token-store.ts: the access token calls carry, or NoToken
  cookie,      \* the refresh_token cookie of the browser, or NoToken
  sessions,    \* the refresh tokens the API would rotate
  unexpired,   \* the access tokens the API would accept
  issued,      \* token pairs issued so far
  calls,       \* what each caller awaits
  failedCall,  \* history: some data call ended in an error
  disturbed    \* history: calls overlapped, or an answer was lost

sessionVars == <<authStatus, store, cookie, sessions, unexpired, issued, calls,
                 failedCall, disturbed>>

NoToken == [id |-> 0, type |-> "none"]
Token == [id : 1 .. MaxTokens, type : {"admin", "user"}]
NotWaiting == [at |-> "idle"]

(* The AuthContext has one request in flight, the page up to |Fetches|.    *)
Context == "context"
Callers == Fetches \cup {Context}

ASSUME FetchesAssumption == Context \notin Fetches
ASSUME TokensAssumption == MaxTokens \in Nat /\ MaxTokens >= 2

Await(c, at, token) == calls' = [calls EXCEPT ![c] = [at |-> at, token |-> token]]
Return(c) == calls' = [calls EXCEPT ![c] = NotWaiting]
At(c, places) == calls[c].at \in places

Start(c, at, token) ==
  /\ At(c, {"idle"})
  /\ Await(c, at, token)
  /\ disturbed' = (disturbed \/ \E d \in Callers : ~ At(d, {"idle"}))

Issue(type) ==
  /\ issued < MaxTokens
  /\ issued' = issued + 1
  /\ unexpired' = unexpired \cup {[id |-> issued + 1, type |-> type]}

Fresh(type) == [id |-> issued + 1, type |-> type]
-----------------------------------------------------------------------------
(* The tab opens, or is reloaded, with whatever cookie the browser has.    *)
Open ==
  /\ authStatus' = "loading"
  /\ store' = NoToken
  /\ calls' = [c \in Callers |->
                 IF c = Context THEN [at |-> "refresh", token |-> cookie]
                                ELSE NotWaiting]
  /\ disturbed' = (disturbed \/ \E c \in Callers : ~ At(c, {"idle"}))
  /\ UNCHANGED <<cookie, sessions, unexpired, issued, failedCall>>

Reload == authStatus # "loading" /\ Open

(* POST /auth/refresh: the cookie's token is revoked and a new pair issued. *)
ServerRefresh(c) ==
  LET old == calls[c].token IN
  /\ At(c, {"refresh"})
  /\ old \in sessions
  /\ Issue(old.type)
  /\ sessions' = (sessions \ {old}) \cup {Fresh(old.type)}
  /\ Await(c, "rotated", Fresh(old.type))
  /\ UNCHANGED <<authStatus, store, cookie, failedCall, disturbed>>

(* Mutant: the refreshed access token is not put in the store. *)
FetchRefreshedNotStored(c) ==
  /\ c \in Fetches
  /\ At(c, {"rotated"})
  /\ cookie' = calls[c].token
  /\ Await(c, "retry", store)
  /\ UNCHANGED <<authStatus, store, sessions, unexpired, issued, failedCall, disturbed>>

(* authedFetch: the answer stores both tokens, and the call is retried.    *)
FetchRefreshed(c) ==
  /\ c \in Fetches
  /\ At(c, {"rotated"})
  /\ cookie' = calls[c].token
  /\ store' = calls[c].token
  /\ Await(c, "retry", store')
  /\ UNCHANGED <<authStatus, sessions, unexpired, issued, failedCall, disturbed>>

(* restoreSession: the profile is asked for with the new access token.     *)
RestoreRefreshed ==
  /\ At(Context, {"rotated"})
  /\ cookie' = calls[Context].token
  /\ Await(Context, "me", calls[Context].token)
  /\ UNCHANGED <<authStatus, store, sessions, unexpired, issued, failedCall, disturbed>>

(* An administrator is signed in; another account is logged out.           *)
RestoreProfile ==
  LET token == calls[Context].token IN
  /\ At(Context, {"me"})
  /\ IF token.type = "admin"
       THEN /\ store' = token
            /\ authStatus' = "authenticated"
            /\ Return(Context)
       ELSE /\ Await(Context, "logout", cookie)
            /\ UNCHANGED <<store, authStatus>>
  /\ UNCHANGED <<cookie, sessions, unexpired, issued, failedCall, disturbed>>

RestoreRefused ==
  /\ At(Context, {"refresh"})
  /\ calls[Context].token \notin sessions
  /\ authStatus' = "unauthenticated"
  /\ Return(Context)
  /\ UNCHANGED <<store, cookie, sessions, unexpired, issued, failedCall, disturbed>>
-----------------------------------------------------------------------------
FetchSend(c) ==
  /\ authStatus = "authenticated"
  /\ Start(c, "sent", store)
  /\ UNCHANGED <<authStatus, store, cookie, sessions, unexpired, issued, failedCall>>

(* Whatever the page asks for, its handler must admit an administrator.    *)
FetchServed(c) ==
  LET user == [type |-> calls[c].token.type, roles |-> RolesOf(calls[c].token.type)] IN
  /\ At(c, {"sent", "retry"})
  /\ calls[c].token \in unexpired
  /\ failedCall' = (failedCall \/ \E route \in AdminRoutes : ~ Admits(route, user))
  /\ Return(c)
  /\ UNCHANGED <<authStatus, store, cookie, sessions, unexpired, issued, disturbed>>

(* A 401 of the first attempt asks for a refresh with the cookie of now.   *)
FetchUnauthorized(c) ==
  /\ At(c, {"sent"})
  /\ calls[c].token \notin unexpired
  /\ Await(c, "refresh", cookie)
  /\ UNCHANGED <<authStatus, store, cookie, sessions, unexpired, issued, failedCall,
                 disturbed>>

(* A 401 of the refresh or of the second attempt reaches the page.         *)
FetchFails(c) ==
  /\ c \in Fetches
  /\ \/ At(c, {"refresh"}) /\ calls[c].token \notin sessions
     \/ At(c, {"retry"}) /\ calls[c].token \notin unexpired
  /\ failedCall' = TRUE
  /\ Return(c)
  /\ UNCHANGED <<authStatus, store, cookie, sessions, unexpired, issued, disturbed>>
-----------------------------------------------------------------------------
LoginSend(type) ==
  /\ authStatus = "unauthenticated"
  /\ Start(Context, "login", [id |-> 0, type |-> type])
  /\ UNCHANGED <<authStatus, store, cookie, sessions, unexpired, issued, failedCall>>

ServerLogin ==
  LET type == calls[Context].token.type IN
  /\ At(Context, {"login"})
  /\ Issue(type)
  /\ sessions' = sessions \cup {Fresh(type)}
  /\ Await(Context, "loggedIn", Fresh(type))
  /\ UNCHANGED <<authStatus, store, cookie, failedCall, disturbed>>

(* Mutant: the account that is no administrator's stays logged in. *)
LoginArrivesAnyone ==
  LET token == calls[Context].token IN
  /\ At(Context, {"loggedIn"})
  /\ cookie' = token
  /\ Return(Context)
  /\ store' = IF token.type = "admin" THEN token ELSE store
  /\ authStatus' = IF token.type = "admin" THEN "authenticated" ELSE authStatus
  /\ UNCHANGED <<sessions, unexpired, issued, failedCall, disturbed>>

(* login: an account that is no administrator's is logged out again.       *)
LoginArrives ==
  LET token == calls[Context].token IN
  /\ At(Context, {"loggedIn"})
  /\ cookie' = token
  /\ IF token.type = "admin"
       THEN /\ store' = token
            /\ authStatus' = "authenticated"
            /\ Return(Context)
       ELSE /\ Await(Context, "logout", token)
            /\ UNCHANGED <<store, authStatus>>
  /\ UNCHANGED <<sessions, unexpired, issued, failedCall, disturbed>>

LogoutSend ==
  /\ authStatus = "authenticated"
  /\ Start(Context, "logout", cookie)
  /\ UNCHANGED <<authStatus, store, cookie, sessions, unexpired, issued, failedCall>>

ServerLogout ==
  /\ At(Context, {"logout"})
  /\ sessions' = sessions \ {calls[Context].token}
  /\ Await(Context, "loggedOut", calls[Context].token)
  /\ UNCHANGED <<authStatus, store, cookie, unexpired, issued, failedCall, disturbed>>

(* logoutRequest().catch(() => undefined): the tab forgets the session     *)
(* whether or not the API could be told.  Outside of logout itself, only   *)
(* the status is set.                                                      *)
SignOut ==
  /\ store' = IF authStatus = "authenticated" THEN NoToken ELSE store
  /\ authStatus' = "unauthenticated"
  /\ Return(Context)

LogoutArrives ==
  /\ At(Context, {"loggedOut"})
  /\ cookie' = NoToken
  /\ SignOut
  /\ UNCHANGED <<sessions, unexpired, issued, failedCall, disturbed>>
-----------------------------------------------------------------------------
(* A request or its answer is lost: fetch rejects, and the caller's catch  *)
(* runs as for an error of the API, without a retry.                       *)
AnswerLost(c) ==
  /\ ~ At(c, {"idle"})
  /\ IF c = Context /\ (authStatus = "loading" \/ At(c, {"logout", "loggedOut"}))
       THEN SignOut
       ELSE Return(c) /\ UNCHANGED <<store, authStatus>>
  /\ failedCall' = (failedCall \/ c \in Fetches)
  /\ disturbed' = TRUE
  /\ UNCHANGED <<cookie, sessions, unexpired, issued>>

(* The access tokens of before time out; one just handed out has not.      *)
TokensExpire ==
  /\ unexpired' = {calls[c].token : c \in {d \in Callers :
                     At(d, {"rotated", "retry", "me", "loggedIn"})}}
  /\ unexpired' # unexpired
  /\ UNCHANGED <<authStatus, store, cookie, sessions, issued, calls, failedCall,
                 disturbed>>
-----------------------------------------------------------------------------
SessionInit ==
  /\ authStatus = "loading"
  /\ store = NoToken
  /\ sessions = {[id |-> 1, type |-> "admin"], [id |-> 2, type |-> "user"]}
  /\ cookie \in sessions \cup {NoToken}
  /\ unexpired = {}
  /\ issued = 2
  /\ calls = [c \in Callers |->
                IF c = Context THEN [at |-> "refresh", token |-> cookie]
                               ELSE NotWaiting]
  /\ failedCall = FALSE
  /\ disturbed = FALSE

(* What the API and the network do with a request once it is sent.         *)
Answered(c) ==
  \/ ServerRefresh(c) \/ FetchRefreshed(c) \/ FetchServed(c)
  \/ FetchUnauthorized(c) \/ FetchFails(c)
  \/ /\ c = Context
     /\ \/ RestoreRefreshed \/ RestoreProfile \/ RestoreRefused
        \/ ServerLogin \/ LoginArrives \/ ServerLogout \/ LogoutArrives

SessionNext ==
  \/ Reload
  \/ \E c \in Callers : Answered(c) \/ AnswerLost(c)
  \/ \E c \in Fetches : FetchSend(c)
  \/ \E type \in {"admin", "user"} : LoginSend(type)
  \/ LogoutSend
  \/ TokensExpire
-----------------------------------------------------------------------------
(* The type of the session's state.                                        *)
SessionTypeOK ==
  /\ authStatus \in {"loading", "authenticated", "unauthenticated"}
  /\ {store, cookie} \subseteq Token \cup {NoToken}
  /\ sessions \cup unexpired \subseteq Token
  /\ issued \in 0 .. MaxTokens
  /\ DOMAIN calls = Callers
  /\ {failedCall, disturbed} \subseteq BOOLEAN

(***************************************************************************)
(* authFetch.ts:30-32 "a page open across a token expiry doesn't need a    *)
(* manual reload": while the calls of a page follow each other and no      *)
(* answer is lost, none of them ends in an error, whenever tokens expire.  *)
(***************************************************************************)
CallsOutliveTheToken == ~ disturbed => ~ failedCall

(***************************************************************************)
(* While calls follow each other and no answer is lost, a tab that shows   *)
(* the login form holds no access token, and its browser no cookie that    *)
(* would still open a session: a logout, a refused refresh and the login   *)
(* of an account that is no administrator's all leave the tab and the API  *)
(* agreed.  Without that condition they need not be: a logout whose answer *)
(* is lost signs the tab out all the same (AuthContext.tsx:80-86) and may  *)
(* leave a cookie that opens a session, and a data call's refresh that     *)
(* comes back after the logout puts its token into the store.              *)
(***************************************************************************)
SignedOutTabIsClean ==
  ~ disturbed /\ authStatus = "unauthenticated" /\ At(Context, {"idle"}) =>
    store = NoToken /\ cookie \notin sessions

(* A tab shows "Loading..." while restoreSession is under way (and the     *)
(* bound on tokens lets it go on).                                         *)
Restoring == authStatus = "loading" /\ issued < MaxTokens
=============================================================================
