---------------------------- MODULE CustomerTab ----------------------------
(***************************************************************************)
(* One tab of the customer site: the session of AuthContext.tsx, the       *)
(* booking form (in BookingModal.tsx on a talent's page, by itself on the  *)
(* quick booking page) and the bookings of the account page, against the   *)
(* API's guards.  The site refreshes its access token when it opens and    *)
(* never again: it goes on showing who was signed in when it has expired.  *)
(*                                                                         *)
(* The API sets one refresh cookie for both front ends, so the account the *)
(* site restores may be an administrator's.  A reload starts over and is   *)
(* not modelled; one customer and all administrators have an account yet.  *)
(***************************************************************************)
EXTENDS Access

CONSTANTS
  Members,         \* accounts of customers
  Administrators   \* accounts of administrators

VARIABLES
  visitor,     \* AuthContext: status, the account shown, the access token held
  known,       \* the accounts there are
  authCalls,   \* what restoreSession, login or register, and logout await
  place,       \* the page shown
  form,        \* the booking form: "closed", "idle", "submitting", "success"
  contact,     \* the form holds a guest's name, e-mail address and phone number
  chosen,      \* the form has a talent
  request,     \* the booking request in flight, or NoBooking
  misbooked,   \* history: a booking was made as somebody the form did not show
  history,     \* BookingHistoryList: the account whose bookings it shows
  listing,     \* the access tokens of its requests in flight
  lapped       \* history: two of them were in flight at once

customerVars == <<visitor, known, authCalls, place, form, contact, chosen,
                  request, misbooked, history, listing, lapped>>
bookingForm == <<form, contact, chosen>>

Guest == "guest"
Idle == "idle"
NoBooking == [at |-> "none"]
NotListed == "nothing"
Accounts == Members \cup Administrators

ASSUME MembersAssumption == Members # {}
ASSUME AccountsAssumption ==
  {Guest, Idle, NotListed, "error"} \cap Accounts = {}

(* An access token is good for its account until it expires.               *)
NoAccess == [account |-> Guest, valid |-> FALSE]
AccessOf(account) == [account |-> account, valid |-> TRUE]
Expired(token) == [token EXCEPT !.valid = FALSE]

TypeOf(account) == IF account \in Members THEN "user" ELSE "admin"

(* Who a call with this token comes from, for the guards.                  *)
Bearer(token) ==
  IF token.valid
    THEN [type |-> TypeOf(token.account), roles |-> RolesOf(TypeOf(token.account))]
    ELSE Nobody

SignedOut == [status |-> "unauthenticated", user |-> Guest, token |-> NoAccess]
SignedInAs(account) ==
  [status |-> "authenticated", user |-> account, token |-> AccessOf(account)]

IsMember == visitor.status = "authenticated"
-----------------------------------------------------------------------------
(* The page p is shown to the visitor v.  RequireAuth sends who is not     *)
(* signed in from the account page to the login page; BookingHistoryList   *)
(* is mounted with the account page, and loads for each token it sees.     *)
ListMounted(p, v) == p = "account" /\ v.status = "authenticated"

(* Mutant: the bookings are loaded with the page, and not for a new token. *)
ShowLoadsOnce(p, v) ==
  LET there == IF p = "account" /\ v.status = "unauthenticated" THEN "login" ELSE p
      wasMounted == ListMounted(place, visitor)
      loads == ListMounted(there, v) /\ ~ wasMounted
  IN
  /\ place' = there
  /\ visitor' = v
  /\ history' = IF ListMounted(there, v) /\ wasMounted THEN history ELSE NotListed
  /\ listing' = (IF ListMounted(there, v) /\ wasMounted THEN listing ELSE {})
                   \cup (IF loads THEN {v.token} ELSE {})
  /\ lapped' = (ListMounted(there, v) /\ wasMounted
                  /\ (lapped \/ (loads /\ listing # {})))

Show(p, v) ==
  LET there == IF p = "account" /\ v.status = "unauthenticated" THEN "login" ELSE p
      wasMounted == ListMounted(place, visitor)
      loads == ListMounted(there, v) /\ ~ (wasMounted /\ v.token = visitor.token)
  IN
  /\ place' = there
  /\ visitor' = v
  /\ history' = IF ListMounted(there, v) /\ wasMounted THEN history ELSE NotListed
  /\ listing' = (IF ListMounted(there, v) /\ wasMounted THEN listing ELSE {})
                   \cup (IF loads THEN {v.token} ELSE {})
  /\ lapped' = (ListMounted(there, v) /\ wasMounted
                  /\ (lapped \/ (loads /\ listing # {})))

(* A page that is left takes its form along; the request goes on.          *)
Leave(p) ==
  IF p = place
    THEN UNCHANGED <<bookingForm, request>>
    ELSE /\ form' = IF p = "quick" THEN "idle" ELSE "closed"
         /\ contact' = FALSE
         /\ chosen' = FALSE
         /\ request' = IF request = NoBooking THEN request
                       ELSE [request EXCEPT !.mounted = FALSE]

Go(p) ==
  /\ p # place
  /\ p = "account" => IsMember
  /\ p \in {"home", "talent"} => \A r \in CatalogueRoutes : Admits(r, Nobody)
  /\ Show(p, visitor)
  /\ Leave(p)
  /\ UNCHANGED <<known, authCalls, misbooked>>
-----------------------------------------------------------------------------
Pending(name, account) ==
  authCalls' = [authCalls EXCEPT ![name] = account]
Returned(name) == Pending(name, Idle)

(* The tab opens: refresh and me, with the cookie there is, or without one *)
(* (Guest) when the refresh is refused.                                    *)
Restored ==
  LET account == authCalls["restore"] IN
  /\ account \in Accounts
  /\ Admits(AuthController["refresh"], Nobody)
  /\ Admits(AuthController["me"], Bearer(AccessOf(account)))
  /\ Show(place, SignedInAs(account))
  /\ Returned("restore")
  /\ UNCHANGED <<known, bookingForm, request, misbooked>>

(* catch: only the status is set, and RequireAuth leaves the account page.  *)
Unrestored == [visitor EXCEPT !.status = "unauthenticated"]
PageUnrestored == IF place = "account" THEN "login" ELSE place

NotRestored ==
  /\ authCalls["restore"] # Idle
  /\ Show(PageUnrestored, Unrestored) /\ Leave(PageUnrestored)
  /\ Returned("restore")
  /\ UNCHANGED <<known, misbooked>>

(* LoginForm and RegisterForm: the button is disabled meanwhile.           *)
SignIn(account) ==
  /\ place = "login" /\ authCalls["login"] = Idle
  /\ account \in known
  /\ Pending("login", account)
  /\ UNCHANGED <<visitor, known, place, bookingForm, request, misbooked, history,
                 listing, lapped>>

Register(account) ==
  /\ place = "login" /\ authCalls["login"] = Idle
  /\ account \in Members \ known
  /\ known' = known \cup {account}
  /\ Pending("login", account)
  /\ UNCHANGED <<visitor, place, bookingForm, request, misbooked, history, listing,
                 lapped>>

(* The answer signs in and goes to the account page, wherever the visitor  *)
(* has gone meanwhile.                                                     *)
SignInArrives ==
  LET account == authCalls["login"] IN
  /\ account # Idle
  /\ Admits(AuthController["login"], Nobody)
  /\ Show("account", SignedInAs(account))
  /\ Leave("account")
  /\ Returned("login")
  /\ UNCHANGED <<known, misbooked>>

AuthFails(name) ==
  /\ authCalls[name] # Idle
  /\ Returned(name)
  /\ UNCHANGED <<visitor, known, place, bookingForm, request, misbooked, history,
                 listing, lapped>>

SignOutSend ==
  /\ ListMounted(place, visitor) /\ authCalls["logout"] = Idle
  /\ Pending("logout", visitor.user)
  /\ UNCHANGED <<visitor, known, place, bookingForm, request, misbooked, history,
                 listing, lapped>>

(* The answer, or none: the tab is signed out and goes home.               *)
SignOutArrives ==
  /\ authCalls["logout"] # Idle
  /\ Show("home", SignedOut)
  /\ Leave("home")
  /\ Returned("logout")
  /\ UNCHANGED <<known, misbooked>>

(* The access token expires, wherever it is.                               *)
TokenExpires ==
  /\ visitor.token.valid
  /\ visitor' = [visitor EXCEPT !.token = Expired(@)]
  /\ listing' = {Expired(t) : t \in listing}
  /\ request' = IF request = NoBooking THEN request
                ELSE [request EXCEPT !.token = Expired(@)]
  /\ UNCHANGED <<known, authCalls, place, bookingForm, misbooked, history, lapped>>
-----------------------------------------------------------------------------
OpenModal ==
  /\ place = "talent" /\ form = "closed"
  /\ form' = "idle"
  /\ chosen' = TRUE
  /\ UNCHANGED <<visitor, known, authCalls, place, contact, request, misbooked,
                 history, listing, lapped>>

(* Escape, the backdrop or the cross: the form goes, its request does not. *)
CloseModal ==
  /\ place = "talent" /\ form # "closed"
  /\ form' = "closed"
  /\ contact' = FALSE
  /\ chosen' = FALSE
  /\ request' = IF request = NoBooking THEN request
                ELSE [request EXCEPT !.mounted = FALSE]
  /\ UNCHANGED <<visitor, known, authCalls, place, misbooked, history, listing, lapped>>

(* The guest's fields are there while nobody is known to be signed in, and *)
(* keep what was typed when somebody is.                                   *)
TypeContact ==
  /\ form = "idle" /\ ~ IsMember /\ ~ contact
  /\ contact' = TRUE
  /\ UNCHANGED <<visitor, known, authCalls, place, form, chosen, request, misbooked,
                 history, listing, lapped>>

(* QuickBookingPageContent: one of the talents offered, if they could load. *)
ChooseTalent ==
  /\ place = "quick" /\ form = "idle" /\ ~ chosen
  /\ Admits(PublicTalentController["findAll"], Nobody)
  /\ chosen' = TRUE
  /\ UNCHANGED <<visitor, known, authCalls, place, form, contact, request, misbooked,
                 history, listing, lapped>>

(* Mutant: the guest's fields are sent with or without a token. *)
SubmitBookingEverything ==
  /\ form = "idle"
  /\ request = NoBooking
  /\ IsMember \/ contact
  /\ form' = "submitting"
  /\ request' = [at |-> "API", page |-> place, mounted |-> TRUE, chosen |-> chosen,
                 token |-> IF IsMember THEN visitor.token ELSE NoAccess,
                 contact |-> contact,
                 shown |-> IF IsMember THEN visitor.user ELSE Guest]
  /\ UNCHANGED <<visitor, known, authCalls, place, contact, chosen, misbooked,
                 history, listing, lapped>>

(* handleSubmit: with a token the guest's fields stay behind.  (Bound: one *)
(* request at a time, which the site leaves to the visitor's patience.)    *)
SubmitBooking ==
  /\ form = "idle"
  /\ request = NoBooking
  /\ IsMember \/ contact
  /\ form' = "submitting"
  /\ request' = [at |-> "API", page |-> place, mounted |-> TRUE, chosen |-> chosen,
                 token |-> IF IsMember THEN visitor.token ELSE NoAccess,
                 contact |-> ~ IsMember,
                 shown |-> IF IsMember THEN visitor.user ELSE Guest]
  /\ UNCHANGED <<visitor, known, authCalls, place, contact, chosen, misbooked,
                 history, listing, lapped>>

(* BookingService.create: whoever is no customer is a guest.               *)
Booker(r) ==
  IF Bearer(r.token).type = "user" THEN r.token.account ELSE Guest

CreateServed ==
  /\ request.at = "API"
  /\ Admits(BookingController["create"], Bearer(request.token))
  /\ request.chosen
  /\ Booker(request) = Guest => request.contact
  /\ misbooked' = (misbooked \/ Booker(request) # request.shown)
  /\ request' = [request EXCEPT !.at = "back"]
  /\ UNCHANGED <<visitor, known, authCalls, place, bookingForm, history, listing,
                 lapped>>

(* The quick booking page goes on to the confirmation, from whatever page  *)
(* is shown by now; the confirmation is one of those that stand as "home". *)
CreateArrives ==
  /\ request.at = "back"
  /\ request' = NoBooking
  /\ IF request.page = "quick"
       THEN /\ Show("home", visitor)
            /\ form' = "closed" /\ contact' = FALSE /\ chosen' = FALSE
       ELSE /\ form' = IF request.mounted THEN "success" ELSE form
            /\ UNCHANGED <<contact, chosen, visitor, place, history, listing, lapped>>
  /\ UNCHANGED <<known, authCalls, misbooked>>

(* Refused, or the answer lost: the form is there to be sent again.        *)
CreateFails ==
  /\ request # NoBooking
  /\ request' = NoBooking
  /\ form' = IF request.mounted THEN "idle" ELSE form
  /\ UNCHANGED <<visitor, known, authCalls, place, contact, chosen, misbooked,
                 history, listing, lapped>>
-----------------------------------------------------------------------------
(* GET /me/bookings: findAllForUser lists the rows of the token's account. *)
ListArrives(token) ==
  /\ token \in listing
  /\ listing' = listing \ {token}
  /\ history' = IF \A r \in MemberRoutes : Admits(r, Bearer(token))
                  THEN token.account ELSE "error"
  /\ UNCHANGED <<visitor, known, authCalls, place, bookingForm, request, misbooked,
                 lapped>>
-----------------------------------------------------------------------------
CustomerInit ==
  /\ known = Administrators \cup {CHOOSE m \in Members : TRUE}
  /\ visitor = [SignedOut EXCEPT !.status = "loading"]
  /\ \E cookie \in known \cup {Guest} :
       authCalls = [restore |-> cookie, login |-> Idle, logout |-> Idle]
  /\ place = "home"
  /\ form = "closed"
  /\ contact = FALSE
  /\ chosen = FALSE
  /\ request = NoBooking
  /\ misbooked = FALSE
  /\ history = NotListed
  /\ listing = {}
  /\ lapped = FALSE

CustomerNext ==
  \/ Restored \/ NotRestored \/ SignInArrives \/ SignOutArrives
  \/ CreateServed \/ CreateArrives \/ CreateFails
  \/ \E token \in listing : ListArrives(token)
  \/ \E p \in {"home", "talent", "quick", "login", "account"} : Go(p)
  \/ \E a \in Accounts : SignIn(a) \/ Register(a)
  \/ AuthFails("login")
  \/ SignOutSend \/ TokenExpires
  \/ OpenModal \/ CloseModal \/ TypeContact \/ ChooseTalent \/ SubmitBooking

(* The type of the tab's state.                                            *)
CustomerTypeOK ==
  /\ visitor.status \in {"loading", "authenticated", "unauthenticated"}
  /\ {visitor.user} \cup {authCalls[name] : name \in DOMAIN authCalls}
        \subseteq Accounts \cup {Guest, Idle}
  /\ known \subseteq Accounts
  /\ place \in {"home", "talent", "quick", "login", "account"}
  /\ form \in {"closed", "idle", "submitting", "success"}
  /\ {contact, chosen, misbooked, lapped} \subseteq BOOLEAN
  /\ history \in Accounts \cup {NotListed, "error"}

(***************************************************************************)
(* A form that said "Booking as" somebody has not made a guest's booking,  *)
(* nor anybody else's, and one that asked for a guest's contact not a      *)
(* member's: though the token it sent may have expired, the session been   *)
(* restored or replaced and the form closed before the API read it.        *)
(***************************************************************************)
BookedAsShown == ~ misbooked

(***************************************************************************)
(* The account page lists the bookings of the account it names, once they  *)
(* are loaded, though another account may have signed in on that page.     *)
(* The limit is lapped: the list cancels no request, so when it had two in *)
(* flight at once, for an older and a newer account, it shows whichever    *)
(* answer came last (BookingHistoryList.tsx:24-32).                        *)
(***************************************************************************)
ListNamesItsOwner ==
  ListMounted(place, visitor) /\ listing = {} /\ ~ lapped /\ history \in Accounts =>
    history = visitor.user
=============================================================================
