-------------------------- MODULE FrontEnd_proofs --------------------------
(***************************************************************************)
(* Proofs about the pages of FrontEnd, one by one: the talent form, for    *)
(* any cities, locations and categories; the customer site, for any        *)
(* accounts; the session of an administration tab, for any number of data  *)
(* calls and of tokens; the dialogs, for any entries; the lists, for any   *)
(* rows, page length and loads; the gallery, for any images and handlers;  *)
(* and the checkout's types.  A step of another page leaves their          *)
(* variables alone.  At the end, what holds of all the pages together.     *)
(***************************************************************************)
EXTENDS FrontEnd, FiniteSetTheorems, SequenceTheorems, TLAPS

-----------------------------------------------------------------------------
(***************************************************************************)
(* TalentForm.  The list of locations offered is that of the city shown    *)
(* unless one is awaited, because every other request is cancelled.        *)
(***************************************************************************)
AskedForCity == \A r \in requests : ~ r.cancelled => r.city = values.city

OffersCity == ~ ListPending => \A l \in locations : CityOf[l] = values.city

AllExplained ==
  /\ Explained(talent)
  /\ Explained(values)
  /\ submitted # NoPayload => Explained(submitted)

FormInv == FormTypeOK /\ AskedForCity /\ OffersCity /\ AllExplained

LEMMA FormTypes ==
  ASSUME FormTypeOK
  PROVE  /\ talent \in Values /\ values \in Values
         /\ submitted # NoPayload => submitted \in Values
         /\ locations \subseteq Locations
         /\ \A r \in requests : r \in [city : Cities, cancelled : BOOLEAN]
         /\ listed \subseteq SubCategories
  BY TreeAssumption DEF FormTypeOK

LEMMA ValuesFields ==
  ASSUME NEW v \in Values
  PROVE  /\ v.city \in Cities
         /\ v.location \in Locations \cup {None}
         /\ v.categories \subseteq Categories
         /\ v.subCategories \subseteq SubCategories
  BY DEF Values

(* The values with some fields set anew.                                   *)
LEMMA FieldSet ==
  ASSUME NEW v \in Values
  PROVE  /\ \A c \in Cities, l \in Locations \cup {None} :
              [v EXCEPT !.city = c, !.location = l] \in Values
         /\ \A l \in Locations \cup {None} : [v EXCEPT !.location = l] \in Values
         /\ \A cats \in SUBSET Categories, subs \in SUBSET SubCategories :
              [v EXCEPT !.categories = cats, !.subCategories = subs] \in Values
         /\ \A cats \in SUBSET Categories : [v EXCEPT !.categories = cats] \in Values
         /\ \A subs \in SUBSET SubCategories :
              [v EXCEPT !.subCategories = subs] \in Values
  BY DEF Values

LEMMA ChooseCityStep ==
  ASSUME FormInv, NEW c \in Cities, ChooseCity(c)
  PROVE  FormInv'
<1>1. PICK v \in Values : v = [values EXCEPT !.city = c, !.location = None]
  BY FormTypes, FieldSet DEF FormInv
<1>2. /\ v.city = c /\ v.location = None
      /\ v.categories = values.categories
      /\ v.subCategories = values.subCategories
  BY <1>1, FormTypes DEF FormInv, Values
<1>3. /\ values' = v
      /\ requests' = Cancelled(requests) \cup {[city |-> c, cancelled |-> FALSE]}
      /\ UNCHANGED <<talent, locations, listed, subsAsked, submitted, strays>>
  BY <1>1 DEF ChooseCity
<1>4. \A r \in Cancelled(requests) :
        r \in [city : Cities, cancelled : BOOLEAN] /\ r.cancelled = TRUE
  BY FormTypes DEF FormInv, Cancelled
<1>5. FormTypeOK'
  <2>1. [city |-> c, cancelled |-> FALSE] \in [city : Cities, cancelled : BOOLEAN]
    OBVIOUS
  <2>2. requests' \subseteq [city : Cities, cancelled : BOOLEAN]
    BY <1>3, <1>4, <2>1
  <2>3. QED BY <1>3, <2>2 DEF FormInv, FormTypeOK
<1>6. AskedForCity'
  BY <1>2, <1>3, <1>4 DEF AskedForCity
<1>7. OffersCity'
  <2>1. [city |-> c, cancelled |-> FALSE] \in requests'
    BY <1>3
  <2>2. ListPending'
    BY <2>1 DEF ListPending
  <2>3. QED BY <2>2 DEF OffersCity
<1>8. AllExplained'
  BY <1>2, <1>3 DEF FormInv, AllExplained, Explained
<1>9. QED BY <1>5, <1>6, <1>7, <1>8 DEF FormInv

(* A list comes, or fails to; one of a request that was cancelled is       *)
(* dropped.                                                                *)
LEMMA ListAnsweredStep ==
  ASSUME FormInv, NEW r \in requests, LocationsArrive(r) \/ LocationsFail(r)
  PROVE  FormInv'
<1>1. /\ requests' = requests \ {r}
      /\ UNCHANGED <<talent, values, listed, subsAsked, submitted, strays>>
      /\ \/ locations' = locations /\ r.cancelled
         \/ ~ r.cancelled /\ \A l \in locations' : l \in Locations /\ CityOf[l] = r.city
  BY DEF LocationsArrive, LocationsFail
<1>2. FormTypeOK'
  BY <1>1, FormTypes DEF FormInv, FormTypeOK
<1>3. AskedForCity'
  BY <1>1 DEF FormInv, AskedForCity
<1>4. OffersCity'
  <2> SUFFICES ASSUME ~ ListPending', NEW l \in locations'
               PROVE  CityOf[l] = values.city
    BY <1>1 DEF OffersCity
  <2>1. CASE r.cancelled
    <3>1. \A q \in requests : q.cancelled
      BY <1>1, <2>1 DEF ListPending
    <3>2. locations' = locations
      BY <1>1, <2>1
    <3>3. QED BY <3>1, <3>2 DEF FormInv, OffersCity, ListPending
  <2>2. CASE ~ r.cancelled
    BY <1>1, <2>2 DEF FormInv, AskedForCity
  <2>3. QED BY <2>1, <2>2
<1>5. AllExplained'
  BY <1>1 DEF FormInv, AllExplained, Explained
<1>6. QED BY <1>2, <1>3, <1>4, <1>5 DEF FormInv

(* A location of the list offered when none is awaited is in the city.     *)
LEMMA ChooseLocationStep ==
  ASSUME FormInv, NEW l \in Locations \cup {None}, ChooseLocation(l)
  PROVE  FormInv'
<1>1. PICK v \in Values : v = [values EXCEPT !.location = l]
  BY FormTypes, FieldSet DEF FormInv
<1>2. /\ v.city = values.city /\ v.location = l
      /\ v.categories = values.categories
      /\ v.subCategories = values.subCategories
  BY <1>1, FormTypes DEF FormInv, Values
<1>3. /\ values' = v
      /\ strays' = IF l # None /\ (ListPending \/ l \notin locations)
                     THEN strays \cup {l} ELSE strays
      /\ UNCHANGED <<talent, locations, requests, listed, subsAsked, submitted>>
  BY <1>1 DEF ChooseLocation
<1>4. strays \subseteq strays' /\ strays' \subseteq Locations \cup SubCategories
  <2>1. strays \subseteq Locations \cup SubCategories /\ (l # None => l \in Locations)
    BY DEF FormInv, FormTypeOK
  <2>2. QED BY <1>3, <2>1
<1>5. FormTypeOK'
  BY <1>3, <1>4 DEF FormInv, FormTypeOK
<1>6. AskedForCity' /\ OffersCity'
  BY <1>2, <1>3 DEF FormInv, AskedForCity, OffersCity, ListPending
<1>7. l # None /\ CityOf[l] # values.city => l \in strays'
  BY <1>3 DEF FormInv, OffersCity
<1>8. AllExplained'
  BY <1>2, <1>3, <1>4, <1>7 DEF FormInv, AllExplained, Explained
<1>9. QED BY <1>5, <1>6, <1>8 DEF FormInv

-----------------------------------------------------------------------------
(* A choice of tags leaves the places alone.                               *)
LEMMA TagStep ==
  ASSUME FormInv, NEW v \in Values, values' = v, v.city = values.city,
         v.location = values.location,
         UNCHANGED <<talent, locations, requests, listed, subsAsked, submitted>>,
         strays \subseteq strays', strays' \subseteq Locations \cup SubCategories,
         \A s \in v.subCategories :
           \/ s \in values.subCategories
                /\ (ParentOf[s] \in values.categories => ParentOf[s] \in v.categories)
           \/ ParentOf[s] \in v.categories
           \/ s \in strays'
  PROVE  FormInv'
<1>1. FormTypeOK'
  BY DEF FormInv, FormTypeOK
<1>2. AskedForCity' /\ OffersCity'
  BY DEF FormInv, AskedForCity, OffersCity, ListPending
<1>3. AllExplained'
  BY DEF FormInv, AllExplained, Explained
<1>4. QED BY <1>1, <1>2, <1>3 DEF FormInv

LEMMA TagsStep ==
  ASSUME FormInv, TagsNext
  PROVE  FormInv'
<1>1. /\ values \in Values /\ listed \subseteq SubCategories
      /\ strays \subseteq Locations \cup SubCategories
  BY FormTypes DEF FormInv, FormTypeOK
<1>2. ASSUME NEW c \in Categories, AddCategory(c)
      PROVE  FormInv'
  <2>1. PICK v \in Values : v = [values EXCEPT !.categories = @ \cup {c}]
    BY <1>1, FieldSet, ValuesFields
  <2>2. /\ v.city = values.city /\ v.location = values.location
        /\ v.categories = values.categories \cup {c}
        /\ v.subCategories = values.subCategories
    BY <1>1, <2>1 DEF Values
  <2>3. /\ values' = v /\ strays' = strays
        /\ UNCHANGED <<talent, locations, requests, listed, subsAsked, submitted>>
    BY <1>2, <2>1 DEF AddCategory
  <2>4. QED BY <1>1, <2>2, <2>3, TagStep
<1>3. ASSUME NEW c \in Categories, RemoveCategory(c)
      PROVE  FormInv'
  <2> DEFINE dropped == {s \in values.subCategories \cap listed : ParentOf[s] = c}
  <2>1. PICK v \in Values :
          v = [values EXCEPT !.categories = @ \ {c},
                             !.subCategories = @ \ dropped]
    BY <1>1, FieldSet, ValuesFields
  <2>2. /\ v.city = values.city /\ v.location = values.location
        /\ v.categories = values.categories \ {c}
        /\ v.subCategories = values.subCategories \ dropped
    BY <1>1, <2>1 DEF Values
  <2>3. /\ values' = v
        /\ strays' = strays \cup {s \in values.subCategories \ listed : ParentOf[s] = c}
        /\ UNCHANGED <<talent, locations, requests, listed, subsAsked, submitted>>
    BY <1>3, <2>1 DEF RemoveCategory
  <2>4. values.subCategories \subseteq SubCategories
    BY <1>1, ValuesFields
  <2>5. strays \subseteq strays' /\ strays' \subseteq Locations \cup SubCategories
    BY <1>1, <2>3, <2>4
  <2>6. ASSUME NEW s \in v.subCategories
        PROVE  /\ s \in values.subCategories
               /\ ParentOf[s] = c => s \in strays'
               /\ ParentOf[s] \in values.categories /\ ParentOf[s] # c
                    => ParentOf[s] \in v.categories
    BY <2>2, <2>3
  <2>7. QED BY <2>2, <2>3, <2>5, <2>6, TagStep
<1>4. ASSUME NEW s \in SubCategories, AddSubCategory(s)
      PROVE  FormInv'
  <2>1. PICK v \in Values : v = [values EXCEPT !.subCategories = @ \cup {s}]
    BY <1>1, FieldSet, ValuesFields
  <2>2. /\ v.city = values.city /\ v.location = values.location
        /\ v.categories = values.categories
        /\ v.subCategories = values.subCategories \cup {s}
    BY <1>1, <2>1 DEF Values
  <2>3. /\ values' = v /\ strays' = strays /\ ParentOf[s] \in values.categories
        /\ UNCHANGED <<talent, locations, requests, listed, subsAsked, submitted>>
    BY <1>4, <2>1 DEF AddSubCategory
  <2>4. QED BY <1>1, <2>2, <2>3, TagStep
<1>5. ASSUME NEW s \in SubCategories, RemoveSubCategory(s)
      PROVE  FormInv'
  <2>1. PICK v \in Values : v = [values EXCEPT !.subCategories = @ \ {s}]
    BY <1>1, FieldSet, ValuesFields
  <2>2. /\ v.city = values.city /\ v.location = values.location
        /\ v.categories = values.categories
        /\ v.subCategories = values.subCategories \ {s}
    BY <1>1, <2>1 DEF Values
  <2>3. /\ values' = v /\ strays' = strays
        /\ UNCHANGED <<talent, locations, requests, listed, subsAsked, submitted>>
    BY <1>5, <2>1 DEF RemoveSubCategory
  <2>4. QED BY <1>1, <2>2, <2>3, TagStep
<1>6. ASSUME SubCategoriesArrive
      PROVE  FormInv'
  <2>1. FormTypeOK'
    BY <1>6 DEF SubCategoriesArrive, FormInv, FormTypeOK
  <2>2. QED
    BY <1>6, <2>1 DEF SubCategoriesArrive, FormInv, AskedForCity, OffersCity,
                      ListPending, AllExplained, Explained
<1>7. QED BY <1>2, <1>3, <1>4, <1>5, <1>6 DEF TagsNext

-----------------------------------------------------------------------------
(* What is saved is the form's, or keeps a location the form had cleared.  *)
LEMMA SaveStep ==
  ASSUME FormInv, SaveNext
  PROVE  FormInv'
<1>1. ASSUME Submit
      PROVE  FormInv'
  <2>1. FormTypeOK'
    BY <1>1, FormTypes DEF Submit, FormInv, FormTypeOK
  <2>2. QED
    BY <1>1, <2>1 DEF Submit, FormInv, AskedForCity, OffersCity, ListPending,
                      AllExplained, Explained
<1>2. ASSUME SubmitArrives
      PROVE  FormInv'
  <2>1. submitted \in Values /\ talent \in Values
    BY <1>2, FormTypes DEF FormInv, SubmitArrives
  <2>2. PICK l \in Locations \cup {None} :
          /\ l = IF submitted.location = None THEN talent.location
                 ELSE submitted.location
    BY <2>1, ValuesFields
  <2>3. PICK t \in Values : t = [submitted EXCEPT !.location = l]
    BY <2>1, FieldSet
  <2>4. /\ t.city = submitted.city /\ t.location = l
        /\ t.categories = submitted.categories
        /\ t.subCategories = submitted.subCategories
    BY <2>1, <2>3 DEF Values
  <2>5. talent' = t
    BY <1>2, <2>1, <2>2, <2>3 DEF SubmitArrives, Patched
  <2>6. /\ submitted' = NoPayload
        /\ strays' = IF l # submitted.location THEN strays \cup {l} ELSE strays
        /\ UNCHANGED <<values, locations, requests, listed, subsAsked>>
    BY <1>2, <2>4, <2>5 DEF SubmitArrives
  <2>7. l # submitted.location => l \in Locations
    BY <2>1, <2>2, ValuesFields
  <2>8. strays \subseteq strays' /\ strays' \subseteq Locations \cup SubCategories
    <3>1. strays \subseteq Locations \cup SubCategories
      BY DEF FormInv, FormTypeOK
    <3>2. QED BY <2>6, <2>7, <3>1
  <2>9. FormTypeOK'
    BY <2>5, <2>6, <2>8 DEF FormInv, FormTypeOK
  <2>10. AskedForCity' /\ OffersCity'
    BY <2>6 DEF FormInv, AskedForCity, OffersCity, ListPending
  <2>11. Explained(submitted) /\ Explained(values)
    BY <1>2 DEF FormInv, AllExplained, SubmitArrives
  <2>12. AllExplained'
    BY <2>4, <2>5, <2>6, <2>8, <2>11 DEF AllExplained, Explained
  <2>13. QED BY <2>9, <2>10, <2>12 DEF FormInv
<1>3. ASSUME SubmitFails
      PROVE  FormInv'
  <2>1. FormTypeOK'
    BY <1>3 DEF SubmitFails, FormInv, FormTypeOK
  <2>2. QED
    BY <1>3, <2>1 DEF SubmitFails, FormInv, AskedForCity, OffersCity, ListPending,
                      AllExplained, Explained
<1>4. ASSUME Reopen
      PROVE  FormInv'
  <2>1. talent.city \in Cities
    BY FormTypes, ValuesFields DEF FormInv
  <2>2. [city |-> talent.city, cancelled |-> FALSE]
          \in [city : Cities, cancelled : BOOLEAN]
    BY <2>1
  <2>3. /\ values' = talent /\ locations' = {}
        /\ requests' = {[city |-> talent.city, cancelled |-> FALSE]}
        /\ listed' = {} /\ subsAsked' = TRUE
        /\ UNCHANGED <<talent, submitted, strays>>
    BY <1>4 DEF Reopen, Mounted
  <2>4. FormTypeOK'
    BY <2>2, <2>3 DEF FormInv, FormTypeOK
  <2>5. AskedForCity' /\ OffersCity'
    BY <2>3 DEF AskedForCity, OffersCity
  <2>6. AllExplained'
    BY <2>3 DEF FormInv, AllExplained, Explained
  <2>7. QED BY <2>4, <2>5, <2>6 DEF FormInv
<1>5. QED BY <1>1, <1>2, <1>3, <1>4 DEF SaveNext

LEMMA FormFrame ==
  ASSUME FormInv, UNCHANGED formVars
  PROVE  FormInv'
  BY DEF formVars, FormInv, FormTypeOK, AskedForCity, OffersCity, ListPending,
         AllExplained, Explained

LEMMA FormInitially ==
  ASSUME FormInit
  PROVE  FormInv
<1>1. /\ talent \in Values /\ Consistent(talent) /\ values = talent
      /\ locations = {} /\ listed = {} /\ submitted = NoPayload
      /\ requests = {[city |-> talent.city, cancelled |-> FALSE]}
  BY DEF FormInit
<1>2. subsAsked = TRUE /\ strays = {}
  BY DEF FormInit
<1>3. [city |-> talent.city, cancelled |-> FALSE]
        \in [city : Cities, cancelled : BOOLEAN]
  BY <1>1, ValuesFields
<1>4. FormTypeOK
  BY <1>1, <1>2, <1>3 DEF FormTypeOK
<1>5. AskedForCity /\ OffersCity
  BY <1>1 DEF AskedForCity, OffersCity
<1>6. AllExplained
  BY <1>1 DEF AllExplained, Consistent, Explained
<1>7. QED BY <1>4, <1>5, <1>6 DEF FormInv

LEMMA FormSteps ==
  ASSUME FormInv, [Next]_frontEndVars
  PROVE  FormInv'
<1>1. CASE PlacesNext
  BY <1>1, ChooseCityStep, ListAnsweredStep, ChooseLocationStep DEF PlacesNext
<1>2. CASE TagsNext
  BY <1>2, TagsStep
<1>3. CASE SaveNext
  BY <1>3, SaveStep
<1>4. CASE UNCHANGED formVars
  BY <1>4, FormFrame
<1>5. QED
  BY <1>1, <1>2, <1>3, <1>4
  DEF Next, Session, List, Form, Dialog, Gallery, Site, Payment, frontEndVars

LEMMA FormAlways == Spec => []FormInv
<1>1. Init => FormInv
  BY FormInitially DEF Init
<1>2. FormInv /\ [Next]_frontEndVars => FormInv'
  BY FormSteps
<1>3. QED BY <1>1, <1>2, PTL DEF Spec

(* TalentForm.tsx: whatever the order in which cities are chosen and lists *)
(* of locations arrive, for every tree of cities and categories, what the  *)
(* form holds and sends pairs a location with another city, or a           *)
(* sub-category with no category, only if it is one of the strays: it was  *)
(* chosen when the list offered was not the city's, or kept by the API     *)
(* when the form had cleared it, or was unknown to the form, or not        *)
(* active, when its category was removed.                                  *)
THEOREM FormStaysConsistent == Spec => []FormConsistent
<1>1. FormInv => FormConsistent
  BY DEF FormInv, AllExplained, FormConsistent
<1>2. QED BY <1>1, FormAlways, PTL

-----------------------------------------------------------------------------
(***************************************************************************)
(* CustomerTab.  A booking request remembers who the form showed: a guest, *)
(* and then it has a contact and no token that is still good, or a member, *)
(* and then it has no contact and that member's token.                     *)
(***************************************************************************)
AccessTokens == [account : Accounts \cup {Guest}, valid : BOOLEAN]
Places == {"home", "talent", "quick", "login", "account"}
Visitors == [status : {"loading", "authenticated", "unauthenticated"},
             user : Accounts \cup {Guest}, token : AccessTokens]
BookingRequests == [at : {"API", "back"}, page : Places, mounted : BOOLEAN,
                    chosen : BOOLEAN, token : AccessTokens, contact : BOOLEAN,
                    shown : Accounts \cup {Guest}]

SiteTypes ==
  /\ visitor \in Visitors
  /\ request \in BookingRequests \cup {NoBooking}
  /\ listing \subseteq AccessTokens
  /\ authCalls \in [{"restore", "login", "logout"} -> Accounts \cup {Guest, Idle}]
  /\ place \in Places
  /\ chosen \in BOOLEAN

VisitorSound(v) == v.status = "authenticated" => v.token.account = v.user

RequestSound(r) ==
  r # NoBooking =>
    /\ r.contact => ~ r.token.valid /\ r.shown = Guest
    /\ ~ r.contact => r.token.account = r.shown

(* The lists awaited, and the one shown once none is, are the visitor's.   *)
ListsOwn ==
  ListMounted(place, visitor) /\ ~ lapped =>
    /\ \A t \in listing : t.account = visitor.user
    /\ listing = {} /\ history \in Accounts => history = visitor.user

SiteInv ==
  /\ SiteTypes
  /\ VisitorSound(visitor)
  /\ RequestSound(request)
  /\ ListsOwn
  /\ ~ misbooked

LEMMA ExpiredToken ==
  ASSUME NEW t \in AccessTokens
  PROVE  /\ Expired(t) \in AccessTokens
         /\ Expired(t).account = t.account
         /\ ~ Expired(t).valid
  BY DEF AccessTokens, Expired

LEMMA NewVisitors ==
  /\ NoAccess \in AccessTokens /\ ~ NoAccess.valid
  /\ SignedOut \in Visitors /\ VisitorSound(SignedOut)
  /\ \A a \in Accounts \cup {Guest} :
       SignedInAs(a) \in Visitors /\ VisitorSound(SignedInAs(a))
  BY DEF NoAccess, AccessTokens, SignedOut, Visitors, VisitorSound, SignedInAs,
         AccessOf

LEMMA StatusLost ==
  ASSUME NEW v \in Visitors
  PROVE  /\ [v EXCEPT !.status = "unauthenticated"] \in Visitors
         /\ VisitorSound([v EXCEPT !.status = "unauthenticated"])
  BY DEF Visitors, VisitorSound

(* Whatever page is shown next to whichever visitor, the lists are theirs. *)
LEMMA Shown ==
  ASSUME SiteInv, NEW p \in Places, NEW v \in Visitors, VisitorSound(v), Show(p, v)
  PROVE  /\ visitor' \in Visitors /\ place' \in Places
         /\ listing' \subseteq AccessTokens
         /\ VisitorSound(visitor)' /\ ListsOwn'
<1> DEFINE there == IF p = "account" /\ v.status = "unauthenticated" THEN "login"
                    ELSE p
           wasMounted == ListMounted(place, visitor)
           isMounted == ListMounted(there, v)
           fetch == isMounted /\ ~ (wasMounted /\ v.token = visitor.token)
<1>1. /\ place' = there /\ visitor' = v
      /\ history' = IF isMounted /\ wasMounted THEN history ELSE NotListed
      /\ listing' = (IF isMounted /\ wasMounted THEN listing ELSE {})
                      \cup (IF fetch THEN {v.token} ELSE {})
      /\ lapped' = (isMounted /\ wasMounted
                      /\ (lapped \/ (fetch /\ listing # {})))
  BY DEF Show
<1>2. there \in Places
  BY DEF Places
<1>3. v.token \in AccessTokens
  BY DEF Visitors
<1>4. listing' \subseteq AccessTokens
  <2>1. listing \subseteq AccessTokens
    BY DEF SiteInv, SiteTypes
  <2>2. QED BY <1>1, <1>3, <2>1
<1>5. VisitorSound(visitor)'
  BY <1>1 DEF VisitorSound
<1>6. ListsOwn'
  <2> SUFFICES ASSUME isMounted, ~ lapped'
               PROVE  /\ \A t \in listing' : t.account = v.user
                      /\ listing' = {} /\ history' \in Accounts => history' = v.user
    BY <1>1 DEF ListsOwn, ListMounted
  <2>1. v.token.account = v.user
    BY DEF VisitorSound, ListMounted
  <2>2. CASE ~ wasMounted
    <3>1. listing' = {v.token}
      BY <1>1, <2>2
    <3>2. QED BY <2>1, <3>1
  <2>3. CASE wasMounted /\ fetch
    <3>1. listing = {}
      BY <1>1, <2>3
    <3>2. listing' = {v.token}
      BY <1>1, <2>3, <3>1
    <3>3. QED BY <2>1, <3>2
  <2>4. CASE wasMounted /\ ~ fetch
    <3>1. v.token = visitor.token /\ ~ lapped
      BY <1>1, <2>4
    <3>2. visitor.token.account = visitor.user
      BY <2>4 DEF SiteInv, VisitorSound, ListMounted
    <3>3. v.user = visitor.user
      BY <2>1, <3>1, <3>2
    <3>4. listing' = listing /\ history' = history
      BY <1>1, <2>4
    <3>5. QED BY <2>4, <3>1, <3>3, <3>4 DEF SiteInv, ListsOwn
  <2>5. QED BY <2>2, <2>3, <2>4
<1>7. QED BY <1>1, <1>2, <1>4, <1>5, <1>6

LEMMA RequestEdited ==
  ASSUME NEW r \in BookingRequests, RequestSound(r)
  PROVE  /\ [r EXCEPT !.mounted = FALSE] \in BookingRequests
         /\ RequestSound([r EXCEPT !.mounted = FALSE])
         /\ [r EXCEPT !.token = Expired(@)] \in BookingRequests
         /\ RequestSound([r EXCEPT !.token = Expired(@)])
         /\ [r EXCEPT !.at = "back"] \in BookingRequests
         /\ RequestSound([r EXCEPT !.at = "back"])
         /\ r # NoBooking
<1>1. r.token \in AccessTokens /\ r.contact \in BOOLEAN
  BY DEF BookingRequests
<1>2. r # NoBooking
  BY DEF BookingRequests, NoBooking
<1>3. [r EXCEPT !.mounted = FALSE] \in BookingRequests
      /\ RequestSound([r EXCEPT !.mounted = FALSE])
  BY <1>2 DEF BookingRequests, RequestSound
<1>4. [r EXCEPT !.at = "back"] \in BookingRequests
      /\ RequestSound([r EXCEPT !.at = "back"])
  BY <1>2 DEF BookingRequests, RequestSound
<1>5. PICK q \in AccessTokens : /\ q = Expired(r.token)
                                /\ q.account = r.token.account /\ ~ q.valid
  BY <1>1, ExpiredToken
<1>6. [r EXCEPT !.token = q] \in BookingRequests
      /\ RequestSound([r EXCEPT !.token = q])
  BY <1>2, <1>5 DEF BookingRequests, RequestSound
<1>7. QED BY <1>2, <1>3, <1>4, <1>5, <1>6

LEMMA LeavingKeepsRequest ==
  ASSUME SiteInv, NEW p, Leave(p)
  PROVE  /\ request' \in BookingRequests \cup {NoBooking}
         /\ RequestSound(request)' /\ chosen' \in BOOLEAN
<1>1. request \in BookingRequests \cup {NoBooking} /\ RequestSound(request)
      /\ chosen \in BOOLEAN
  BY DEF SiteInv, SiteTypes
<1>2. \/ request' = request
      \/ request # NoBooking /\ request' = [request EXCEPT !.mounted = FALSE]
  BY DEF Leave
<1>3. chosen' \in BOOLEAN
  BY <1>1 DEF Leave, bookingForm
<1>4. CASE request' = request
  BY <1>1, <1>3, <1>4 DEF RequestSound
<1>5. CASE request # NoBooking /\ request' = [request EXCEPT !.mounted = FALSE]
  <2>1. request \in BookingRequests
    BY <1>1, <1>5
  <2>2. PICK q : q = [request EXCEPT !.mounted = FALSE]
    OBVIOUS
  <2>3. q \in BookingRequests /\ RequestSound(q)
    BY <1>1, <2>1, <2>2, RequestEdited
  <2>4. request' = q
    BY <1>5, <2>2
  <2>5. QED BY <1>3, <2>3, <2>4 DEF RequestSound
<1>6. QED BY <1>2, <1>4, <1>5

(* A step of the session: another visitor, perhaps another page.           *)
LEMMA SessionStep ==
  ASSUME SiteInv, NEW p \in Places, NEW v \in Visitors, VisitorSound(v),
         Show(p, v), Leave(p) \/ UNCHANGED <<bookingForm, request>>,
         authCalls' \in [{"restore", "login", "logout"}
                           -> Accounts \cup {Guest, Idle}],
         misbooked' = misbooked
  PROVE  SiteInv'
<1>1. /\ visitor' \in Visitors /\ place' \in Places
      /\ listing' \subseteq AccessTokens
      /\ VisitorSound(visitor)' /\ ListsOwn'
  BY Shown
<1>2. /\ request' \in BookingRequests \cup {NoBooking}
      /\ RequestSound(request)' /\ chosen' \in BOOLEAN
  <2>1. CASE Leave(p)
    BY <2>1, LeavingKeepsRequest
  <2>2. CASE UNCHANGED <<bookingForm, request>>
    BY <2>2 DEF SiteInv, SiteTypes, RequestSound, bookingForm
  <2>3. QED BY <2>1, <2>2
<1>3. SiteTypes'
  BY <1>1, <1>2 DEF SiteTypes
<1>4. ~ misbooked'
  BY DEF SiteInv
<1>5. QED BY <1>1, <1>2, <1>3, <1>4 DEF SiteInv

LEMMA CallsTypes ==
  ASSUME SiteInv, NEW name \in {"restore", "login", "logout"},
         NEW a \in Accounts \cup {Guest, Idle}, Pending(name, a)
  PROVE  authCalls' \in [{"restore", "login", "logout"}
                           -> Accounts \cup {Guest, Idle}]
  BY DEF SiteInv, SiteTypes, Pending

(* A step that shows nothing else.                                         *)
LEMMA FormOnlyStep ==
  ASSUME SiteInv, UNCHANGED <<visitor, place, history, listing, lapped>>,
         request' \in BookingRequests \cup {NoBooking}, RequestSound(request)',
         chosen' \in BOOLEAN,
         authCalls' \in [{"restore", "login", "logout"}
                           -> Accounts \cup {Guest, Idle}],
         ~ misbooked'
  PROVE  SiteInv'
<1>1. SiteTypes'
  BY DEF SiteInv, SiteTypes
<1>2. VisitorSound(visitor)' /\ ListsOwn'
  BY DEF SiteInv, VisitorSound, ListsOwn, ListMounted
<1>3. QED BY <1>1, <1>2 DEF SiteInv

LEMMA SiteFacts ==
  ASSUME SiteInv
  PROVE  /\ visitor \in Visitors /\ VisitorSound(visitor)
         /\ visitor.user \in Accounts \cup {Guest}
         /\ visitor.token \in AccessTokens
         /\ request \in BookingRequests \cup {NoBooking} /\ RequestSound(request)
         /\ listing \subseteq AccessTokens /\ place \in Places
         /\ chosen \in BOOLEAN
         /\ authCalls \in [{"restore", "login", "logout"}
                             -> Accounts \cup {Guest, Idle}]
         /\ ~ misbooked
  BY DEF SiteInv, SiteTypes, Visitors

-----------------------------------------------------------------------------
LEMMA GoStep ==
  ASSUME SiteInv, NEW p \in Places, Go(p)
  PROVE  SiteInv'
<1>1. /\ Show(p, visitor) /\ Leave(p)
      /\ UNCHANGED <<authCalls, misbooked>>
  BY DEF Go
<1>2. PICK v \in Visitors : v = visitor /\ VisitorSound(v)
  BY SiteFacts
<1>3. Show(p, v)
  BY <1>1, <1>2 DEF Show
<1>4. QED BY <1>1, <1>2, <1>3, SiteFacts, SessionStep

LEMMA RestoredStep ==
  ASSUME SiteInv, Restored
  PROVE  SiteInv'
<1>1. PICK v \in Visitors : v = SignedInAs(authCalls["restore"]) /\ VisitorSound(v)
  BY NewVisitors DEF Restored
<1>2. PICK p \in Places : p = place
  BY SiteFacts
<1>3. UNCHANGED <<bookingForm, request>> /\ misbooked' = misbooked
  BY DEF Restored
<1>4. Show(p, v)
  <2>1. Show(place, SignedInAs(authCalls["restore"]))
    BY DEF Restored
  <2>2. QED BY <1>1, <1>2, <2>1 DEF Show
<1>5. authCalls' \in [{"restore", "login", "logout"}
                        -> Accounts \cup {Guest, Idle}]
  BY CallsTypes DEF Restored, Returned
<1>6. QED BY <1>1, <1>2, <1>3, <1>4, <1>5, SessionStep

LEMMA NotRestoredStep ==
  ASSUME SiteInv, NotRestored
  PROVE  SiteInv'
<1>1. PICK v \in Visitors : v = Unrestored /\ VisitorSound(v)
  BY SiteFacts, StatusLost DEF Unrestored
<1>2. PICK p \in Places : p = PageUnrestored
  BY SiteFacts DEF Places, PageUnrestored
<1>3. /\ Show(PageUnrestored, Unrestored) /\ Leave(PageUnrestored)
      /\ misbooked' = misbooked
  BY DEF NotRestored
<1>4. Show(p, v)
  BY <1>1, <1>2, <1>3 DEF Show
<1>5. Leave(p)
  BY <1>2, <1>3 DEF Leave
<1>6. authCalls' \in [{"restore", "login", "logout"}
                        -> Accounts \cup {Guest, Idle}]
  BY CallsTypes DEF NotRestored, Returned
<1>7. QED BY <1>1, <1>3, <1>4, <1>5, <1>6, SessionStep

LEMMA SignInArrivesStep ==
  ASSUME SiteInv, SignInArrives
  PROVE  SiteInv'
<1>1. authCalls["login"] \in Accounts \cup {Guest}
  BY SiteFacts DEF SignInArrives
<1>2. PICK v \in Visitors : v = SignedInAs(authCalls["login"]) /\ VisitorSound(v)
  BY <1>1, NewVisitors
<1>3. "account" \in Places /\ Show("account", v) /\ Leave("account")
      /\ misbooked' = misbooked
  BY <1>2 DEF SignInArrives, Places
<1>4. authCalls' \in [{"restore", "login", "logout"}
                        -> Accounts \cup {Guest, Idle}]
  BY CallsTypes DEF SignInArrives, Returned
<1>5. QED BY <1>1, <1>2, <1>3, <1>4, SessionStep

LEMMA SignOutArrivesStep ==
  ASSUME SiteInv, SignOutArrives
  PROVE  SiteInv'
<1>1. "home" \in Places /\ Show("home", SignedOut) /\ Leave("home")
      /\ misbooked' = misbooked
  BY DEF SignOutArrives, Places
<1>2. authCalls' \in [{"restore", "login", "logout"}
                        -> Accounts \cup {Guest, Idle}]
  BY CallsTypes DEF SignOutArrives, Returned
<1>3. QED BY <1>1, <1>2, NewVisitors, SessionStep

(* An expired token keeps its account: it is nobody's else.                *)
LEMMA TokenExpiresStep ==
  ASSUME SiteInv, TokenExpires
  PROVE  SiteInv'
<1>1. PICK t \in AccessTokens : /\ t = Expired(visitor.token)
                                /\ t.account = visitor.token.account
  BY SiteFacts, ExpiredToken
<1>2. /\ visitor' = [visitor EXCEPT !.token = t]
      /\ listing' = {Expired(l) : l \in listing}
      /\ UNCHANGED <<authCalls, place, chosen, misbooked, history, lapped>>
  BY <1>1 DEF TokenExpires, bookingForm
<1>3. /\ visitor' \in Visitors /\ visitor'.status = visitor.status
      /\ visitor'.user = visitor.user /\ visitor'.token = t
  BY <1>2, SiteFacts DEF Visitors
<1>4. \A l \in listing : Expired(l) \in AccessTokens /\ Expired(l).account = l.account
  BY SiteFacts, ExpiredToken
<1>5. listing' \subseteq AccessTokens
  BY <1>2, <1>4
<1>6. request' \in BookingRequests \cup {NoBooking} /\ RequestSound(request)'
  <2>1. CASE request = NoBooking
    BY <2>1 DEF TokenExpires, RequestSound
  <2>2. CASE request # NoBooking
    <3>1. PICK q : q = [request EXCEPT !.token = Expired(@)]
      OBVIOUS
    <3>2. q \in BookingRequests /\ RequestSound(q)
      BY <2>2, <3>1, SiteFacts, RequestEdited
    <3>3. request' = q
      BY <2>2, <3>1 DEF TokenExpires
    <3>4. QED BY <3>2, <3>3 DEF RequestSound
  <2>3. QED BY <2>1, <2>2
<1>7. SiteTypes'
  BY <1>2, <1>3, <1>5, <1>6, SiteFacts DEF SiteTypes
<1>8. VisitorSound(visitor)'
  BY <1>1, <1>3, SiteFacts DEF VisitorSound
<1>9. ListsOwn'
  BY <1>2, <1>3, <1>4 DEF SiteInv, ListsOwn, ListMounted
<1>10. QED BY <1>2, <1>6, <1>7, <1>8, <1>9 DEF SiteInv

(* What a submit sends: a member's token and no contact, or a contact.     *)
LEMMA SubmitBookingStep ==
  ASSUME SiteInv, SubmitBooking
  PROVE  SiteInv'
<1>1. PICK page_ \in Places, chosen_ \in BOOLEAN :
        /\ page_ = place /\ chosen_ = chosen
  BY SiteFacts
<1>2. PICK q \in BookingRequests : request' = q /\ RequestSound(q)
  <2>1. CASE IsMember
    <3>1. PICK t \in AccessTokens, u \in Accounts \cup {Guest} :
            t = visitor.token /\ u = visitor.user /\ t.account = u
      BY <2>1, SiteFacts DEF IsMember, VisitorSound
    <3> DEFINE q == [at |-> "API", page |-> page_, mounted |-> TRUE,
                     chosen |-> chosen_, token |-> t, contact |-> FALSE,
                     shown |-> u]
    <3>2. q \in BookingRequests /\ RequestSound(q)
      BY <3>1 DEF BookingRequests, RequestSound
    <3>3. (~ IsMember) = FALSE
      BY <2>1
    <3>4. request' = q
      BY <1>1, <2>1, <3>1, <3>3 DEF SubmitBooking
    <3>5. QED BY <3>2, <3>4
  <2>2. CASE ~ IsMember
    <3> DEFINE q == [at |-> "API", page |-> page_, mounted |-> TRUE,
                     chosen |-> chosen_, token |-> NoAccess, contact |-> TRUE,
                     shown |-> Guest]
    <3>1. q \in BookingRequests /\ RequestSound(q)
      BY NewVisitors DEF BookingRequests, RequestSound
    <3>2. (~ IsMember) = TRUE
      BY <2>2
    <3>3. request' = q
      BY <1>1, <2>2, <3>2 DEF SubmitBooking
    <3>4. QED BY <3>1, <3>3
  <2>3. QED BY <2>1, <2>2
<1>3. RequestSound(request)'
  BY <1>2 DEF RequestSound
<1>4. UNCHANGED <<visitor, authCalls, place, chosen, misbooked, history, listing,
                  lapped>>
  BY DEF SubmitBooking
<1>5. QED BY <1>2, <1>3, <1>4, SiteFacts, FormOnlyStep

(* BookingService.create: who has no good token needs a contact, and books *)
(* as the guest the form showed; who has none books as the member it did.  *)
LEMMA CreateServedStep ==
  ASSUME SiteInv, CreateServed
  PROVE  SiteInv'
<1>1. request \in BookingRequests /\ RequestSound(request) /\ request # NoBooking
  BY SiteFacts DEF CreateServed, NoBooking, BookingRequests
<1>2. Booker(request) = request.shown
  <2>1. CASE request.contact
    <3>1. ~ request.token.valid /\ request.shown = Guest
      BY <1>1, <2>1 DEF RequestSound
    <3>2. Bearer(request.token).type # "user"
      BY <3>1 DEF Bearer, Nobody
    <3>3. QED BY <3>1, <3>2 DEF Booker
  <2>2. CASE ~ request.contact
    <3>1. Booker(request) # Guest
      BY <2>2 DEF CreateServed
    <3>2. Booker(request) = request.token.account
      BY <3>1 DEF Booker
    <3>3. QED BY <1>1, <2>2, <3>2 DEF RequestSound
  <2>3. QED BY <2>1, <2>2
<1>3. ~ misbooked'
  BY <1>2, SiteFacts DEF CreateServed
<1>4. PICK q : q = [request EXCEPT !.at = "back"]
  OBVIOUS
<1>5. q \in BookingRequests /\ RequestSound(q)
  BY <1>1, <1>4, RequestEdited
<1>6. request' = q
  BY <1>4 DEF CreateServed
<1>7. RequestSound(request)'
  BY <1>5, <1>6 DEF RequestSound
<1>8. UNCHANGED <<visitor, authCalls, place, chosen, history, listing, lapped>>
  BY DEF CreateServed, bookingForm
<1>9. QED BY <1>3, <1>5, <1>6, <1>7, <1>8, SiteFacts, FormOnlyStep

LEMMA NoRequestLeft ==
  ASSUME request' = NoBooking
  PROVE  request' \in BookingRequests \cup {NoBooking} /\ RequestSound(request)'
  BY DEF RequestSound

LEMMA CreateArrivesStep ==
  ASSUME SiteInv, CreateArrives
  PROVE  SiteInv'
<1>1. /\ request' = NoBooking /\ UNCHANGED <<authCalls, misbooked>>
  BY DEF CreateArrives
<1>2. CASE request.page = "quick"
  <2>1. Show("home", visitor) /\ chosen' = FALSE /\ "home" \in Places
    BY <1>2 DEF CreateArrives, Places
  <2>2. PICK v \in Visitors : v = visitor /\ VisitorSound(v)
    BY SiteFacts
  <2>3. Show("home", v)
    BY <2>1, <2>2 DEF Show
  <2>4. /\ visitor' \in Visitors /\ place' \in Places
        /\ listing' \subseteq AccessTokens
        /\ VisitorSound(visitor)' /\ ListsOwn'
    BY <2>1, <2>2, <2>3, Shown
  <2>5. SiteTypes'
    BY <1>1, <2>1, <2>4, NoRequestLeft, SiteFacts DEF SiteTypes
  <2>6. ~ misbooked'
    BY <1>1, SiteFacts
  <2>7. QED BY <1>1, <2>4, <2>5, <2>6, NoRequestLeft DEF SiteInv
<1>3. CASE request.page # "quick"
  <2>1. UNCHANGED <<visitor, place, history, listing, lapped, chosen>>
    BY <1>3 DEF CreateArrives
  <2>2. QED BY <1>1, <2>1, NoRequestLeft, SiteFacts, FormOnlyStep
<1>4. QED BY <1>2, <1>3

LEMMA ListArrivesStep ==
  ASSUME SiteInv, NEW token \in listing, ListArrives(token)
  PROVE  SiteInv'
<1>1. /\ listing' = listing \ {token}
      /\ history' \in {token.account, "error"}
      /\ UNCHANGED <<visitor, authCalls, place, chosen, request, misbooked, lapped>>
  BY DEF ListArrives, bookingForm
<1>2. SiteTypes'
  BY <1>1 DEF SiteInv, SiteTypes
<1>3. VisitorSound(visitor)' /\ RequestSound(request)' /\ ~ misbooked'
  BY <1>1 DEF SiteInv, VisitorSound, RequestSound
<1>4. ListsOwn'
  BY <1>1, AccountsAssumption DEF SiteInv, ListsOwn, ListMounted
<1>5. QED BY <1>2, <1>3, <1>4 DEF SiteInv

(* The visitor's other steps: calls begin or fail, the form is filled.     *)
LEMMA SmallSteps ==
  ASSUME SiteInv,
         \/ \E a \in Accounts : SignIn(a) \/ Register(a)
         \/ AuthFails("login") \/ SignOutSend
         \/ OpenModal \/ TypeContact \/ ChooseTalent
  PROVE  SiteInv'
<1>1. /\ UNCHANGED <<visitor, place, history, listing, lapped, request, misbooked>>
      /\ chosen' \in {chosen, TRUE}
  BY DEF SignIn, Register, AuthFails, SignOutSend, OpenModal, TypeContact,
         ChooseTalent, bookingForm
<1>2. authCalls' \in [{"restore", "login", "logout"}
                        -> Accounts \cup {Guest, Idle}]
  <2>1. CASE \E a \in Accounts : SignIn(a) \/ Register(a)
    BY <2>1, CallsTypes DEF SignIn, Register
  <2>2. CASE AuthFails("login")
    BY <2>2, CallsTypes DEF AuthFails, Returned
  <2>3. CASE SignOutSend
    BY <2>3, SiteFacts, CallsTypes DEF SignOutSend
  <2>4. CASE OpenModal \/ TypeContact \/ ChooseTalent
    BY <2>4, SiteFacts DEF OpenModal, TypeContact, ChooseTalent
  <2>5. QED BY <2>1, <2>2, <2>3, <2>4
<1>3. RequestSound(request)' /\ chosen' \in BOOLEAN
  BY <1>1, SiteFacts DEF RequestSound
<1>4. QED BY <1>1, <1>2, <1>3, SiteFacts, FormOnlyStep

LEMMA CloseModalStep ==
  ASSUME SiteInv, CloseModal
  PROVE  SiteInv'
<1>1. /\ \/ request' = request
         \/ request # NoBooking /\ request' = [request EXCEPT !.mounted = FALSE]
      /\ chosen' = FALSE
      /\ UNCHANGED <<visitor, authCalls, place, misbooked, history, listing, lapped>>
  BY DEF CloseModal
<1>2. request' \in BookingRequests \cup {NoBooking} /\ RequestSound(request)'
  <2>1. CASE request' = request
    BY <2>1, SiteFacts DEF RequestSound
  <2>2. CASE request # NoBooking /\ request' = [request EXCEPT !.mounted = FALSE]
    <3>1. PICK q : q = [request EXCEPT !.mounted = FALSE]
      OBVIOUS
    <3>2. q \in BookingRequests /\ RequestSound(q)
      BY <2>2, <3>1, SiteFacts, RequestEdited
    <3>3. QED BY <2>2, <3>1, <3>2 DEF RequestSound
  <2>3. QED BY <1>1, <2>1, <2>2
<1>3. QED BY <1>1, <1>2, SiteFacts, FormOnlyStep

LEMMA CreateFailsStep ==
  ASSUME SiteInv, CreateFails
  PROVE  SiteInv'
<1>1. /\ request' = NoBooking
      /\ UNCHANGED <<visitor, authCalls, place, chosen, misbooked, history, listing,
                     lapped>>
  BY DEF CreateFails
<1>2. QED BY <1>1, NoRequestLeft, SiteFacts, FormOnlyStep

LEMMA SiteFrame ==
  ASSUME SiteInv, UNCHANGED customerVars
  PROVE  SiteInv'
  BY DEF customerVars, SiteInv, SiteTypes, VisitorSound, RequestSound, ListsOwn,
         ListMounted

LEMMA SiteInitially ==
  ASSUME CustomerInit
  PROVE  SiteInv
<1>1. visitor \in Visitors /\ VisitorSound(visitor) /\ visitor.status = "loading"
  BY NewVisitors DEF CustomerInit, Visitors, VisitorSound, SignedOut
<1>2. PICK c \in known \cup {Guest} :
        authCalls = [restore |-> c, login |-> Idle, logout |-> Idle]
  BY DEF CustomerInit
<1>3. /\ request = NoBooking /\ listing = {} /\ place = "home"
      /\ known = Administrators \cup {CHOOSE m \in Members : TRUE}
  BY DEF CustomerInit
<1>4. chosen = FALSE /\ misbooked = FALSE
  BY DEF CustomerInit
<1>5. known \cup {Guest} \subseteq Accounts \cup {Guest}
  BY <1>3, MembersAssumption DEF Accounts
<1>6. SiteTypes
  <2>1. authCalls \in [{"restore", "login", "logout"}
                          -> Accounts \cup {Guest, Idle}]
    <3>1. c \in Accounts \cup {Guest, Idle}
      BY <1>2, <1>5
    <3>2. QED BY <1>2, <3>1
  <2>2. QED BY <1>1, <1>3, <1>4, <2>1 DEF SiteTypes, Places
<1>7. RequestSound(request) /\ ListsOwn
  BY <1>1, <1>3 DEF RequestSound, ListsOwn, ListMounted
<1>8. QED BY <1>1, <1>4, <1>6, <1>7 DEF SiteInv

LEMMA SiteSteps ==
  ASSUME SiteInv, [Next]_frontEndVars
  PROVE  SiteInv'
<1>1. CASE CustomerNext
  BY <1>1, RestoredStep, NotRestoredStep, SignInArrivesStep, SignOutArrivesStep,
     CreateServedStep, CreateArrivesStep, CreateFailsStep, ListArrivesStep,
     GoStep, SmallSteps, TokenExpiresStep, CloseModalStep, SubmitBookingStep
  DEF CustomerNext, Places
<1>2. CASE UNCHANGED customerVars
  BY <1>2, SiteFrame
<1>3. QED
  BY <1>1, <1>2
  DEF Next, Session, List, Form, Dialog, Gallery, Site, Payment, frontEndVars

LEMMA SiteAlways == Spec => []SiteInv
<1>1. Init => SiteInv
  BY SiteInitially DEF Init
<1>2. SiteInv /\ [Next]_frontEndVars => SiteInv'
  BY SiteSteps
<1>3. QED BY <1>1, <1>2, PTL DEF Spec

(* The booking form of the customer site: whatever sessions are restored,  *)
(* replaced or ended and whatever tokens expire while a request is on its  *)
(* way, no booking is made as anybody but the one the form showed.         *)
THEOREM BookingsAreMadeAsShown == Spec => []BookedAsShown
<1>1. SiteInv => BookedAsShown
  BY DEF SiteInv, BookedAsShown
<1>2. QED BY <1>1, SiteAlways, PTL

(* The account page of the customer site, while it had no two lists in     *)
(* flight at once: the bookings it lists, once they are loaded, are those  *)
(* of the account it names.                                                *)
THEOREM ListsNameTheirOwner == Spec => []ListNamesItsOwner
<1>1. SiteInv => ListNamesItsOwner
  BY DEF SiteInv, ListsOwn, ListNamesItsOwner
<1>2. QED BY <1>1, SiteAlways, PTL
-----------------------------------------------------------------------------
(***************************************************************************)
(* AdminSession.  While the calls of a tab follow each other and none is   *)
(* lost, only one is under way, and where it is says what the tab, the     *)
(* browser and the API hold.                                               *)
(***************************************************************************)
Held == Token \cup {NoToken}

Typed(k) ==
  \/ k = NotWaiting
  \/ /\ DOMAIN k = {"at", "token"}
     /\ \/ /\ k.at \in {"refresh", "logout", "loggedOut", "sent"}
           /\ k.token \in Held
        \/ /\ k.at \in {"rotated", "retry", "me", "loggedIn"}
           /\ k.token \in Token
        \/ /\ k.at = "login"
           /\ k.token.type \in {"admin", "user"}

(* The ids drawn so far.                                                   *)
Drawn(token) == token.id <= issued

SessionTypes ==
  /\ SessionTypeOK
  /\ \A c \in Callers : Typed(calls[c])
  /\ \A token \in sessions \cup {cookie} : Drawn(token)
  /\ \A c \in Callers : At(c, {"rotated", "loggedIn"}) => Drawn(calls[c].token)

OneCall ==
  \A c, d \in Callers : ~ At(c, {"idle"}) /\ ~ At(d, {"idle"}) => c = d

(* The cookie opens an administrator's session. *)
Opens(token) == token \in sessions /\ token.type = "admin"

TabSound ==
  /\ authStatus = "authenticated" => store.type = "admin"
  /\ authStatus # "authenticated" => store = NoToken

(* With nothing under way, the tab and the API agree. *)
Agreed ==
  /\ authStatus = "authenticated" => Opens(cookie)
  /\ authStatus = "unauthenticated" => cookie \notin sessions

(* What is so while the context, or the page, awaits k.                    *)
ContextSound(k) ==
  /\ k.at \in {"idle", "refresh", "rotated", "me", "login", "loggedIn", "logout",
              "loggedOut"}
  /\ k.at \in {"refresh", "rotated", "me"} => authStatus = "loading"
  /\ k.at \in {"login", "loggedIn"} => authStatus = "unauthenticated"
  /\ k.at \in {"refresh", "me", "logout"} => k.token = cookie
  /\ k.at \in {"rotated", "loggedIn", "me"} => k.token \in sessions

FetchSound(k) ==
  /\ k.at \in {"idle", "sent", "refresh", "rotated", "retry"}
  /\ k.at # "idle" => authStatus = "authenticated" /\ k.token.type = "admin"
  /\ k.at \in {"sent", "refresh", "retry"} => Opens(cookie)
  /\ k.at = "refresh" => k.token = cookie
  /\ k.at = "rotated" => k.token \in sessions
  /\ k.at \in {"rotated", "retry"} => k.token \in unexpired

CallsSound ==
  /\ OneCall /\ TabSound
  /\ (\A c \in Callers : At(c, {"idle"})) => Agreed
  /\ ContextSound(calls[Context])
  /\ \A c \in Fetches : FetchSound(calls[c])
  /\ ~ failedCall

SessionInv == SessionTypes /\ (~ disturbed => CallsSound)

LEMMA CallMoves ==
  ASSUME SessionTypes, NEW c \in Callers, NEW k, calls' = [calls EXCEPT ![c] = k]
  PROVE  /\ DOMAIN calls' = Callers /\ calls'[c] = k
         /\ \A d \in Callers \ {c} : calls'[d] = calls[d]
  BY DEF SessionTypes, SessionTypeOK

(* The tokens of a call that has gone somewhere.                           *)
LEMMA CallTokens ==
  ASSUME SessionTypes, NEW c \in Callers
  PROVE  /\ At(c, {"refresh", "logout", "loggedOut", "sent"}) =>
              calls[c].token \in Held
         /\ At(c, {"rotated", "retry", "me", "loggedIn"}) =>
              calls[c].token \in Token
         /\ At(c, {"login"}) => calls[c].token.type \in {"admin", "user"}
  BY DEF SessionTypes, Typed, At, NotWaiting

LEMMA Tokens ==
  /\ NoToken \notin Token /\ NoToken.type = "none" /\ NoToken.id = 0
  /\ \A token \in Token : /\ token.id \in 1 .. MaxTokens
                          /\ token.type \in {"admin", "user"}
  BY DEF Token, NoToken

LEMMA Calls ==
  /\ Typed(NotWaiting) /\ NotWaiting.at = "idle"
  /\ \A token \in Held : \A at \in {"refresh", "logout", "loggedOut", "sent"} :
       Typed([at |-> at, token |-> token])
  /\ \A token \in Token :
       \A at \in {"rotated", "retry", "me", "loggedIn", "refresh", "logout",
                  "loggedOut", "sent"} :
         Typed([at |-> at, token |-> token])
  BY DEF Typed, NotWaiting, Held

(* Only one caller is under way, and goes on.                              *)
LEMMA OthersIdle ==
  ASSUME CallsSound, NEW c \in Callers, ~ At(c, {"idle"})
  PROVE  \A d \in Callers \ {c} : At(d, {"idle"})
  BY DEF CallsSound, OneCall

LEMMA OneGoesOn ==
  ASSUME SessionTypes, NEW c \in Callers, NEW k, calls' = [calls EXCEPT ![c] = k],
         \A d \in Callers \ {c} : At(d, {"idle"}),
         c = Context => ContextSound(k)',
         c \in Fetches => FetchSound(k)',
         k.at = "idle" => Agreed',
         TabSound', ~ failedCall'
  PROVE  CallsSound'
<1>1. /\ calls'[c] = k
      /\ \A d \in Callers \ {c} : calls'[d] = calls[d] /\ calls'[d].at = "idle"
  BY CallMoves DEF At
<1>2. OneCall'
  BY <1>1 DEF OneCall, At
<1>3. (\A d \in Callers : At(d, {"idle"}))' => Agreed'
  BY <1>1 DEF At
<1>4. ContextSound(calls[Context])'
  <2>1. CASE c = Context
    BY <1>1, <2>1 DEF ContextSound
  <2>2. CASE c # Context
    <3>1. calls'[Context].at = "idle"
      BY <1>1, <2>2 DEF Callers
    <3>2. QED BY <3>1 DEF ContextSound
  <2>3. QED BY <2>1, <2>2
<1>5. ASSUME NEW d \in Fetches PROVE FetchSound(calls[d])'
  <2>1. CASE d = c
    BY <1>1, <2>1 DEF FetchSound, Opens
  <2>2. CASE d # c
    <3>1. calls'[d].at = "idle"
      BY <1>1, <2>2 DEF Callers
    <3>2. QED BY <3>1 DEF FetchSound
  <2>3. QED BY <2>1, <2>2
<1>6. QED BY <1>2, <1>3, <1>4, <1>5 DEF CallsSound

(* A pair is issued.                                                       *)
LEMMA Issued ==
  ASSUME SessionTypes, NEW type \in {"admin", "user"}, Issue(type)
  PROVE  /\ Fresh(type) \in Token /\ Fresh(type).type = type
         /\ Fresh(type) \notin sessions /\ Fresh(type) # cookie
         /\ issued' \in 0 .. MaxTokens /\ issued <= issued'
         /\ unexpired' = unexpired \cup {Fresh(type)} /\ unexpired' \subseteq Token
         /\ \A token \in sessions \cup {cookie, Fresh(type)} : token.id <= issued'
<1>1. /\ issued \in 0 .. MaxTokens /\ issued < MaxTokens
      /\ issued' = issued + 1 /\ unexpired' = unexpired \cup {Fresh(type)}
      /\ unexpired \subseteq Token
      /\ \A token \in sessions \cup {cookie} : token.id <= issued
  BY DEF SessionTypes, SessionTypeOK, Issue, Fresh, Drawn
<1>2. PICK fresh : fresh = [id |-> issued + 1, type |-> type]
  OBVIOUS
<1>3. /\ fresh.id = issued + 1 /\ fresh.type = type /\ fresh = Fresh(type)
      /\ fresh \in Token
  BY <1>1, <1>2, TokensAssumption DEF Fresh, Token
<1>4. \A token \in sessions \cup {cookie} : token.id \in 0 .. MaxTokens
  BY Tokens, TokensAssumption DEF SessionTypes, SessionTypeOK
<1>5. fresh \notin sessions /\ fresh # cookie
  BY <1>1, <1>3, <1>4
<1>6. QED BY <1>1, <1>3, <1>4, <1>5, TokensAssumption

(* The steps, by who is under way: their types first.                      *)
LEMMA TypesGoOn ==
  ASSUME SessionTypes, NEW c \in Callers, NEW k, calls' = [calls EXCEPT ![c] = k],
         Typed(k),
         authStatus' \in {"loading", "authenticated", "unauthenticated"},
         store' \in Held, cookie' \in Held,
         sessions' \subseteq Token, unexpired' \subseteq Token,
         issued' \in 0 .. MaxTokens,
         failedCall' \in BOOLEAN, disturbed' \in BOOLEAN,
         \A token \in sessions' \cup {cookie'} : token.id <= issued',
         k.at \in {"rotated", "loggedIn"} => k.token.id <= issued',
         issued <= issued'
  PROVE  SessionTypes'
<1>1. DOMAIN calls' = Callers /\ \A d \in Callers : Typed(calls[d])'
  <2>1. /\ DOMAIN calls' = Callers /\ calls'[c] = k
        /\ \A d \in Callers \ {c} : calls'[d] = calls[d]
    BY CallMoves
  <2>2. \A d \in Callers : Typed(calls'[d])
    BY <2>1 DEF SessionTypes
  <2>3. QED BY <2>1, <2>2 DEF Typed
<1>2. (\A d \in Callers : At(d, {"rotated", "loggedIn"}) => Drawn(calls[d].token))'
  <2>1. /\ calls'[c] = k
        /\ \A d \in Callers \ {c} : calls'[d] = calls[d]
    BY CallMoves
  <2>2. ASSUME NEW d \in Callers, At(d, {"rotated", "loggedIn"})'
        PROVE  calls'[d].token.id <= issued'
    <3>1. CASE d = c
      BY <2>1, <2>2, <3>1 DEF At
    <3>2. CASE d # c
      <4>1. /\ calls'[d] = calls[d] /\ At(d, {"rotated", "loggedIn"})
            /\ issued \in 0 .. MaxTokens
        BY <2>1, <2>2, <3>2 DEF At, SessionTypes, SessionTypeOK
      <4>2. calls[d].token.id <= issued /\ calls[d].token \in Token
        BY <4>1, CallTokens DEF SessionTypes, Drawn, At
      <4>3. calls[d].token.id \in Nat
        BY <4>2, TokensAssumption DEF Token
      <4>4. QED BY <4>1, <4>2, <4>3, TokensAssumption
    <3>3. QED BY <3>1, <3>2
  <2>3. QED BY <2>2 DEF Drawn
<1>3. QED BY <1>1, <1>2 DEF SessionTypes, SessionTypeOK, Held, Drawn

LEMMA SessionFacts ==
  ASSUME SessionTypes
  PROVE  /\ authStatus \in {"loading", "authenticated", "unauthenticated"}
         /\ store \in Held /\ cookie \in Held
         /\ sessions \subseteq Token /\ unexpired \subseteq Token
         /\ issued \in 0 .. MaxTokens
         /\ failedCall \in BOOLEAN /\ disturbed \in BOOLEAN
         /\ \A token \in sessions \cup {cookie} : token.id <= issued
  BY DEF SessionTypes, SessionTypeOK, Held, Drawn

LEMMA NoneDrawn ==
  ASSUME SessionTypes
  PROVE  NoToken.id <= issued /\ NoToken \in Held /\ NoToken \notin sessions
  BY SessionFacts, Tokens, TokensAssumption DEF Held

LEMMA ReloadStep ==
  ASSUME SessionInv, Reload
  PROVE  SessionInv'
<1>1. /\ SessionTypes /\ authStatus' = "loading" /\ store' = NoToken
      /\ disturbed' = (disturbed \/ \E c \in Callers : ~ At(c, {"idle"}))
      /\ UNCHANGED <<cookie, sessions, unexpired, issued, failedCall>>
  BY DEF SessionInv, Reload, Open
<1>2. PICK k : k = [at |-> "refresh", token |-> cookie]
  OBVIOUS
<1>3. calls' = [c \in Callers |-> IF c = Context THEN k ELSE NotWaiting]
  BY <1>2 DEF Reload, Open
<1>4. SessionTypes'
  <2>1. Typed(k) /\ Typed(NotWaiting)
    BY <1>1, <1>2, SessionFacts, Calls
  <2>2. \A c \in Callers : Typed(calls'[c])
    BY <1>3, <2>1
  <2>3. (\A c \in Callers : Typed(calls[c]))'
    BY <2>2 DEF Typed
  <2>4. (\A c \in Callers : At(c, {"rotated", "loggedIn"}) => Drawn(calls[c].token))'
    BY <1>2, <1>3, Calls DEF At
  <2>5. QED
    BY <1>1, <1>3, <2>3, <2>4, NoneDrawn
       DEF SessionTypes, SessionTypeOK, Held, Drawn
<1>5. ASSUME ~ disturbed' PROVE CallsSound'
  <2>1. ~ disturbed /\ CallsSound
    BY <1>1, <1>5, SessionFacts DEF SessionInv
  <2>2. /\ calls'[Context].at = "refresh" /\ calls'[Context].token = cookie
        /\ \A c \in Fetches : calls'[c].at = "idle"
    BY <1>2, <1>3, Calls, FetchesAssumption DEF Callers
  <2>3. OneCall' /\ ~ (\A c \in Callers : At(c, {"idle"}))'
    BY <2>2 DEF OneCall, At, Callers
  <2>4. TabSound'
    BY <1>1 DEF TabSound
  <2>5. ContextSound(calls[Context])'
    BY <1>1, <2>2 DEF ContextSound
  <2>6. (\A c \in Fetches : FetchSound(calls[c]))'
    BY <2>2 DEF FetchSound
  <2>7. QED
    BY <1>1, <2>1, <2>3, <2>4, <2>5, <2>6 DEF CallsSound
<1>6. QED BY <1>4, <1>5 DEF SessionInv

(* POST /auth/refresh.                                                     *)
LEMMA ServerRefreshStep ==
  ASSUME SessionInv, NEW c \in Callers, ServerRefresh(c)
  PROVE  SessionInv'
<1>1. PICK old \in Token : old = calls[c].token /\ old \in sessions
  BY SessionFacts DEF SessionInv, ServerRefresh
<1>2. PICK fresh : /\ fresh = Fresh(old.type) /\ fresh \in Token
                   /\ fresh.type = old.type
                   /\ fresh \notin sessions /\ fresh # cookie
                   /\ issued' \in 0 .. MaxTokens
                   /\ unexpired' = unexpired \cup {fresh} /\ unexpired' \subseteq Token
                   /\ issued <= issued'
                   /\ \A token \in sessions \cup {cookie, fresh} : token.id <= issued'
  <2>1. old.type \in {"admin", "user"} /\ Issue(old.type)
    BY <1>1, Tokens DEF ServerRefresh
  <2>2. QED BY <2>1, Issued DEF SessionInv
<1>3. PICK k : k = [at |-> "rotated", token |-> fresh]
  OBVIOUS
<1>4. /\ At(c, {"refresh"}) /\ sessions' = (sessions \ {old}) \cup {fresh}
      /\ calls' = [calls EXCEPT ![c] = k]
      /\ UNCHANGED <<authStatus, store, cookie, failedCall, disturbed>>
  BY <1>1, <1>2, <1>3 DEF ServerRefresh, Await
<1>5. SessionTypes'
  <2>1. Typed(k)
    BY <1>2, <1>3, Calls
  <2>2. /\ sessions' \subseteq Token
        /\ \A token \in sessions' \cup {cookie'} : token.id <= issued'
    BY <1>2, <1>4, SessionFacts DEF SessionInv
  <2>3. k.at \in {"rotated", "loggedIn"} => k.token.id <= issued'
    BY <1>2, <1>3
  <2>4. QED
    BY <1>2, <1>4, <2>1, <2>2, <2>3, SessionFacts, TypesGoOn DEF SessionInv
<1>6. ASSUME ~ disturbed' PROVE CallsSound'
  <2>1. CallsSound /\ SessionTypes
    BY <1>4, <1>6 DEF SessionInv
  <2>2. k.at = "rotated" /\ k.token = fresh
    BY <1>3
  <2>3. c = Context => ContextSound(k)'
    BY <1>4, <2>1, <2>2 DEF CallsSound, ContextSound, At
  <2>4. c \in Fetches => FetchSound(k)'
    BY <1>1, <1>2, <1>4, <2>1, <2>2 DEF CallsSound, FetchSound, At
  <2>5. TabSound' /\ ~ failedCall'
    BY <1>4, <2>1 DEF CallsSound, TabSound
  <2>6. \A d \in Callers \ {c} : At(d, {"idle"})
    BY <1>4, <2>1, OthersIdle DEF At
  <2>7. QED BY <1>4, <2>1, <2>2, <2>3, <2>4, <2>5, <2>6, OneGoesOn
<1>7. QED BY <1>5, <1>6 DEF SessionInv

(* authedFetch stores what the refresh brought.                            *)
LEMMA FetchRefreshedStep ==
  ASSUME SessionInv, NEW c \in Callers, FetchRefreshed(c)
  PROVE  SessionInv'
<1>1. PICK token \in Token :
        /\ token = calls[c].token /\ token.id <= issued
        /\ At(c, {"rotated"}) /\ c \in Fetches
  BY CallTokens DEF SessionInv, SessionTypes, Drawn, FetchRefreshed, At
<1>2. PICK k : k = [at |-> "retry", token |-> token]
  OBVIOUS
<1>3. /\ cookie' = token /\ store' = token /\ calls' = [calls EXCEPT ![c] = k]
      /\ UNCHANGED <<authStatus, sessions, unexpired, issued, failedCall, disturbed>>
  BY <1>1, <1>2 DEF FetchRefreshed, Await
<1>4. ASSUME ~ disturbed
      PROVE  /\ CallsSound /\ token \in sessions /\ token.type = "admin"
             /\ authStatus = "authenticated" /\ token \in unexpired
  BY <1>1, <1>4 DEF SessionInv, CallsSound, FetchSound, At
<1>5. ASSUME ~ disturbed' PROVE CallsSound'
  <2>1. k.at = "retry" /\ k.token = token
    BY <1>2
  <2>2. FetchSound(k)'
    BY <1>3, <1>4, <1>5, <2>1 DEF FetchSound, Opens
  <2>3. TabSound' /\ ~ failedCall'
    BY <1>3, <1>4, <1>5 DEF CallsSound, TabSound
  <2>4. \A d \in Callers \ {c} : At(d, {"idle"})
    BY <1>1, <1>3, <1>4, <1>5, OthersIdle DEF At
  <2>5. c # Context
    BY <1>1, FetchesAssumption
  <2>6. QED BY <1>3, <2>1, <2>2, <2>3, <2>4, <2>5, OneGoesOn DEF SessionInv
<1>6. SessionTypes'
  <2>1. Typed(k) /\ k.at = "retry"
    BY <1>2, Calls
  <2>2. /\ sessions' \subseteq Token /\ token \in Held
        /\ \A t \in sessions' \cup {cookie'} : t.id <= issued'
    BY <1>1, <1>3, SessionFacts DEF SessionInv, Held
  <2>3. issued <= issued'
    BY <1>3, SessionFacts DEF SessionInv
  <2>4. QED
    BY <1>3, <2>1, <2>2, <2>3, SessionFacts, TypesGoOn DEF SessionInv
<1>7. QED BY <1>5, <1>6 DEF SessionInv

(* restoreSession asks for the profile with what the refresh brought.      *)
LEMMA RestoreRefreshedStep ==
  ASSUME SessionInv, RestoreRefreshed
  PROVE  SessionInv'
<1>1. PICK token \in Token :
        /\ token = calls[Context].token /\ token.id <= issued
        /\ At(Context, {"rotated"}) /\ Context \in Callers
  BY CallTokens DEF SessionInv, SessionTypes, Drawn, RestoreRefreshed, At, Callers
<1>2. PICK k : k = [at |-> "me", token |-> token]
  OBVIOUS
<1>3. /\ cookie' = token /\ calls' = [calls EXCEPT ![Context] = k]
      /\ UNCHANGED <<authStatus, store, sessions, unexpired, issued, failedCall,
                     disturbed>>
  BY <1>1, <1>2 DEF RestoreRefreshed, Await
<1>4. SessionTypes'
  <2>1. Typed(k) /\ k.at = "me"
    BY <1>2, Calls
  <2>2. /\ sessions' \subseteq Token /\ token \in Held /\ issued <= issued'
        /\ \A t \in sessions' \cup {cookie'} : t.id <= issued'
    BY <1>1, <1>3, SessionFacts DEF SessionInv, Held
  <2>3. QED BY <1>1, <1>3, <2>1, <2>2, SessionFacts, TypesGoOn DEF SessionInv
<1>5. ASSUME ~ disturbed' PROVE CallsSound'
  <2>1. CallsSound /\ SessionTypes
    BY <1>3, <1>5 DEF SessionInv
  <2>2. k.at = "me" /\ k.token = token
    BY <1>2
  <2>3. ContextSound(k)'
    BY <1>1, <1>3, <2>1, <2>2 DEF CallsSound, ContextSound, At
  <2>4. TabSound' /\ ~ failedCall'
    BY <1>3, <2>1 DEF CallsSound, TabSound
  <2>5. \A d \in Callers \ {Context} : At(d, {"idle"})
    BY <1>1, <2>1, OthersIdle DEF At
  <2>6. QED
    BY <1>1, <1>3, <2>1, <2>2, <2>3, <2>4, <2>5, OneGoesOn, FetchesAssumption
<1>6. QED BY <1>4, <1>5 DEF SessionInv

(* The tokens stay what they were, or fewer sessions are left: the types   *)
(* of a step that draws no id.                                             *)
LEMMA NothingDrawn ==
  ASSUME SessionTypes, NEW c \in Callers, NEW k, calls' = [calls EXCEPT ![c] = k],
         Typed(k), k.at \notin {"rotated", "loggedIn"},
         authStatus' \in {"loading", "authenticated", "unauthenticated"},
         store' \in Held, cookie' \in {cookie, NoToken},
         sessions' \subseteq sessions, unexpired' = unexpired, issued' = issued,
         failedCall' \in BOOLEAN, disturbed' \in BOOLEAN
  PROVE  SessionTypes'
<1>1. /\ cookie' \in Held /\ sessions' \subseteq Token /\ issued <= issued'
      /\ \A t \in sessions' \cup {cookie'} : t.id <= issued'
  BY SessionFacts, NoneDrawn
<1>2. QED BY <1>1, SessionFacts, TypesGoOn

(* The profile came: an administrator's session is restored, another's is  *)
(* logged out.                                                             *)
LEMMA RestoreProfileStep ==
  ASSUME SessionInv, RestoreProfile
  PROVE  SessionInv'
<1>1. PICK token \in Token :
        /\ token = calls[Context].token
        /\ At(Context, {"me"}) /\ Context \in Callers
        /\ UNCHANGED <<cookie, sessions, unexpired, issued, failedCall, disturbed>>
  BY CallTokens DEF SessionInv, SessionTypes, RestoreProfile, At, Callers
<1>2. PICK k : k = IF token.type = "admin" THEN NotWaiting
                   ELSE [at |-> "logout", token |-> cookie]
  OBVIOUS
<1>3. /\ calls' = [calls EXCEPT ![Context] = k]
      /\ token.type = "admin" => store' = token /\ authStatus' = "authenticated"
      /\ token.type # "admin" => UNCHANGED <<store, authStatus>>
  BY <1>1, <1>2 DEF RestoreProfile, Await, Return
<1>4. SessionTypes'
  <2>1. Typed(k) /\ k.at \in {"idle", "logout"}
    BY <1>2, Calls, SessionFacts DEF SessionInv
  <2>2. store' \in Held /\ authStatus' \in {"loading", "authenticated", "unauthenticated"}
    BY <1>1, <1>3, SessionFacts DEF SessionInv, Held
  <2>3. QED BY <1>1, <1>3, <2>1, <2>2, SessionFacts, NothingDrawn DEF SessionInv
<1>5. ASSUME ~ disturbed' PROVE CallsSound'
  <2>1. /\ CallsSound /\ SessionTypes
        /\ token = cookie /\ token \in sessions /\ authStatus = "loading"
    BY <1>1, <1>5 DEF SessionInv, CallsSound, ContextSound, At
  <2>2. /\ token.type = "admin" => k.at = "idle"
        /\ token.type # "admin" => k.at = "logout" /\ k.token = cookie
    BY <1>2, Calls
  <2>3. ContextSound(k)'
    BY <1>1, <2>1, <2>2 DEF ContextSound
  <2>4. TabSound' /\ ~ failedCall'
    BY <1>1, <1>3, <2>1 DEF CallsSound, TabSound
  <2>5. k.at = "idle" => Agreed'
    BY <1>1, <1>3, <2>1, <2>2 DEF Agreed, Opens
  <2>6. \A d \in Callers \ {Context} : At(d, {"idle"})
    BY <1>1, <2>1, OthersIdle DEF At
  <2>7. QED
    BY <1>1, <1>3, <2>1, <2>3, <2>4, <2>5, <2>6, OneGoesOn, FetchesAssumption
<1>6. QED BY <1>4, <1>5 DEF SessionInv

(* The refresh of restoreSession was refused.                              *)
LEMMA RestoreRefusedStep ==
  ASSUME SessionInv, RestoreRefused
  PROVE  SessionInv'
<1>1. /\ At(Context, {"refresh"}) /\ Context \in Callers
      /\ calls[Context].token \notin sessions
      /\ authStatus' = "unauthenticated"
      /\ calls' = [calls EXCEPT ![Context] = NotWaiting]
      /\ UNCHANGED <<store, cookie, sessions, unexpired, issued, failedCall, disturbed>>
  BY DEF RestoreRefused, Return, Callers
<1>2. SessionTypes'
  BY <1>1, SessionFacts, Calls, NothingDrawn DEF SessionInv
<1>3. ASSUME ~ disturbed' PROVE CallsSound'
  <2>1. /\ CallsSound /\ SessionTypes
        /\ cookie \notin sessions /\ authStatus = "loading"
    BY <1>1, <1>3 DEF SessionInv, CallsSound, ContextSound, At
  <2>2. ContextSound(NotWaiting)' /\ Agreed'
    BY <1>1, <2>1, Calls DEF ContextSound, Agreed
  <2>3. TabSound' /\ ~ failedCall'
    BY <1>1, <2>1 DEF CallsSound, TabSound
  <2>4. \A d \in Callers \ {Context} : At(d, {"idle"})
    BY <1>1, <2>1, OthersIdle DEF At
  <2>5. QED
    BY <1>1, <2>1, <2>2, <2>3, <2>4, OneGoesOn, FetchesAssumption
<1>4. QED BY <1>2, <1>3 DEF SessionInv

(* Every handler the administration asks for admits an administrator.      *)
LEMMA AllRoutes ==
  ASSUME NEW handlers, NEW route
  PROVE  Routes(All(handlers, route)) \subseteq {route}
  BY DEF Routes, All

LEMMA AdminIsAdmitted ==
  ASSUME NEW route \in AdminRoutes
  PROVE  Admits(route, [type |-> "admin", roles |-> RolesOf("admin")])
<1>1. /\ Routes(UsersController) \subseteq {AdminOnly}
      /\ Routes(AdminsController) \subseteq {AdminOnly}
      /\ Routes(CitiesController) \subseteq {AdminOnly}
      /\ Routes(LocationsController) \subseteq {AdminOnly}
      /\ Routes(TalentCategoriesController) \subseteq {AdminOnly}
      /\ Routes(TalentSubCategoriesController) \subseteq {AdminOnly}
      /\ Routes(TalentController) \subseteq {AdminOnly}
      /\ Routes(MediaController) \subseteq {AdminOnly}
      /\ Routes(AdminBookingController) \subseteq {AdminOnly}
      /\ Routes(AdminMembershipController) \subseteq {AdminOnly}
      /\ Routes(AdminPaymentsController) \subseteq {AdminOnly}
      /\ Routes(AdminHeroController) \subseteq {AdminOnly}
      /\ Routes(DashboardController) \subseteq {AdminOnly}
  BY AllRoutes
     DEF UsersController, AdminsController, CitiesController, LocationsController,
         TalentCategoriesController, TalentSubCategoriesController, TalentController,
         MediaController, AdminBookingController, AdminMembershipController,
         AdminPaymentsController, AdminHeroController, DashboardController
<1>2. /\ BookingController["findOne"] = SignedIn
      /\ AuthController["changePassword"] = SignedIn
  BY DEF BookingController, AuthController
<1>3. route \in {AdminOnly, SignedIn}
  BY <1>1, <1>2 DEF AdminRoutes
<1>4. PICK user : user = [type |-> "admin", roles |-> RolesOf("admin")]
  OBVIOUS
<1>5. user # Nobody /\ user.roles = {"admin"}
  BY <1>4 DEF Nobody, RolesOf
<1>6. Reply(route, user) = 200
  BY <1>3, <1>5
     DEF Reply, AdminOnly, SignedIn, JwtAuthGuard, OptionalJwtAuthGuard, RolesGuard
<1>7. QED BY <1>4, <1>6 DEF Admits

(* A data call is served: to an administrator, without an error.           *)
LEMMA FetchServedStep ==
  ASSUME SessionInv, NEW c \in Callers, FetchServed(c)
  PROVE  SessionInv'
<1>1. /\ At(c, {"sent", "retry"})
      /\ calls' = [calls EXCEPT ![c] = NotWaiting]
      /\ failedCall' \in BOOLEAN
      /\ UNCHANGED <<authStatus, store, cookie, sessions, unexpired, issued, disturbed>>
  BY SessionFacts DEF SessionInv, FetchServed, Return
<1>2. SessionTypes'
  BY <1>1, SessionFacts, Calls, NothingDrawn DEF SessionInv
<1>3. ASSUME ~ disturbed' PROVE CallsSound'
  <2>1. /\ CallsSound /\ SessionTypes
    BY <1>1, <1>3 DEF SessionInv
  <2>2. c \in Fetches
    BY <1>1, <2>1 DEF CallsSound, ContextSound, At, Callers
  <2>3. Opens(cookie) /\ calls[c].token.type = "admin" /\ authStatus = "authenticated"
    BY <1>1, <2>1, <2>2 DEF CallsSound, FetchSound, At
  <2>4. ~ failedCall'
    <3>1. ~ \E route \in AdminRoutes :
              ~ Admits(route, [type |-> calls[c].token.type,
                               roles |-> RolesOf(calls[c].token.type)])
      BY <2>3, AdminIsAdmitted
    <3>2. QED BY <2>1, <3>1 DEF FetchServed, CallsSound
  <2>5. FetchSound(NotWaiting)' /\ Agreed'
    BY <1>1, <2>3, Calls DEF FetchSound, Agreed, Opens
  <2>6. TabSound'
    BY <1>1, <2>1 DEF CallsSound, TabSound
  <2>7. \A d \in Callers \ {c} : At(d, {"idle"})
    BY <1>1, <2>1, OthersIdle DEF At
  <2>8. c # Context
    BY <2>2, FetchesAssumption
  <2>9. QED
    BY <1>1, <2>1, <2>4, <2>5, <2>6, <2>7, <2>8, OneGoesOn
<1>4. QED BY <1>2, <1>3 DEF SessionInv

(* A data call is sent.                                                    *)
LEMMA FetchSendStep ==
  ASSUME SessionInv, NEW c \in Fetches, FetchSend(c)
  PROVE  SessionInv'
<1>1. PICK k : k = [at |-> "sent", token |-> store]
  OBVIOUS
<1>2. /\ authStatus = "authenticated" /\ At(c, {"idle"}) /\ c \in Callers
      /\ calls' = [calls EXCEPT ![c] = k]
      /\ disturbed' = (disturbed \/ \E d \in Callers : ~ At(d, {"idle"}))
      /\ UNCHANGED <<authStatus, store, cookie, sessions, unexpired, issued, failedCall>>
  BY <1>1 DEF FetchSend, Start, Await, Callers
<1>3. SessionTypes'
  <2>1. Typed(k) /\ k.at = "sent"
    BY <1>1, SessionFacts, Calls DEF SessionInv
  <2>2. disturbed' \in BOOLEAN
    BY <1>2
  <2>3. QED BY <1>2, <2>1, <2>2, SessionFacts, NothingDrawn DEF SessionInv
<1>4. ASSUME ~ disturbed' PROVE CallsSound'
  <2>1. /\ CallsSound /\ SessionTypes /\ \A d \in Callers : At(d, {"idle"})
    BY <1>2, <1>4, SessionFacts DEF SessionInv
  <2>2. Opens(cookie) /\ store.type = "admin"
    BY <1>2, <2>1 DEF CallsSound, Agreed, TabSound
  <2>3. k.at = "sent" /\ k.token = store
    BY <1>1
  <2>4. FetchSound(k)'
    BY <1>2, <2>2, <2>3 DEF FetchSound, Opens
  <2>5. TabSound' /\ ~ failedCall'
    BY <1>2, <2>1 DEF CallsSound, TabSound
  <2>6. c # Context
    BY FetchesAssumption
  <2>7. QED BY <1>2, <2>1, <2>3, <2>4, <2>5, <2>6, OneGoesOn
<1>5. QED BY <1>3, <1>4 DEF SessionInv

(* Its token had timed out: a refresh is asked for.                        *)
LEMMA FetchUnauthorizedStep ==
  ASSUME SessionInv, NEW c \in Callers, FetchUnauthorized(c)
  PROVE  SessionInv'
<1>1. PICK k : k = [at |-> "refresh", token |-> cookie]
  OBVIOUS
<1>2. /\ At(c, {"sent"}) /\ calls' = [calls EXCEPT ![c] = k]
      /\ UNCHANGED <<authStatus, store, cookie, sessions, unexpired, issued, failedCall,
                     disturbed>>
  BY <1>1 DEF FetchUnauthorized, Await
<1>3. SessionTypes'
  <2>1. Typed(k) /\ k.at = "refresh"
    BY <1>1, SessionFacts, Calls DEF SessionInv
  <2>2. QED BY <1>2, <2>1, SessionFacts, NothingDrawn DEF SessionInv
<1>4. ASSUME ~ disturbed' PROVE CallsSound'
  <2>1. /\ CallsSound /\ SessionTypes
    BY <1>2, <1>4 DEF SessionInv
  <2>2. c \in Fetches
    BY <1>2, <2>1 DEF CallsSound, ContextSound, At, Callers
  <2>3. Opens(cookie) /\ authStatus = "authenticated"
    BY <1>2, <2>1, <2>2 DEF CallsSound, FetchSound, At
  <2>4. k.at = "refresh" /\ k.token = cookie
    BY <1>1
  <2>5. FetchSound(k)'
    BY <1>2, <2>3, <2>4 DEF FetchSound, Opens
  <2>6. TabSound' /\ ~ failedCall'
    BY <1>2, <2>1 DEF CallsSound, TabSound
  <2>7. \A d \in Callers \ {c} : At(d, {"idle"})
    BY <1>2, <2>1, OthersIdle DEF At
  <2>8. c # Context
    BY <2>2, FetchesAssumption
  <2>9. QED BY <1>2, <2>1, <2>4, <2>5, <2>6, <2>7, <2>8, OneGoesOn
<1>5. QED BY <1>3, <1>4 DEF SessionInv

(* A data call ends in an error: never while its calls follow each other.  *)
LEMMA FetchFailsStep ==
  ASSUME SessionInv, NEW c \in Callers, FetchFails(c)
  PROVE  SessionInv'
<1>1. /\ c \in Fetches /\ calls' = [calls EXCEPT ![c] = NotWaiting]
      /\ failedCall' = TRUE
      /\ \/ At(c, {"refresh"}) /\ calls[c].token \notin sessions
         \/ At(c, {"retry"}) /\ calls[c].token \notin unexpired
      /\ UNCHANGED <<authStatus, store, cookie, sessions, unexpired, issued, disturbed>>
  BY DEF FetchFails, Return
<1>2. SessionTypes'
  BY <1>1, SessionFacts, Calls, NothingDrawn DEF SessionInv
<1>3. disturbed'
  <2>1. SUFFICES ASSUME CallsSound PROVE FALSE
    BY <1>1 DEF SessionInv
  <2>2. QED BY <1>1, <2>1 DEF CallsSound, FetchSound, Opens, At
<1>4. QED BY <1>2, <1>3 DEF SessionInv

(* Credentials are sent, by who is signed out.                             *)
LEMMA LoginSendStep ==
  ASSUME SessionInv, NEW type \in {"admin", "user"}, LoginSend(type)
  PROVE  SessionInv'
<1>1. PICK token : token = [id |-> 0, type |-> type]
  OBVIOUS
<1>2. PICK k : k = [at |-> "login", token |-> token]
  OBVIOUS
<1>3. /\ authStatus = "unauthenticated" /\ At(Context, {"idle"}) /\ Context \in Callers
      /\ calls' = [calls EXCEPT ![Context] = k]
      /\ disturbed' = (disturbed \/ \E d \in Callers : ~ At(d, {"idle"}))
      /\ UNCHANGED <<authStatus, store, cookie, sessions, unexpired, issued, failedCall>>
  BY <1>1, <1>2 DEF LoginSend, Start, Await, Callers
<1>4. SessionTypes'
  <2>1. Typed(k) /\ k.at = "login"
    BY <1>1, <1>2 DEF Typed
  <2>2. disturbed' \in BOOLEAN
    BY <1>3
  <2>3. QED BY <1>3, <2>1, <2>2, SessionFacts, NothingDrawn DEF SessionInv
<1>5. ASSUME ~ disturbed' PROVE CallsSound'
  <2>1. /\ CallsSound /\ SessionTypes /\ \A d \in Callers : At(d, {"idle"})
    BY <1>3, <1>5, SessionFacts DEF SessionInv
  <2>2. k.at = "login"
    BY <1>2
  <2>3. ContextSound(k)'
    BY <1>3, <2>2 DEF ContextSound
  <2>4. TabSound' /\ ~ failedCall'
    BY <1>3, <2>1 DEF CallsSound, TabSound
  <2>5. QED BY <1>3, <2>1, <2>2, <2>3, <2>4, OneGoesOn, FetchesAssumption
<1>6. QED BY <1>4, <1>5 DEF SessionInv

(* POST /auth/login.                                                       *)
LEMMA ServerLoginStep ==
  ASSUME SessionInv, ServerLogin
  PROVE  SessionInv'
<1>1. PICK type \in {"admin", "user"} :
        /\ type = calls[Context].token.type /\ At(Context, {"login"})
        /\ Context \in Callers
  BY CallTokens DEF SessionInv, ServerLogin, At, Callers
<1>2. PICK fresh : /\ fresh = Fresh(type) /\ fresh \in Token /\ fresh.type = type
                   /\ fresh \notin sessions /\ fresh # cookie
                   /\ issued' \in 0 .. MaxTokens
                   /\ unexpired' = unexpired \cup {fresh} /\ unexpired' \subseteq Token
                   /\ issued <= issued'
                   /\ \A token \in sessions \cup {cookie, fresh} : token.id <= issued'
  <2>1. Issue(type)
    BY <1>1 DEF ServerLogin
  <2>2. QED BY <2>1, Issued DEF SessionInv
<1>3. PICK k : k = [at |-> "loggedIn", token |-> fresh]
  OBVIOUS
<1>4. /\ sessions' = sessions \cup {fresh}
      /\ calls' = [calls EXCEPT ![Context] = k]
      /\ UNCHANGED <<authStatus, store, cookie, failedCall, disturbed>>
  BY <1>1, <1>2, <1>3 DEF ServerLogin, Await
<1>5. SessionTypes'
  <2>1. Typed(k)
    BY <1>2, <1>3, Calls
  <2>2. /\ sessions' \subseteq Token
        /\ \A token \in sessions' \cup {cookie'} : token.id <= issued'
    BY <1>2, <1>4, SessionFacts DEF SessionInv
  <2>3. k.at \in {"rotated", "loggedIn"} => k.token.id <= issued'
    BY <1>2, <1>3
  <2>4. QED
    BY <1>1, <1>2, <1>4, <2>1, <2>2, <2>3, SessionFacts, TypesGoOn DEF SessionInv
<1>6. ASSUME ~ disturbed' PROVE CallsSound'
  <2>1. CallsSound /\ SessionTypes
    BY <1>4, <1>6 DEF SessionInv
  <2>2. k.at = "loggedIn" /\ k.token = fresh
    BY <1>3
  <2>3. ContextSound(k)'
    BY <1>1, <1>4, <2>1, <2>2 DEF CallsSound, ContextSound, At
  <2>4. TabSound' /\ ~ failedCall'
    BY <1>4, <2>1 DEF CallsSound, TabSound
  <2>5. \A d \in Callers \ {Context} : At(d, {"idle"})
    BY <1>1, <2>1, OthersIdle DEF At
  <2>6. QED
    BY <1>1, <1>4, <2>1, <2>2, <2>3, <2>4, <2>5, OneGoesOn, FetchesAssumption
<1>7. QED BY <1>5, <1>6 DEF SessionInv

(* The login's answer: an administrator is signed in, another account is   *)
(* logged out again.                                                       *)
LEMMA LoginArrivesStep ==
  ASSUME SessionInv, LoginArrives
  PROVE  SessionInv'
<1>1. PICK token \in Token :
        /\ token = calls[Context].token /\ token.id <= issued
        /\ At(Context, {"loggedIn"}) /\ Context \in Callers
        /\ cookie' = token
        /\ UNCHANGED <<sessions, unexpired, issued, failedCall, disturbed>>
  BY CallTokens DEF SessionInv, SessionTypes, Drawn, LoginArrives, At, Callers
<1>2. PICK k : k = IF token.type = "admin" THEN NotWaiting
                   ELSE [at |-> "logout", token |-> token]
  OBVIOUS
<1>3. /\ calls' = [calls EXCEPT ![Context] = k]
      /\ token.type = "admin" => store' = token /\ authStatus' = "authenticated"
      /\ token.type # "admin" => UNCHANGED <<store, authStatus>>
  BY <1>1, <1>2 DEF LoginArrives, Await, Return
<1>4. SessionTypes'
  <2>1. Typed(k) /\ k.at \in {"idle", "logout"}
    BY <1>2, Calls
  <2>2. store' \in Held /\ authStatus' \in {"loading", "authenticated", "unauthenticated"}
    BY <1>1, <1>3, SessionFacts DEF SessionInv, Held
  <2>3. /\ cookie' \in Held /\ sessions' \subseteq Token /\ issued <= issued'
        /\ \A t \in sessions' \cup {cookie'} : t.id <= issued'
    BY <1>1, SessionFacts DEF SessionInv, Held
  <2>4. QED BY <1>1, <1>3, <2>1, <2>2, <2>3, SessionFacts, TypesGoOn DEF SessionInv
<1>5. ASSUME ~ disturbed' PROVE CallsSound'
  <2>1. /\ CallsSound /\ SessionTypes
        /\ token \in sessions /\ authStatus = "unauthenticated"
    BY <1>1, <1>5 DEF SessionInv, CallsSound, ContextSound, At
  <2>2. /\ token.type = "admin" => k.at = "idle"
        /\ token.type # "admin" => k.at = "logout" /\ k.token = token
    BY <1>2, Calls
  <2>3. ContextSound(k)'
    BY <1>1, <2>1, <2>2 DEF ContextSound
  <2>4. TabSound' /\ ~ failedCall'
    BY <1>1, <1>3, <2>1 DEF CallsSound, TabSound
  <2>5. k.at = "idle" => Agreed'
    BY <1>1, <1>3, <2>1, <2>2 DEF Agreed, Opens
  <2>6. \A d \in Callers \ {Context} : At(d, {"idle"})
    BY <1>1, <2>1, OthersIdle DEF At
  <2>7. QED
    BY <1>1, <1>3, <2>1, <2>3, <2>4, <2>5, <2>6, OneGoesOn, FetchesAssumption
<1>6. QED BY <1>4, <1>5 DEF SessionInv

(* Logout is asked for, served and answered.                               *)
LEMMA LogoutSendStep ==
  ASSUME SessionInv, LogoutSend
  PROVE  SessionInv'
<1>1. PICK k : k = [at |-> "logout", token |-> cookie]
  OBVIOUS
<1>2. /\ At(Context, {"idle"}) /\ Context \in Callers
      /\ calls' = [calls EXCEPT ![Context] = k]
      /\ disturbed' = (disturbed \/ \E d \in Callers : ~ At(d, {"idle"}))
      /\ UNCHANGED <<authStatus, store, cookie, sessions, unexpired, issued, failedCall>>
  BY <1>1 DEF LogoutSend, Start, Await, Callers
<1>3. SessionTypes'
  <2>1. Typed(k) /\ k.at = "logout"
    BY <1>1, SessionFacts, Calls DEF SessionInv
  <2>2. disturbed' \in BOOLEAN
    BY <1>2
  <2>3. QED BY <1>2, <2>1, <2>2, SessionFacts, NothingDrawn DEF SessionInv
<1>4. ASSUME ~ disturbed' PROVE CallsSound'
  <2>1. /\ CallsSound /\ SessionTypes /\ \A d \in Callers : At(d, {"idle"})
    BY <1>2, <1>4, SessionFacts DEF SessionInv
  <2>2. k.at = "logout" /\ k.token = cookie
    BY <1>1
  <2>3. ContextSound(k)'
    BY <1>2, <2>2 DEF ContextSound
  <2>4. TabSound' /\ ~ failedCall'
    BY <1>2, <2>1 DEF CallsSound, TabSound
  <2>5. QED BY <1>2, <2>1, <2>2, <2>3, <2>4, OneGoesOn, FetchesAssumption
<1>5. QED BY <1>3, <1>4 DEF SessionInv

LEMMA ServerLogoutStep ==
  ASSUME SessionInv, ServerLogout
  PROVE  SessionInv'
<1>1. PICK k : k = [at |-> "loggedOut", token |-> calls[Context].token]
  OBVIOUS
<1>2. /\ At(Context, {"logout"}) /\ Context \in Callers
      /\ sessions' = sessions \ {calls[Context].token}
      /\ calls' = [calls EXCEPT ![Context] = k]
      /\ UNCHANGED <<authStatus, store, cookie, unexpired, issued, failedCall, disturbed>>
  BY <1>1 DEF ServerLogout, Await, Callers
<1>3. SessionTypes'
  <2>1. Typed(k) /\ k.at = "loggedOut"
    BY <1>1, <1>2, CallTokens, Calls DEF SessionInv, At
  <2>2. QED BY <1>2, <2>1, SessionFacts, NothingDrawn DEF SessionInv
<1>4. ASSUME ~ disturbed' PROVE CallsSound'
  <2>1. /\ CallsSound /\ SessionTypes
    BY <1>2, <1>4 DEF SessionInv
  <2>2. k.at = "loggedOut"
    BY <1>1
  <2>3. ContextSound(k)'
    BY <2>2 DEF ContextSound
  <2>4. TabSound' /\ ~ failedCall'
    BY <1>2, <2>1 DEF CallsSound, TabSound
  <2>5. \A d \in Callers \ {Context} : At(d, {"idle"})
    BY <1>2, <2>1, OthersIdle DEF At
  <2>6. QED BY <1>2, <2>1, <2>2, <2>3, <2>4, <2>5, OneGoesOn, FetchesAssumption
<1>5. QED BY <1>3, <1>4 DEF SessionInv

LEMMA LogoutArrivesStep ==
  ASSUME SessionInv, LogoutArrives
  PROVE  SessionInv'
<1>1. /\ At(Context, {"loggedOut"}) /\ Context \in Callers
      /\ cookie' = NoToken /\ authStatus' = "unauthenticated"
      /\ store' = IF authStatus = "authenticated" THEN NoToken ELSE store
      /\ calls' = [calls EXCEPT ![Context] = NotWaiting]
      /\ UNCHANGED <<sessions, unexpired, issued, failedCall, disturbed>>
  BY DEF LogoutArrives, SignOut, Return, Callers
<1>2. SessionTypes'
  BY <1>1, SessionFacts, NoneDrawn, Calls, NothingDrawn DEF SessionInv
<1>3. ASSUME ~ disturbed' PROVE CallsSound'
  <2>1. CallsSound /\ SessionTypes
    BY <1>1, <1>3 DEF SessionInv
  <2>2. ContextSound(NotWaiting)' /\ Agreed'
    BY <1>1, <2>1, NoneDrawn, Calls DEF ContextSound, Agreed
  <2>3. TabSound' /\ ~ failedCall'
    BY <1>1, <2>1 DEF CallsSound, TabSound
  <2>4. \A d \in Callers \ {Context} : At(d, {"idle"})
    BY <1>1, <2>1, OthersIdle DEF At
  <2>5. QED BY <1>1, <2>1, <2>2, <2>3, <2>4, OneGoesOn, FetchesAssumption
<1>4. QED BY <1>2, <1>3 DEF SessionInv

(* An answer is lost: from then on the calls are disturbed.                *)
LEMMA AnswerLostStep ==
  ASSUME SessionInv, NEW c \in Callers, AnswerLost(c)
  PROVE  SessionInv'
<1>1. /\ store' \in {store, NoToken} /\ authStatus' \in {authStatus, "unauthenticated"}
      /\ calls' = [calls EXCEPT ![c] = NotWaiting]
      /\ failedCall' \in BOOLEAN /\ disturbed' = TRUE
      /\ UNCHANGED <<cookie, sessions, unexpired, issued>>
  BY DEF AnswerLost, SignOut, Return
<1>2. SessionTypes'
  BY <1>1, SessionFacts, NoneDrawn, Calls, NothingDrawn DEF SessionInv
<1>3. QED BY <1>1, <1>2 DEF SessionInv

(* The access tokens time out, but for those just handed out.              *)
LEMMA TokensExpireStep ==
  ASSUME SessionInv, TokensExpire
  PROVE  SessionInv'
<1>1. /\ unexpired' = {calls[c].token : c \in {d \in Callers :
                         At(d, {"rotated", "retry", "me", "loggedIn"})}}
      /\ UNCHANGED <<authStatus, store, cookie, sessions, issued, calls, failedCall,
                     disturbed>>
  BY DEF TokensExpire
<1>2. unexpired' \subseteq Token
  BY <1>1, CallTokens DEF SessionInv
<1>3. SessionTypes'
  BY <1>1, <1>2 DEF SessionInv, SessionTypes, SessionTypeOK, Typed, Drawn, At
<1>4. ASSUME ~ disturbed' PROVE CallsSound'
  <2>1. CallsSound
    BY <1>1, <1>4 DEF SessionInv
  <2>2. ASSUME NEW c \in Fetches PROVE FetchSound(calls[c])'
    <3>1. At(c, {"rotated", "retry"}) => calls[c].token \in unexpired'
      BY <1>1 DEF At, Callers
    <3>2. FetchSound(calls[c])
      BY <2>1 DEF CallsSound
    <3>3. QED BY <1>1, <3>1, <3>2 DEF FetchSound, Opens, At
  <2>3. ContextSound(calls[Context])' /\ OneCall' /\ TabSound' /\ ~ failedCall'
    BY <1>1, <2>1 DEF CallsSound, ContextSound, OneCall, TabSound, At
  <2>4. (\A c \in Callers : At(c, {"idle"}))' => Agreed'
    BY <1>1, <2>1 DEF CallsSound, Agreed, At, Opens
  <2>5. QED BY <2>2, <2>3, <2>4 DEF CallsSound
<1>5. QED BY <1>3, <1>4 DEF SessionInv

(* Another page's step leaves the session alone.                           *)
LEMMA SessionFrame ==
  ASSUME SessionInv, UNCHANGED sessionVars
  PROVE  SessionInv'
<1>1. UNCHANGED <<authStatus, store, cookie, sessions, unexpired, issued, calls,
                  failedCall, disturbed>>
  BY DEF sessionVars
<1>2. SessionTypes'
  BY <1>1 DEF SessionInv, SessionTypes, SessionTypeOK, Typed, Drawn, At
<1>3. ASSUME ~ disturbed PROVE CallsSound'
  <2>1. CallsSound
    BY <1>3 DEF SessionInv
  <2>2. /\ ContextSound(calls[Context])' /\ OneCall' /\ TabSound' /\ ~ failedCall'
        /\ (\A c \in Callers : At(c, {"idle"}))' => Agreed'
    BY <1>1, <2>1
       DEF CallsSound, ContextSound, OneCall, TabSound, At, Agreed, Opens
  <2>3. (\A c \in Fetches : FetchSound(calls[c]))'
    BY <1>1, <2>1 DEF CallsSound, FetchSound, Opens
  <2>4. QED BY <2>2, <2>3 DEF CallsSound
<1>4. QED BY <1>1, <1>2, <1>3 DEF SessionInv

LEMMA SessionInitially ==
  ASSUME SessionInit
  PROVE  SessionInv
<1>1. PICK first : first = {[id |-> 1, type |-> "admin"], [id |-> 2, type |-> "user"]}
  OBVIOUS
<1>2. /\ first \subseteq Token /\ \A token \in first \cup {NoToken} : token.id <= 2
      /\ NoToken \in Held
  <2>1. \A token \in first : token \in Token /\ token.id <= 2
    BY <1>1, TokensAssumption DEF Token
  <2>2. QED BY <2>1, Tokens DEF Held
<1>3. /\ authStatus = "loading" /\ store = NoToken /\ sessions = first
      /\ cookie \in first \cup {NoToken} /\ unexpired = {} /\ issued = 2
      /\ failedCall = FALSE /\ disturbed = FALSE
  BY <1>1 DEF SessionInit
<1>4. PICK k : k = [at |-> "refresh", token |-> cookie]
  OBVIOUS
<1>5. calls = [c \in Callers |-> IF c = Context THEN k ELSE NotWaiting]
  BY <1>4 DEF SessionInit
<1>6. cookie \in Held
  BY <1>2, <1>3 DEF Held
<1>7. /\ DOMAIN calls = Callers /\ \A c \in Callers : Typed(calls[c])
  BY <1>4, <1>5, <1>6, Calls
<1>8. /\ calls[Context].at = "refresh" /\ calls[Context].token = cookie
      /\ \A c \in Callers \ {Context} : calls[c].at = "idle"
      /\ Context \in Callers
  BY <1>4, <1>5, Calls DEF Callers
<1>9. SessionTypes
  <2>1. \A c \in Callers : ~ At(c, {"rotated", "loggedIn"})
    BY <1>8 DEF At
  <2>2. SessionTypeOK
    <3>1. {failedCall, disturbed} \subseteq BOOLEAN
      BY <1>3
    <3>2. issued \in 0 .. MaxTokens
      BY <1>3, TokensAssumption
    <3>3. {store, cookie} \subseteq Token \cup {NoToken}
      BY <1>3, <1>6 DEF Held
    <3>4. sessions \cup unexpired \subseteq Token
      BY <1>2, <1>3
    <3>5. QED BY <1>3, <1>7, <3>1, <3>2, <3>3, <3>4 DEF SessionTypeOK
  <2>3. \A token \in sessions \cup {cookie} : Drawn(token)
    BY <1>2, <1>3 DEF Drawn
  <2>4. QED BY <1>7, <2>1, <2>2, <2>3 DEF SessionTypes
<1>10. CallsSound
  <2>1. OneCall /\ ~ \A c \in Callers : At(c, {"idle"})
    BY <1>8 DEF OneCall, At
  <2>2. TabSound /\ ~ failedCall
    BY <1>3 DEF TabSound
  <2>3. ContextSound(calls[Context])
    BY <1>3, <1>8 DEF ContextSound
  <2>4. \A c \in Fetches : FetchSound(calls[c])
    BY <1>8, FetchesAssumption DEF FetchSound, Callers
  <2>5. QED BY <2>1, <2>2, <2>3, <2>4 DEF CallsSound
<1>11. QED BY <1>9, <1>10 DEF SessionInv

LEMMA AnsweredSteps ==
  ASSUME SessionInv, NEW c \in Callers, Answered(c)
  PROVE  SessionInv'
<1>1. ASSUME ServerRefresh(c) \/ FetchServed(c) \/ FetchUnauthorized(c) PROVE SessionInv'
  BY <1>1, ServerRefreshStep, FetchServedStep, FetchUnauthorizedStep
<1>2. ASSUME FetchRefreshed(c) \/ FetchFails(c) PROVE SessionInv'
  BY <1>2, FetchRefreshedStep, FetchFailsStep
<1>3. ASSUME RestoreRefreshed \/ RestoreProfile \/ RestoreRefused PROVE SessionInv'
  BY <1>3, RestoreRefreshedStep, RestoreProfileStep, RestoreRefusedStep
<1>4. ASSUME ServerLogin \/ LoginArrives \/ ServerLogout \/ LogoutArrives
      PROVE  SessionInv'
  BY <1>4, ServerLoginStep, LoginArrivesStep, ServerLogoutStep, LogoutArrivesStep
<1>5. QED BY <1>1, <1>2, <1>3, <1>4 DEF Answered

LEMMA SessionSteps ==
  ASSUME SessionInv, [Next]_frontEndVars
  PROVE  SessionInv'
<1>1. ASSUME SessionNext PROVE SessionInv'
  BY <1>1, ReloadStep, AnsweredSteps, AnswerLostStep, FetchSendStep, LoginSendStep,
     LogoutSendStep, TokensExpireStep
  DEF SessionNext
<1>2. ASSUME UNCHANGED sessionVars PROVE SessionInv'
  BY <1>2, SessionFrame
<1>3. QED
  BY <1>1, <1>2
  DEF Next, Session, List, Form, Dialog, Gallery, Site, Payment, frontEndVars

(* What is so of a tab's session in every state, its types among it.       *)
LEMMA SessionHolds == Spec => []SessionInv
<1>1. Init => SessionInv
  BY SessionInitially DEF Init
<1>2. SessionInv /\ [Next]_frontEndVars => SessionInv'
  BY SessionSteps
<1>3. QED BY <1>1, <1>2, PTL DEF Spec

(* authFetch's silent refresh: while the calls of a page follow each other *)
(* and no answer is lost, none ends in an error, whenever the access       *)
(* tokens expire: the cookie then opens an administrator's session, and a  *)
(* token just brought has not expired when the call is retried.            *)
THEOREM CallsOutlive == Spec => []CallsOutliveTheToken
<1>1. SessionInv => CallsOutliveTheToken
  BY DEF SessionInv, CallsSound, CallsOutliveTheToken
<1>2. QED BY <1>1, SessionHolds, PTL

(* AuthContext's login, logout and restoreSession: while the calls of a    *)
(* tab follow each other and none is lost, a tab that shows the login form *)
(* with no call under way holds no access token, and the cookie of its     *)
(* browser opens no session.  It is not so when the answer to a logout was *)
(* lost, which the tab does not look at.                                   *)
THEOREM SignedOutIsClean == Spec => []SignedOutTabIsClean
<1>1. SessionInv => SignedOutTabIsClean
  <2>1. SUFFICES ASSUME SessionInv, ~ disturbed, authStatus = "unauthenticated",
                        At(Context, {"idle"})
                 PROVE  store = NoToken /\ cookie \notin sessions
    BY DEF SignedOutTabIsClean
  <2>2. CallsSound
    BY <2>1 DEF SessionInv
  <2>3. \A c \in Fetches : At(c, {"idle"})
    BY <2>1, <2>2 DEF CallsSound, FetchSound, At
  <2>4. Agreed /\ TabSound
    BY <2>1, <2>2, <2>3 DEF CallsSound, Callers
  <2>5. QED BY <2>1, <2>4 DEF Agreed, TabSound
<1>2. QED BY <1>1, SessionHolds, PTL

-----------------------------------------------------------------------------
(***************************************************************************)
(* Dialogs.  What a dialog with a way to reset its field shows, untouched, *)
(* is what the list had for the row it was opened on; the one that resets  *)
(* when it closes is blank while it is closed.                             *)
(***************************************************************************)
Texts == Contents \cup {Blank}
Save == [at : {"API", "back"}, entry : Entries \cup {New}, value : Texts]

DialogInv ==
  /\ DialogTypeOK
  /\ DialogEditsItsRow
  /\ dialog.resets = "close" /\ opened = Closed => field = Blank

LEMMA DialogFacts ==
  ASSUME DialogInv
  PROVE  /\ dialog \in AllDialogs
         /\ stored \in [Entries -> Texts] /\ tableRows \in [Entries -> Texts]
         /\ opened \in Entries \cup {New, Closed}
         /\ field \in Texts /\ due \in Texts \cup {Anything}
         /\ saving \in [Saves -> {NoSave} \cup Save]
  BY DEF DialogInv, DialogTypeOK, Texts, Save

LEMMA OwnText ==
  ASSUME DialogInv, NEW o
  PROVE  Own(o) \in Texts
  BY DialogFacts DEF Own, Texts

(* The dialog turns to another row, or closes.                             *)
LEMMA TurnStep ==
  ASSUME DialogInv, NEW to \in Entries \cup {New, Closed}, Turn(to), dialog' = dialog,
         opened = Closed \/ to = Closed
  PROVE  /\ opened' \in Entries \cup {New, Closed}
         /\ field' \in Texts /\ due' \in Texts
         /\ DialogEditsItsRow'
         /\ dialog'.resets = "close" /\ opened' = Closed => field' = Blank
<1>1. /\ opened' = to /\ due' = Own(to) /\ dialog' = dialog
      /\ field' = IF \/ dialog.resets = "row" /\ {opened, to} \cap Entries # {}
                     \/ dialog.resets = "open" /\ to # Closed
                     \/ dialog.resets = "close" /\ to = Closed
                    THEN Own(to) ELSE field
  BY DEF Turn
<1>2. due' \in Texts /\ field' \in Texts
  BY <1>1, OwnText, DialogFacts
<1>3. dialog.resets = "close" => Own(to) = Blank
  BY DEF Own
<1>4. ASSUME dialog.resets \in {"row", "open", "close"}, to \in Entries
      PROVE  field' = due'
  <2>1. to # Closed /\ opened = Closed
    BY <1>4, EntriesAssumption
  <2>2. CASE dialog.resets \in {"row", "open"}
    BY <1>1, <1>4, <2>1, <2>2
  <2>3. CASE dialog.resets = "close"
    <3>1. field' = field /\ field = Blank /\ due' = Blank
      BY <1>1, <1>3, <2>1, <2>3 DEF DialogInv
    <3>2. QED BY <3>1
  <2>4. QED BY <1>4, <2>2, <2>3
<1>5. QED BY <1>1, <1>2, <1>3, <1>4 DEF DialogEditsItsRow

(* One save goes on to q. *)
LEMMA SavingStep ==
  ASSUME DialogInv, NEW s \in Saves, NEW q \in {NoSave} \cup Save,
         saving' = [saving EXCEPT ![s] = q]
  PROVE  saving' \in [Saves -> {NoSave} \cup Save]
  BY DialogFacts

LEMMA SaveInFlight ==
  ASSUME DialogInv, NEW s \in Saves, saving[s].at \in {"API", "back"}
  PROVE  saving[s] \in Save /\ saving[s].value \in Texts
<1>1. saving[s] # NoSave
  BY DEF NoSave
<1>2. QED BY <1>1, DialogFacts DEF Save

LEMMA DialogSteps ==
  ASSUME DialogInv, DialogNext
  PROVE  DialogInv'
<1>1. ASSUME NEW o \in Entries \cup {New}, OpenDialog(o) PROVE DialogInv'
  <2>1. /\ opened = Closed /\ Turn(o)
        /\ UNCHANGED <<dialog, stored, tableRows, saving>>
    BY <1>1 DEF OpenDialog
  <2>2. QED
    BY <2>1, TurnStep, DialogFacts DEF DialogInv, DialogTypeOK, Texts
<1>2. ASSUME NEW v \in Contents, TypeIn(v) PROVE DialogInv'
  <2>1. /\ opened # Closed /\ field' = v /\ due' = Anything
        /\ UNCHANGED <<dialog, stored, tableRows, opened, saving>>
    BY <1>2 DEF TypeIn
  <2>2. QED
    BY <2>1, DialogFacts DEF DialogInv, DialogTypeOK, Texts, DialogEditsItsRow
<1>3. ASSUME CloseDialog PROVE DialogInv'
  <2>1. Turn(Closed) /\ UNCHANGED <<dialog, stored, tableRows, saving>>
    BY <1>3 DEF CloseDialog
  <2>2. QED
    BY <2>1, TurnStep, DialogFacts DEF DialogInv, DialogTypeOK, Texts
<1>4. ASSUME NEW s \in Saves, SaveRow(s) \/ SaveFails(s) PROVE DialogInv'
  <2>1. PICK q \in {NoSave} \cup Save : saving' = [saving EXCEPT ![s] = q]
    <3>1. CASE SaveRow(s)
      <4> DEFINE q == [at |-> "API", entry |-> opened, value |-> field]
      <4>1. q \in Save /\ saving' = [saving EXCEPT ![s] = q]
        BY <3>1, DialogFacts DEF SaveRow, Save
      <4>2. QED BY <4>1
    <3>2. QED BY <1>4, <3>1 DEF SaveFails
  <2>2. UNCHANGED <<dialog, stored, tableRows, opened, field, due>>
    BY <1>4 DEF SaveRow, SaveFails
  <2>3. saving' \in [Saves -> {NoSave} \cup Save]
    BY <2>1, SavingStep
  <2>4. QED
    BY <2>2, <2>3 DEF DialogInv, DialogTypeOK, DialogEditsItsRow, Save, Texts
<1>5. ASSUME NEW s \in Saves, SaveServed(s) PROVE DialogInv'
  <2>1. /\ stored' = [e \in Entries |-> IF e = saving[s].entry
                                         THEN saving[s].value ELSE stored[e]]
        /\ saving' = [saving EXCEPT ![s].at = "back"] /\ saving[s].at = "API"
        /\ UNCHANGED <<dialog, tableRows, opened, field, due>>
    BY <1>5 DEF SaveServed
  <2>2. saving[s] \in Save /\ saving[s].value \in Texts
    BY <2>1, SaveInFlight
  <2>3. stored' \in [Entries -> Texts]
    BY <2>1, <2>2, DialogFacts
  <2>4. PICK q \in Save : q = [saving[s] EXCEPT !.at = "back"]
    BY <2>2 DEF Save
  <2>5. saving' = [saving EXCEPT ![s] = q]
    BY <2>1, <2>4
  <2>6. saving' \in [Saves -> {NoSave} \cup Save]
    BY <2>5, SavingStep
  <2>7. QED
    BY <2>1, <2>3, <2>6, DialogFacts
       DEF DialogInv, DialogTypeOK, Texts, Save, DialogEditsItsRow
<1>6. ASSUME NEW s \in Saves, SaveArrives(s) PROVE DialogInv'
  <2>1. /\ saving[s].at = "back" /\ saving' = [saving EXCEPT ![s] = NoSave]
        /\ UNCHANGED <<dialog, stored>>
        /\ \/ /\ ~ dialog.closes
              /\ tableRows' = [tableRows EXCEPT ![saving[s].entry] = saving[s].value]
              /\ UNCHANGED <<opened, field, due>>
           \/ /\ dialog.resets = "mount"
              /\ opened' = Closed /\ field' = Blank /\ due' = Blank
              /\ tableRows' = stored
           \/ Turn(Closed) /\ UNCHANGED tableRows
    BY <1>6 DEF SaveArrives
  <2>2. saving[s].value \in Texts
    BY <2>1, SaveInFlight
  <2>3. saving' \in [Saves -> {NoSave} \cup [at : {"API", "back"},
                       entry : Entries \cup {New}, value : Contents \cup {Blank}]]
    BY <2>1, SavingStep DEF Save, Texts
  <2>4. CASE /\ ~ dialog.closes
             /\ tableRows' = [tableRows EXCEPT ![saving[s].entry] = saving[s].value]
             /\ UNCHANGED <<opened, field, due>>
    <3>1. tableRows' \in [Entries -> Texts]
      BY <2>2, <2>4, DialogFacts
    <3>2. QED
      BY <2>1, <2>3, <2>4, <3>1, DialogFacts
         DEF DialogInv, DialogTypeOK, Texts, DialogEditsItsRow
  <2>5. CASE /\ dialog.resets = "mount"
             /\ opened' = Closed /\ field' = Blank /\ due' = Blank
             /\ tableRows' = stored
    BY <2>1, <2>3, <2>5, DialogFacts, EntriesAssumption
       DEF DialogInv, DialogTypeOK, Texts, DialogEditsItsRow
  <2>6. CASE Turn(Closed) /\ UNCHANGED tableRows
    BY <2>1, <2>3, <2>6, TurnStep, DialogFacts DEF DialogInv, DialogTypeOK, Texts
  <2>7. QED BY <2>1, <2>4, <2>5, <2>6
<1>7. ASSUME ListReloads PROVE DialogInv'
  <2>1. /\ tableRows' = stored /\ UNCHANGED <<dialog, stored, opened, saving>>
        /\ \/ dialog.resets = "mount" /\ field' = Own(opened) /\ due' = Own(opened)
           \/ UNCHANGED <<field, due>>
    BY <1>7 DEF ListReloads
  <2>2. field' \in Texts /\ due' \in Texts \cup {Anything}
    BY <2>1, OwnText, DialogFacts
  <2>3. QED
    BY <2>1, <2>2, DialogFacts DEF DialogInv, DialogTypeOK, Texts, DialogEditsItsRow
<1>8. QED
  BY <1>1, <1>2, <1>3, <1>4, <1>5, <1>6, <1>7 DEF DialogNext

LEMMA DialogInitially ==
  ASSUME DialogInit
  PROVE  DialogInv
  BY EntriesAssumption
  DEF DialogInit, DialogInv, DialogTypeOK, DialogEditsItsRow

LEMMA DialogFrame ==
  ASSUME DialogInv, UNCHANGED dialogVars
  PROVE  DialogInv'
  BY DEF dialogVars, DialogInv, DialogTypeOK, DialogEditsItsRow

LEMMA DialogAlways == Spec => []DialogInv
<1>1. Init => DialogInv
  BY DialogInitially DEF Init
<1>2. DialogInv /\ [Next]_frontEndVars => DialogInv'
  BY DialogSteps, DialogFrame
  DEF Next, Session, List, Form, Dialog, Gallery, Site, Payment, frontEndVars
<1>3. QED BY <1>1, <1>2, PTL DEF Spec

(* The dialogs that reset their field (SubCategoryFormModal, RenameFolder  *)
(* and ChangePasswordModal, and not those of cities, locations,            *)
(* categories, plans and media): however such a dialog was closed,         *)
(* reopened or overtaken by the answers to earlier saves, what it would    *)
(* send untouched is what the list had for its row when it was opened.     *)
THEOREM DialogsEditTheirRow == Spec => []DialogEditsItsRow
<1>1. DialogInv => DialogEditsItsRow
  BY DEF DialogInv
<1>2. QED BY <1>1, DialogAlways, PTL

-----------------------------------------------------------------------------
(***************************************************************************)
(* Checkout.                                                               *)
(***************************************************************************)
LEMMA CheckoutSteps ==
  ASSUME CheckoutTypeOK, CheckoutNext
  PROVE  CheckoutTypeOK'
<1>1. ASSUME CheckoutAnswered PROVE CheckoutTypeOK'
  BY <1>1, PollsAssumption
  DEF CheckoutTypeOK, CheckoutAnswered, Subscribed, Ordered, ScriptSettles,
      CheckoutOpens, SubscribeFails, StatusArrives, StatusFails, TimerFires,
      statusVars, buttonVars
<1>2. ASSUME Click \/ Dismiss \/ Pays \/ VisitAccount \/ Unmount PROVE CheckoutTypeOK'
  BY <1>2, PollsAssumption
  DEF CheckoutTypeOK, Click, Dismiss, Pays, VisitAccount, Unmount,
      StatusMounts, statusVars, buttonVars
<1>3. ASSUME WebhookLands PROVE CheckoutTypeOK'
  <2>1. paid' = TRUE /\ UNCHANGED <<button, script, shown, polling, pollCount>>
    BY <1>3 DEF WebhookLands, buttonVars, statusVars
  <2>2. paid' \in BOOLEAN
    BY <2>1
  <2>3. QED BY <2>1, <2>2 DEF CheckoutTypeOK
<1>4. QED BY <1>1, <1>2, <1>3 DEF CheckoutNext

-----------------------------------------------------------------------------
(***************************************************************************)
(* CustomerTab, the rest of its types.  An access token that is good is    *)
(* that of an account, so a list that loads is of an account.              *)
(***************************************************************************)
Genuine(t) == t.valid => t.account \in Accounts
Forms == {"closed", "idle", "submitting", "success"}
Histories == Accounts \cup {NotListed, "error"}

SiteRest ==
  /\ known \subseteq Accounts
  /\ form \in Forms /\ contact \in BOOLEAN
  /\ lapped \in BOOLEAN /\ misbooked \in BOOLEAN /\ history \in Histories
  /\ authCalls["login"] \in Accounts \cup {Idle}
  /\ \A t \in listing \cup {visitor.token} : Genuine(t)

LEMMA ShownRest ==
  ASSUME SiteRest, NEW p, NEW v, Genuine(v.token), Show(p, v)
  PROVE  /\ history' \in Histories /\ lapped' \in BOOLEAN
         /\ \A t \in listing' \cup {visitor'.token} : Genuine(t)
<1>1. /\ visitor' = v /\ history' \in {history, NotListed}
      /\ listing' \subseteq listing \cup {v.token}
  BY DEF Show
<1>2. lapped' \in BOOLEAN
  BY DEF Show
<1>3. QED BY <1>1, <1>2 DEF SiteRest, Histories

LEMMA LeftRest ==
  ASSUME SiteRest, NEW p, Leave(p) \/ UNCHANGED <<bookingForm, request>>
  PROVE  form' \in Forms /\ contact' \in BOOLEAN
  BY DEF SiteRest, Leave, bookingForm, Forms

LEMMA SignedInIsGenuine ==
  ASSUME NEW a \in Accounts
  PROVE  Genuine(SignedInAs(a).token)
  BY DEF Genuine, SignedInAs, AccessOf

(* A call that returns, of an account if it is a login.                    *)
LEMMA CallEnds ==
  ASSUME SiteInv, SiteRest, NEW name \in {"restore", "login", "logout"},
         Returned(name)
  PROVE  authCalls'["login"] \in Accounts \cup {Idle}
  BY DEF SiteInv, SiteTypes, SiteRest, Returned, Pending

LEMMA SessionsRest ==
  ASSUME SiteInv, SiteRest, Restored \/ NotRestored \/ SignInArrives \/ SignOutArrives
  PROVE  SiteRest'
<1>1. ASSUME NEW p, NEW v, Genuine(v.token), Show(p, v),
             NEW q, Leave(q) \/ UNCHANGED <<bookingForm, request>>,
             NEW name \in {"restore", "login", "logout"}, Returned(name),
             UNCHANGED <<known, misbooked>>
      PROVE  SiteRest'
  BY <1>1, ShownRest, LeftRest, CallEnds DEF SiteRest
<1>2. ASSUME Restored PROVE SiteRest'
  <2>1. Genuine(SignedInAs(authCalls["restore"]).token)
    BY <1>2, SignedInIsGenuine DEF Restored
  <2>2. QED BY <1>1, <1>2, <2>1 DEF Restored
<1>3. ASSUME NotRestored PROVE SiteRest'
  <2>1. Unrestored.token = visitor.token
    BY DEF SiteInv, SiteTypes, Visitors, Unrestored
  <2>2. Genuine(Unrestored.token)
    BY <2>1 DEF SiteRest
  <2>3. QED BY <1>1, <1>3, <2>2 DEF NotRestored
<1>4. ASSUME SignInArrives PROVE SiteRest'
  <2>1. authCalls["login"] \in Accounts
    BY <1>4 DEF SignInArrives, SiteRest
  <2>2. QED BY <1>1, <1>4, <2>1, SignedInIsGenuine DEF SignInArrives
<1>5. ASSUME SignOutArrives PROVE SiteRest'
  <2>1. Genuine(SignedOut.token)
    BY DEF Genuine, SignedOut, NoAccess
  <2>2. QED BY <1>1, <1>5, <2>1 DEF SignOutArrives
<1>6. QED BY <1>2, <1>3, <1>4, <1>5

LEMMA PagesRest ==
  ASSUME SiteInv, SiteRest, CreateArrives \/ \E p \in Places : Go(p)
  PROVE  SiteRest'
<1>1. Genuine(visitor.token)
  BY DEF SiteRest
<1>2. ASSUME NEW p \in Places, Go(p) PROVE SiteRest'
  BY <1>1, <1>2, ShownRest, LeftRest DEF Go, SiteRest
<1>3. ASSUME CreateArrives, request.page = "quick" PROVE SiteRest'
  BY <1>1, <1>3, ShownRest DEF CreateArrives, SiteRest, Forms
<1>4. ASSUME CreateArrives, request.page # "quick" PROVE SiteRest'
  BY <1>4 DEF CreateArrives, SiteRest, Forms
<1>5. QED BY <1>2, <1>3, <1>4

LEMMA ListRest ==
  ASSUME SiteInv, SiteRest, NEW token \in listing, ListArrives(token)
  PROVE  SiteRest'
<1>1. /\ listing' = listing \ {token}
      /\ history' = IF \A r \in MemberRoutes : Admits(r, Bearer(token))
                      THEN token.account ELSE "error"
      /\ UNCHANGED <<visitor, known, authCalls, form, contact, misbooked, lapped>>
  BY DEF ListArrives, bookingForm
<1>2. SignedIn \in MemberRoutes
  BY DEF MemberRoutes, MembershipController
<1>3. ~ token.valid => ~ Admits(SignedIn, Bearer(token))
  BY DEF Bearer, Admits, Reply, SignedIn, JwtAuthGuard
<1>4. history' \in Histories
  <2>1. CASE token.valid
    BY <1>1, <2>1 DEF SiteRest, Genuine, Histories
  <2>2. CASE ~ token.valid
    BY <1>1, <1>2, <1>3, <2>2 DEF Histories
  <2>3. QED BY <2>1, <2>2
<1>5. QED BY <1>1, <1>4 DEF SiteRest

LEMMA CallsRest ==
  ASSUME SiteInv, SiteRest,
         \/ \E a \in Accounts : SignIn(a) \/ Register(a)
         \/ AuthFails("login") \/ SignOutSend
  PROVE  SiteRest'
<1>1. /\ known' \subseteq Accounts
      /\ UNCHANGED <<visitor, form, contact, misbooked, history, listing, lapped>>
  BY DEF SiteRest, SignIn, Register, AuthFails, SignOutSend, bookingForm
<1>2. authCalls'["login"] \in Accounts \cup {Idle}
  BY DEF SiteInv, SiteTypes, SiteRest, SignIn, Register, AuthFails, SignOutSend,
         Returned, Pending
<1>3. QED BY <1>1, <1>2 DEF SiteRest

LEMMA FormsRest ==
  ASSUME SiteInv, SiteRest,
         \/ OpenModal \/ CloseModal \/ TypeContact \/ ChooseTalent \/ SubmitBooking
         \/ CreateServed \/ CreateFails
  PROVE  SiteRest'
<1>1. /\ form' \in Forms
      /\ contact' \in {contact, TRUE, FALSE}
      /\ UNCHANGED <<visitor, known, authCalls, history, listing, lapped>>
  BY DEF SiteRest, OpenModal, CloseModal, TypeContact, ChooseTalent, SubmitBooking,
         CreateServed, CreateFails, bookingForm, Forms
<1>2. contact' \in BOOLEAN
  BY <1>1 DEF SiteRest
<1>3. misbooked' \in BOOLEAN
  <2>1. CASE CreateServed
    BY <2>1 DEF CreateServed
  <2>2. CASE ~ CreateServed
    BY <2>2 DEF SiteRest, OpenModal, CloseModal, TypeContact, ChooseTalent,
            SubmitBooking, CreateFails
  <2>3. QED BY <2>1, <2>2
<1>4. QED BY <1>1, <1>2, <1>3 DEF SiteRest

LEMMA ExpiryRest ==
  ASSUME SiteInv, SiteRest, TokenExpires
  PROVE  SiteRest'
<1>1. /\ visitor' = [visitor EXCEPT !.token = Expired(@)]
      /\ listing' = {Expired(t) : t \in listing}
      /\ UNCHANGED <<known, authCalls, form, contact, misbooked, history, lapped>>
  BY DEF TokenExpires, bookingForm
<1>2. visitor.token \in AccessTokens /\ listing \subseteq AccessTokens
      /\ visitor'.token = Expired(visitor.token)
  BY <1>1 DEF SiteInv, SiteTypes, Visitors
<1>3. \A t \in listing' \cup {visitor'.token} : Genuine(t)
  BY <1>1, <1>2, ExpiredToken DEF Genuine
<1>4. QED BY <1>1, <1>3 DEF SiteRest

LEMMA RestSteps ==
  ASSUME SiteInv, SiteRest, [Next]_frontEndVars
  PROVE  SiteRest'
<1>1. ASSUME CustomerNext PROVE SiteRest'
  BY <1>1, SessionsRest, PagesRest, ListRest, CallsRest, FormsRest, ExpiryRest
  DEF CustomerNext, Places
<1>2. ASSUME UNCHANGED customerVars PROVE SiteRest'
  BY <1>2 DEF SiteRest, customerVars, Genuine
<1>3. QED
  BY <1>1, <1>2
  DEF Next, Session, List, Form, Dialog, Gallery, Site, Payment, frontEndVars

LEMMA RestInitially ==
  ASSUME CustomerInit
  PROVE  SiteRest
<1>1. (CHOOSE m \in Members : TRUE) \in Members
  BY MembersAssumption
<1>2. known \subseteq Accounts
  BY <1>1 DEF CustomerInit, Accounts
<1>3. visitor.token = NoAccess /\ listing = {}
  BY DEF CustomerInit, SignedOut
<1>4. \A t \in listing \cup {visitor.token} : Genuine(t)
  BY <1>3 DEF NoAccess, Genuine
<1>5. contact = FALSE /\ lapped = FALSE /\ misbooked = FALSE
      /\ form = "closed" /\ history = NotListed
  BY DEF CustomerInit
<1>6. {contact, lapped, misbooked} \subseteq BOOLEAN
  BY <1>5
<1>7. authCalls["login"] = Idle
  BY DEF CustomerInit
<1>8. QED BY <1>2, <1>4, <1>5, <1>6, <1>7 DEF SiteRest, Forms, Histories

LEMMA SiteTypeCorrect ==
  ASSUME SiteInv, SiteRest
  PROVE  CustomerTypeOK
<1>1. /\ visitor.status \in {"loading", "authenticated", "unauthenticated"}
      /\ visitor.user \in Accounts \cup {Guest}
      /\ \A name \in DOMAIN authCalls : authCalls[name] \in Accounts \cup {Guest, Idle}
      /\ place \in Places
  BY DEF SiteInv, SiteTypes, Visitors
<1>2. {visitor.user} \cup {authCalls[name] : name \in DOMAIN authCalls}
        \subseteq Accounts \cup {Guest, Idle}
  BY <1>1
<1>3. {contact, chosen, misbooked, lapped} \subseteq BOOLEAN
  BY DEF SiteInv, SiteTypes, SiteRest
<1>4. QED
  BY <1>1, <1>2, <1>3 DEF SiteRest, CustomerTypeOK, Places, Forms, Histories

-----------------------------------------------------------------------------
(***************************************************************************)
(* Ordering: the n-th of a finite set of numbers is the one of rank n, and *)
(* there is one of each rank.                                              *)
(***************************************************************************)
LEMMA RankGrows ==
  ASSUME NEW S \in SUBSET Nat, IsFiniteSet(S), NEW x \in S, NEW y \in S, x < y
  PROVE  Rank(S, x) < Rank(S, y)
<1>1. PICK T \in SUBSET S : T = {z \in S : z <= x}
  OBVIOUS
<1>2. PICK U \in SUBSET S : U = {z \in S : z <= y}
  OBVIOUS
<1>3. T \subseteq U /\ y \in U /\ y \notin T
  <2>1. \A z \in S : z \in Nat /\ (z <= x => z <= y)
    OBVIOUS
  <2>2. x \in Nat /\ y \in Nat /\ ~ (y <= x) /\ y <= y
    OBVIOUS
  <2>3. QED BY <1>1, <1>2, <2>1, <2>2
<1>4. IsFiniteSet(U) /\ IsFiniteSet(T)
  BY FS_Subset
<1>5. Cardinality(T) <= Cardinality(U) /\ Cardinality(T) # Cardinality(U)
  BY <1>3, <1>4, FS_Subset
<1>6. Cardinality(T) \in Nat /\ Cardinality(U) \in Nat
  BY <1>4, FS_CardinalityType
<1>7. QED BY <1>1, <1>2, <1>5, <1>6 DEF Rank

LEMMA RankBounds ==
  ASSUME NEW S \in SUBSET Nat, IsFiniteSet(S), NEW x \in S
  PROVE  Rank(S, x) \in 1 .. Cardinality(S)
<1>1. PICK T \in SUBSET S : T = {z \in S : z <= x}
  OBVIOUS
<1>2. IsFiniteSet(T) /\ Cardinality(T) <= Cardinality(S)
  BY FS_Subset
<1>3. x \in T
  BY <1>1
<1>4. Cardinality(T) # 0
  BY <1>2, <1>3, FS_EmptySet
<1>5. Cardinality(T) \in Nat /\ Cardinality(S) \in Nat
  BY <1>2, FS_CardinalityType
<1>6. QED BY <1>1, <1>2, <1>4, <1>5 DEF Rank

LEMMA EachRank ==
  ASSUME NEW S \in SUBSET Nat, IsFiniteSet(S), NEW n \in 1 .. Cardinality(S)
  PROVE  \E x \in S : Rank(S, x) = n
<1>1. PICK f : f = [x \in S |-> Rank(S, x)]
  OBVIOUS
<1>2. PICK size \in Nat : size = Cardinality(S)
  BY FS_CardinalityType
<1>3. f \in [S -> 1 .. size]
  BY <1>1, <1>2, RankBounds
<1>4. \A x, y \in S : f[x] = f[y] => x = y
  <2>1. SUFFICES ASSUME NEW x \in S, NEW y \in S, f[x] = f[y], x # y PROVE FALSE
    OBVIOUS
  <2>2. x < y \/ y < x
    BY <2>1
  <2>3. Rank(S, x) < Rank(S, y) \/ Rank(S, y) < Rank(S, x)
    BY <2>2, RankGrows
  <2>4. Rank(S, x) \in Nat /\ Rank(S, x) = Rank(S, y)
    BY <1>1, <1>2, <2>1, RankBounds
  <2>5. QED BY <2>3, <2>4
<1>5. f \in Injection(S, 1 .. size)
  BY <1>3, <1>4 DEF Injection, IsInjective
<1>6. IsFiniteSet(1 .. size) /\ Cardinality(1 .. size) = size
  BY FS_Interval
<1>7. f \in Surjection(S, 1 .. size)
  BY <1>2, <1>5, <1>6, FS_Injection
<1>8. PICK x \in S : f[x] = n
  BY <1>2, <1>7 DEF Surjection
<1>9. QED BY <1>1, <1>8

LEMMA AscendingSound ==
  ASSUME NEW S \in SUBSET Nat, IsFiniteSet(S)
  PROVE  /\ Ascending(S) \in [1 .. Cardinality(S) -> S]
         /\ Cardinality(S) \in Nat
         /\ \A n \in 1 .. Cardinality(S) : Rank(S, Ascending(S)[n]) = n
<1>1. \A n \in 1 .. Cardinality(S) :
        /\ Ascending(S)[n] \in S
        /\ Rank(S, Ascending(S)[n]) = n
  BY EachRank DEF Ascending
<1>2. QED BY <1>1, FS_CardinalityType DEF Ascending

-----------------------------------------------------------------------------
(***************************************************************************)
(* ListPage.  While answers come in the order they were asked for, the     *)
(* last load in flight is for the query shown; while no list grew shorter, *)
(* the pager never counted more rows than there are, so that the page      *)
(* number stays inside the list.                                           *)
(***************************************************************************)
Queries == [filter : {"all", "some", "trash"}, page : Nat \ {0}]
TableData == [rows : Seq(Rows \X {"on", "off"}), total : Nat]
LoadStates == [at : {"API"}, query : Queries] \cup [at : {"back"}, answer : TableData]

ListTypes ==
  /\ ListTypeOK
  /\ query \in Queries /\ table \in TableData
  /\ loads \in Seq(LoadStates)
  /\ change # NoChange => change.query \in Queries

LastLoad == loads[Len(loads)]
Total == Cardinality(Matching(query.filter, rows))

(* What is shown in the end is what the API has now. *)
Upcoming ==
  \/ error
  \/ loads # <<>> /\ LastLoad \in {LoadOf(query),
                                  [at |-> "back", answer |-> Answer(query, rows)]}
  \/ loads = <<>> /\ table = Answer(query, rows)

(* What the pager counts, in the end, are not too many rows. *)
Counted ==
  \/ error
  \/ loads # <<>> /\ \/ LastLoad = LoadOf(query)
                     \/ LastLoad.at = "back" /\ LastLoad.answer.total <= Total
  \/ loads = <<>> /\ table.total <= Total

PageInside == query.page = 1 \/ (query.page - 1) * PER_PAGE < Total

ListInv ==
  /\ ListTypes
  /\ doubt # "overtaken" /\ change.action # "done" => Upcoming
  /\ doubt = "none" => Counted /\ PageInside

LEMMA MatchingFacts ==
  ASSUME NEW filter, NEW rs
  PROVE  /\ Matching(filter, rs) \in SUBSET Rows
         /\ Matching(filter, rs) \in SUBSET Nat
         /\ IsFiniteSet(Matching(filter, rs))
         /\ Cardinality(Matching(filter, rs)) \in Nat
<1>1. Matching(filter, rs) \in SUBSET Rows
  BY DEF Matching
<1>2. IsFiniteSet(Matching(filter, rs))
  BY <1>1, RowsAssumption, FS_Subset
<1>3. QED BY <1>1, <1>2, RowsAssumption, FS_CardinalityType

LEMMA LeastOfTwo ==
  ASSUME NEW a \in Nat, NEW b \in Nat
  PROVE  Min({a, b}) \in Nat /\ Min({a, b}) \in {a, b} /\ Min({a, b}) <= a /\ Min({a, b}) <= b
<1>1. PICK m \in {a, b} : \A y \in {a, b} : m <= y
  OBVIOUS
<1>2. Min({a, b}) \in {a, b} /\ \A y \in {a, b} : Min({a, b}) <= y
  BY <1>1 DEF Min
<1>3. QED BY <1>2

LEMMA GreatestWithOne ==
  ASSUME NEW a \in Nat
  PROVE  Max({1, a}) \in Nat \ {0} /\ Max({1, a}) \in {1, a} /\ a <= Max({1, a})
<1>1. PICK m \in {1, a} : \A y \in {1, a} : m >= y
  OBVIOUS
<1>2. Max({1, a}) \in {1, a} /\ \A y \in {1, a} : Max({1, a}) >= y
  BY <1>1 DEF Max
<1>3. QED BY <1>2

LEMMA Quotient ==
  ASSUME NEW n \in Nat, NEW d \in Nat \ {0}
  PROVE  (n + d - 1) \div d \in Nat /\ ((n + d - 1) \div d) * d <= n + d - 1
<1>1. PICK m \in Nat : m = n + d - 1
  OBVIOUS
<1>2. m \div d \in Nat /\ (m \div d) * d <= m
  OBVIOUS
<1>3. QED BY <1>1, <1>2

LEMMA PagesCounted ==
  ASSUME NEW n \in Nat
  PROVE  /\ PageCount(n) \in Nat \ {0}
         /\ \A k \in Nat \ {0} : k > 1 /\ k <= PageCount(n) => (k - 1) * PER_PAGE < n
<1>1. PICK m \in Nat : m = (n + PER_PAGE - 1) \div PER_PAGE /\ m * PER_PAGE <= n + PER_PAGE - 1
  BY Quotient, PageAssumption
<1>2. /\ PageCount(n) \in Nat \ {0}
      /\ PageCount(n) = 1 \/ PageCount(n) = m
  BY <1>1, GreatestWithOne DEF PageCount
<1>3. ASSUME NEW k \in Nat \ {0}, k > 1, k <= PageCount(n)
      PROVE  (k - 1) * PER_PAGE < n
  <2>1. k <= m
    BY <1>2, <1>3
  <2>2. k * PER_PAGE <= m * PER_PAGE
    BY <2>1, PageAssumption
  <2>3. (k - 1) * PER_PAGE = k * PER_PAGE - PER_PAGE
    BY PageAssumption
  <2>4. k * PER_PAGE \in Nat /\ m * PER_PAGE \in Nat
    BY PageAssumption
  <2>5. QED BY <1>1, <2>2, <2>3, <2>4, PageAssumption
<1>4. QED BY <1>2, <1>3

(* The cut of a page, out of a list.                                       *)
LEMMA PageCut ==
  ASSUME NEW T, NEW s \in Seq(T), NEW from \in Nat \ {0}, NEW to \in Nat
  PROVE  LET cut == SubSeq(s, from, Min({to, Len(s)})) IN
           /\ cut \in Seq(T)
           /\ from <= to /\ from <= Len(s) => cut # <<>>
<1>1. Min({to, Len(s)}) \in Nat /\ Min({to, Len(s)}) <= Len(s)
      /\ Min({to, Len(s)}) \in {to, Len(s)}
  BY LeastOfTwo, LenProperties
<1>2. PICK last \in Nat : last = Min({to, Len(s)})
  BY <1>1
<1>3. last <= Len(s) /\ (from <= to /\ from <= Len(s) => from <= last)
  BY <1>1, <1>2
<1>4. SubSeq(s, from, last) \in Seq(T)
      /\ (from <= last => Len(SubSeq(s, from, last)) = last - from + 1)
  BY <1>3, SubSeqProperties
<1>5. from <= last => SubSeq(s, from, last) # <<>>
  <2>1. SUFFICES ASSUME from <= last, SubSeq(s, from, last) = <<>> PROVE FALSE
    OBVIOUS
  <2>2. Len(SubSeq(s, from, last)) = 0
    BY <2>1
  <2>3. QED BY <1>4, <2>1, <2>2
<1>6. QED BY <1>2, <1>3, <1>4, <1>5

LEMMA AnswerSound ==
  ASSUME NEW q \in Queries, NEW rs \in [Rows -> {"on", "off", "gone"}]
  PROVE  /\ Answer(q, rs) \in TableData
         /\ Answer(q, rs).total = Cardinality(Matching(q.filter, rs))
         /\ Answer(q, rs).total > 0
              /\ (q.page = 1 \/ (q.page - 1) * PER_PAGE < Answer(q, rs).total)
            => Answer(q, rs).rows # <<>>
<1>1. PICK M \in SUBSET Rows : M = Matching(q.filter, rs)
  BY MatchingFacts
<1>2. M \in SUBSET Nat /\ IsFiniteSet(M) /\ Cardinality(M) \in Nat
  BY <1>1, MatchingFacts
<1>3. PICK all \in Seq(M) : all = Ascending(M) /\ Len(all) = Cardinality(M)
  <2>1. Ascending(M) \in [1 .. Cardinality(M) -> M]
    BY <1>2, AscendingSound
  <2>2. Ascending(M) \in Seq(M) /\ Len(Ascending(M)) = Cardinality(M)
    BY <1>2, <2>1
  <2>3. QED BY <2>2
<1>4. PICK p \in Nat : p = q.page - 1 /\ (q.page = 1 => p = 0)
  BY DEF Queries
<1>5. PICK before \in Nat : before = p * PER_PAGE /\ (p = 0 => before = 0)
  BY PageAssumption
<1>6. PICK from \in Nat \ {0} : from = before + 1
  OBVIOUS
<1>7. PICK to \in Nat : to = from + PER_PAGE - 1 /\ from <= to
  BY PageAssumption
<1>8. /\ from = (q.page - 1) * PER_PAGE + 1 /\ to = from + PER_PAGE - 1
      /\ from <= to
      /\ q.page = 1 => from = 1
      /\ (q.page - 1) * PER_PAGE < Len(all) => from <= Len(all)
  <2>1. Len(all) \in Nat
    BY LenProperties
  <2>2. (q.page - 1) * PER_PAGE = before
    BY <1>4, <1>5
  <2>3. QED BY <2>1, <2>2, <1>4, <1>5, <1>6, <1>7
<1>9. PICK cut \in Seq(M) :
        /\ cut = IF list = MembershipPage THEN all
                 ELSE SubSeq(all, from, Min({to, Len(all)}))
        /\ from <= Len(all) => cut # <<>>
  <2>1. SubSeq(all, from, Min({to, Len(all)})) \in Seq(M)
        /\ (from <= Len(all) => SubSeq(all, from, Min({to, Len(all)})) # <<>>)
    BY <1>8, PageCut
  <2>2. from <= Len(all) => all # <<>>
    <3>1. Len(<<>>) = 0
      OBVIOUS
    <3>2. QED BY <3>1
  <2>3. QED BY <2>1, <2>2
<1>10. Answer(q, rs) = [rows |-> [i \in DOMAIN cut |-> <<cut[i], rs[cut[i]]>>],
                       total |-> Len(all)]
  BY <1>1, <1>3, <1>8, <1>9 DEF Answer
<1>11. PICK seen : seen = [i \in DOMAIN cut |-> <<cut[i], rs[cut[i]]>>]
  OBVIOUS
<1>12. seen \in Seq(Rows \X {"on", "off"}) /\ (cut # <<>> => seen # <<>>)
  <2>1. DOMAIN cut = 1 .. Len(cut) /\ Len(cut) \in Nat
    BY LenProperties
  <2>2. \A i \in 1 .. Len(cut) : cut[i] \in M
    BY ElementOfSeq
  <2>3. \A r \in M : r \in Rows /\ rs[r] \in {"on", "off"}
    BY <1>1 DEF Matching
  <2>4. seen \in [1 .. Len(cut) -> Rows \X {"on", "off"}]
    BY <1>11, <2>1, <2>2, <2>3
  <2>5. seen \in Seq(Rows \X {"on", "off"}) /\ Len(seen) = Len(cut)
    BY <2>1, <2>4
  <2>6. seen = <<>> => cut = <<>>
    BY <2>5, EmptySeq
  <2>7. QED BY <2>5, <2>6
<1>13. Answer(q, rs).total = Len(all) /\ Answer(q, rs).rows = seen
  BY <1>10, <1>11
<1>14. Answer(q, rs) \in TableData
  BY <1>10, <1>11, <1>12, LenProperties DEF TableData
<1>15. ASSUME Len(all) > 0, q.page = 1 \/ (q.page - 1) * PER_PAGE < Len(all)
       PROVE  seen # <<>>
  <2>1. from <= Len(all)
    BY <1>8, <1>15, LenProperties
  <2>2. QED BY <2>1, <1>9, <1>12
<1>16. QED BY <1>1, <1>3, <1>13, <1>14, <1>15

(* A list without its i-th entry.                                          *)
LEMMA Without ==
  ASSUME NEW T, NEW s \in Seq(T), NEW i \in 1 .. Len(s)
  PROVE  /\ RemoveAt(s, i) \in Seq(T)
         /\ Len(RemoveAt(s, i)) = Len(s) - 1
         /\ i = 1 /\ Len(s) > 1 => RemoveAt(s, i)[Len(s) - 1] = s[Len(s)]
<1>1. PICK n \in Nat : n = Len(s)
  BY LenProperties
<1>2. PICK a \in Seq(T) : a = SubSeq(s, 1, i - 1) /\ Len(a) = i - 1
  <2>1. 1 \in Int /\ i - 1 \in Int /\ i \in Nat \ {0}
    BY <1>1
  <2>2. \A k \in 1 .. i - 1 : s[k] \in T
    BY <1>1, ElementOfSeq
  <2>3. SubSeq(s, 1, i - 1) \in Seq(T) /\ Len(SubSeq(s, 1, i - 1)) = IF 1 <= i - 1 THEN i - 1 - 1 + 1 ELSE 0
    BY <2>1, <2>2, SubSeqProperties
  <2>4. Len(SubSeq(s, 1, i - 1)) = i - 1
    BY <2>1, <2>3
  <2>5. QED BY <2>3, <2>4
<1>3. PICK b \in Seq(T) : /\ b = SubSeq(s, i + 1, n) /\ Len(b) = n - i
                          /\ \A k \in 1 .. n - i : b[k] = s[i + k]
  <2>1. i + 1 \in Int /\ n \in Int /\ i \in Nat \ {0} /\ i <= n
    BY <1>1
  <2>2. \A k \in i + 1 .. n : s[k] \in T
    BY <1>1, ElementOfSeq
  <2>3. /\ SubSeq(s, i + 1, n) \in Seq(T)
        /\ Len(SubSeq(s, i + 1, n)) = IF i + 1 <= n THEN n - (i + 1) + 1 ELSE 0
        /\ \A k \in 1 .. n - (i + 1) + 1 : SubSeq(s, i + 1, n)[k] = s[i + 1 + k - 1]
    BY <2>1, <2>2, SubSeqProperties
  <2>4. Len(SubSeq(s, i + 1, n)) = n - i /\ n - (i + 1) + 1 = n - i
    BY <2>1, <2>3
  <2>5. \A k \in 1 .. n - i : SubSeq(s, i + 1, n)[k] = s[i + k]
    <3>1. \A k \in 1 .. n - i : i + 1 + k - 1 = i + k
      BY <2>1
    <3>2. QED BY <2>3, <2>4, <3>1
  <2>6. QED BY <2>3, <2>4, <2>5
<1>4. RemoveAt(s, i) = a \o b
  BY <1>1, <1>2, <1>3 DEF RemoveAt
<1>5. a \o b \in Seq(T) /\ Len(a \o b) = n - 1
  <2>1. a \o b \in Seq(T) /\ Len(a \o b) = Len(a) + Len(b)
    BY ConcatProperties
  <2>2. i \in Nat
    BY <1>1
  <2>3. (i - 1) + (n - i) = n - 1
    BY <2>2
  <2>4. QED BY <1>2, <1>3, <2>1, <2>3
<1>6. ASSUME i = 1, n > 1
      PROVE  (a \o b)[n - 1] = s[n]
  <2>1. (a \o b)[n - 1] = b[n - 1]
    BY <1>1, <1>2, <1>3, <1>5, <1>6, ConcatProperties
  <2>2. b[n - 1] = s[n]
    BY <1>1, <1>3, <1>6
  <2>3. QED BY <2>1, <2>2
<1>7. QED BY <1>1, <1>4, <1>5, <1>6

(* Some entries of a list.                                                 *)
LEMMA KeptEntries ==
  ASSUME NEW T, NEW s \in Seq(T), NEW positions \in SUBSET DOMAIN s
  PROVE  KeptAt(s, positions) \in Seq(T)
<1>1. DOMAIN s = 1 .. Len(s) /\ Len(s) \in Nat
  BY LenProperties
<1>2. positions \in SUBSET Nat /\ IsFiniteSet(positions)
  <2>1. PICK len \in Nat : len = Len(s)
    BY <1>1
  <2>2. 1 \in Int /\ len \in Int
    OBVIOUS
  <2>3. IsFiniteSet(1 .. len)
    BY <2>2, FS_Interval
  <2>4. positions \subseteq 1 .. len
    BY <1>1, <2>1
  <2>5. QED BY <2>3, <2>4, FS_Subset
<1>3. PICK n \in Nat : n = Cardinality(positions)
  BY <1>2, FS_CardinalityType
<1>4. PICK at \in [1 .. n -> positions] : at = Ascending(positions)
  BY <1>2, <1>3, AscendingSound
<1>5. KeptAt(s, positions) = [k \in 1 .. n |-> s[at[k]]]
  BY <1>4 DEF KeptAt
<1>6. \A k \in 1 .. n : s[at[k]] \in T
  BY <1>1, <1>4, ElementOfSeq
<1>7. KeptAt(s, positions) \in [1 .. n -> T]
  BY <1>5, <1>6
<1>8. QED BY <1>3, <1>7

LEMMA FirstIsQuery == FirstQuery \in Queries
  BY DEF FirstQuery, Queries

LEMMA LoadOfType ==
  ASSUME NEW q \in Queries
  PROVE  LoadOf(q) \in LoadStates /\ LoadOf(q).at = "API" /\ LoadOf(q).query = q
  BY DEF LoadOf, LoadStates

LEMMA LoadTypes ==
  ASSUME NEW l \in LoadStates
  PROVE  /\ l.at \in {"API", "back"}
         /\ l.at = "API" => l.query \in Queries /\ l = LoadOf(l.query)
         /\ l.at = "back" => l.answer \in TableData /\ l = [at |-> "back", answer |-> l.answer]
  BY DEF LoadStates, LoadOf

LEMMA BackType ==
  ASSUME NEW a \in TableData
  PROVE  /\ [at |-> "back", answer |-> a] \in LoadStates
         /\ [at |-> "back", answer |-> a].at = "back"
         /\ [at |-> "back", answer |-> a].answer = a
  BY DEF LoadStates

LEMMA NoRows == [rows |-> <<>>, total |-> 0] \in TableData
  BY EmptySeq DEF TableData

LEMMA ListTypeFacts ==
  ASSUME ListTypes
  PROVE  /\ query \in Queries /\ query.filter \in Filters /\ query.page \in Nat \ {0}
         /\ table \in TableData /\ table.total \in Nat
         /\ loads \in Seq(LoadStates) /\ Len(loads) \in Nat
         /\ DOMAIN loads = 1 .. Len(loads)
         /\ \A i \in DOMAIN loads : loads[i] \in LoadStates
         /\ loads # <<>> => Len(loads) \in DOMAIN loads /\ LastLoad \in LoadStates
  <1>1. loads \in Seq(LoadStates) /\ Len(loads) \in Nat /\ DOMAIN loads = 1 .. Len(loads)
    BY LenProperties DEF ListTypes
  <1>2. \A i \in DOMAIN loads : loads[i] \in LoadStates
    BY <1>1, ElementOfSeq
  <1>3. loads # <<>> => Len(loads) \in DOMAIN loads
    BY <1>1, EmptySeq
  <1>4. loads # <<>> => LastLoad \in LoadStates
    BY <1>2, <1>3 DEF LastLoad
  <1>5. QED BY <1>1, <1>2, <1>3, <1>4 DEF ListTypes, ListTypeOK, Queries, TableData

(* The rows of a table are of the API's.                                   *)
LEMMA TableRows ==
  ASSUME NEW t \in TableData
  PROVE  \A i \in DOMAIN t.rows : t.rows[i] \in Rows \X {"on", "off"}
<1>1. t.rows \in Seq(Rows \X {"on", "off"})
  BY DEF TableData
<1>2. QED BY <1>1

(* One more load, the last.                                                *)
LEMMA OneMoreLoad ==
  ASSUME NEW s \in Seq(LoadStates), NEW l \in LoadStates
  PROVE  /\ Append(s, l) \in Seq(LoadStates) /\ Len(Append(s, l)) = Len(s) + 1
         /\ Append(s, l) # <<>> /\ Append(s, l)[Len(Append(s, l))] = l
<1>1. Len(s) \in Nat
  BY LenProperties
<1>2. /\ Append(s, l) \in Seq(LoadStates) /\ Len(Append(s, l)) = Len(s) + 1
      /\ Append(s, l)[Len(s) + 1] = l
  BY <1>1
<1>3. Append(s, l) # <<>>
  BY <1>1, <1>2, EmptySeq
<1>4. QED BY <1>1, <1>2, <1>3

(* What a load leaves: its query's load is the last in flight.             *)
LEMMA Loaded ==
  ASSUME ListTypes, NEW q \in Queries, Load(q)
  PROVE  /\ loads' \in Seq(LoadStates) /\ Len(loads') <= MaxLoads
         /\ loads' # <<>> /\ LastLoad' = LoadOf(q)
         /\ error' = FALSE /\ loading' \in BOOLEAN
<1>1. loads \in Seq(LoadStates) /\ Len(loads) \in Nat /\ LoadOf(q) \in LoadStates
  BY ListTypeFacts, LoadOfType
<1>2. loads' = Append(loads, LoadOf(q)) /\ Len(loads) < MaxLoads /\ error' = FALSE
      /\ loading' = TRUE
  BY DEF Load
<1>3. loads' \in Seq(LoadStates) /\ Len(loads') = Len(loads) + 1 /\ loads' # <<>>
      /\ loads'[Len(loads')] = LoadOf(q)
  BY <1>1, <1>2, OneMoreLoad
<1>4. loading' \in BOOLEAN
  BY <1>2
<1>5. Len(loads') <= MaxLoads
  BY <1>1, <1>2, <1>3, LoadsAssumption
<1>6. QED BY <1>2, <1>3, <1>4, <1>5 DEF LastLoad

(* After a load for the query shown, what is shown will be it.             *)
LEMMA LoadedForQuery ==
  ASSUME loads' # <<>>, LastLoad' = LoadOf(query')
  PROVE  Upcoming' /\ Counted'
<1>1. Upcoming'
  BY DEF Upcoming
<1>2. Counted'
  BY DEF Counted
<1>3. QED BY <1>1, <1>2

LEMMA DoubtStays ==
  ASSUME NEW shrunk, NEW overtaken, Doubt(shrunk, overtaken),
         doubt \in {"none", "shrunk", "overtaken"}
  PROVE  /\ doubt' \in {"none", "shrunk", "overtaken"}
         /\ doubt' # "overtaken" => doubt # "overtaken" /\ ~ overtaken
         /\ doubt' = "none" => doubt = "none" /\ ~ shrunk /\ ~ overtaken
  BY DEF Doubt

LEMMA ListTypesAgain ==
  ASSUME list' = list, list \in Lists, rows' \in [Rows -> {"on", "off", "gone"}],
         query' \in Queries, query'.filter \in Filters,
         query'.page \in 1 .. PageCount(Cardinality(Rows)),
         table' \in TableData, loads' \in Seq(LoadStates), Len(loads') <= MaxLoads,
         loading' \in BOOLEAN, error' \in BOOLEAN,
         change' # NoChange => change'.query \in Queries,
         doubt' \in {"none", "shrunk", "overtaken"}
  PROVE  ListTypes'
<1>1. Filters' = Filters
  BY DEF Filters
<1>2. (\A i \in DOMAIN table.rows : table.rows[i] \in Rows \X {"on", "off"})'
  BY TableRows
<1>3. ListTypeOK'
  BY <1>1, <1>2 DEF ListTypeOK
<1>4. QED BY <1>3 DEF ListTypes, NoChange

LEMMA ListTypesNow ==
  ASSUME ListTypes
  PROVE  /\ list \in Lists /\ rows \in [Rows -> {"on", "off", "gone"}]
         /\ query \in Queries /\ query.filter \in Filters
         /\ query.page \in 1 .. PageCount(Cardinality(Rows))
         /\ table \in TableData /\ loads \in Seq(LoadStates) /\ Len(loads) <= MaxLoads
         /\ loading \in BOOLEAN /\ error \in BOOLEAN
         /\ change # NoChange => change.query \in Queries
         /\ doubt \in {"none", "shrunk", "overtaken"}
  BY DEF ListTypes, ListTypeOK

LEMMA SomePages == 1 \in 1 .. PageCount(Cardinality(Rows))
  BY RowsAssumption, FS_CardinalityType, PagesCounted

LEMMA ChangeFilterStep ==
  ASSUME ListInv, NEW f \in Filters, ChangeFilter(f)
  PROVE  ListInv'
<1>1. ListTypes
  BY DEF ListInv
<1>2. f \in {"all", "some", "trash"}
  BY DEF Filters
<1>3. PICK q \in Queries : /\ q = [query EXCEPT !.filter = f, !.page = 1]
                           /\ q.filter = f /\ q.page = 1
  <2>1. query \in Queries
    BY <1>1, ListTypesNow
  <2>2. \A o \in Queries : [o EXCEPT !.filter = f] = [filter |-> f, page |-> o.page]
    BY DEF Queries
  <2>3. PICK a \in Queries : /\ a = [query EXCEPT !.filter = f]
                             /\ a = [filter |-> f, page |-> query.page] /\ a.filter = f
    <3>1. [filter |-> f, page |-> query.page] \in Queries
      BY <1>2, <2>1 DEF Queries
    <3>2. QED BY <2>1, <2>2, <3>1
  <2>4. \A o \in Queries : [o EXCEPT !.page = 1] = [filter |-> o.filter, page |-> 1]
    BY DEF Queries
  <2>5. [a EXCEPT !.page = 1] = [filter |-> f, page |-> 1]
    BY <2>3, <2>4
  <2>6. [query EXCEPT !.filter = f, !.page = 1] = [filter |-> f, page |-> 1]
    BY <2>3, <2>5
  <2>7. [filter |-> f, page |-> 1] \in Queries
    BY <1>2 DEF Queries
  <2>8. QED BY <2>6, <2>7
<1>4. PICK old \in Queries : old = [q EXCEPT !.page = query.page]
  <2>1. query.page \in Nat \ {0}
    BY <1>1, ListTypeFacts
  <2>2. QED BY <2>1 DEF Queries
<1>5. /\ query' = q
      /\ \/ /\ Len(loads) + 1 < MaxLoads
            /\ loads' = loads \o <<LoadOf(old), LoadOf(q)>>
            /\ loading' = TRUE /\ error' = FALSE
         \/ Load(q)
      /\ UNCHANGED <<list, rows, table, change, doubt>>
  BY <1>3, <1>4 DEF ChangeFilter
<1>6. /\ loads' \in Seq(LoadStates) /\ Len(loads') <= MaxLoads
      /\ loads' # <<>> /\ LastLoad' = LoadOf(q)
      /\ error' \in BOOLEAN /\ loading' \in BOOLEAN
  <2>1. CASE Load(q)
    <3>1. error' \in BOOLEAN
      BY <1>1, <2>1, Loaded
    <3>2. QED BY <1>1, <2>1, <3>1, Loaded
  <2>2. CASE /\ Len(loads) + 1 < MaxLoads
             /\ loads' = loads \o <<LoadOf(old), LoadOf(q)>>
             /\ loading' = TRUE /\ error' = FALSE
    <3>1. loads \in Seq(LoadStates) /\ Len(loads) \in Nat
          /\ LoadOf(old) \in LoadStates /\ LoadOf(q) \in LoadStates
      BY <1>1, ListTypeFacts, LoadOfType
    <3>2. PICK two \in Seq(LoadStates) : /\ two = <<LoadOf(old), LoadOf(q)>>
                                         /\ Len(two) = 2 /\ two[2] = LoadOf(q)
      <4>1. /\ <<LoadOf(old), LoadOf(q)>> \in Seq(LoadStates)
            /\ Len(<<LoadOf(old), LoadOf(q)>>) = 2
            /\ <<LoadOf(old), LoadOf(q)>>[2] = LoadOf(q)
        BY <3>1
      <4>2. QED BY <4>1
    <3>3. loads' \in Seq(LoadStates) /\ Len(loads') = Len(loads) + 2
          /\ loads'[Len(loads) + 2] = LoadOf(q)
      <4>1. loads' = loads \o two
        BY <2>2, <3>2
      <4>2. /\ loads \o two \in Seq(LoadStates)
            /\ Len(loads \o two) = Len(loads) + Len(two)
            /\ \A i \in 1 .. Len(loads) + Len(two) :
                 (loads \o two)[i] = IF i <= Len(loads) THEN loads[i]
                                     ELSE two[i - Len(loads)]
        BY <3>1, ConcatProperties
      <4>3. Len(loads) + 2 \in 1 .. Len(loads) + Len(two) /\ Len(loads) + 2 - Len(loads) = 2
            /\ ~ (Len(loads) + 2 <= Len(loads))
        BY <3>1, <3>2
      <4>4. QED BY <3>2, <4>1, <4>2, <4>3
    <3>4. loads' # <<>>
      BY <3>1, <3>3, EmptySeq
    <3>5. Len(loads') <= MaxLoads
      BY <2>2, <3>1, <3>3, LoadsAssumption
    <3>6. error' \in BOOLEAN /\ loading' \in BOOLEAN
      BY <2>2
    <3>7. QED BY <3>3, <3>4, <3>5, <3>6 DEF LastLoad
  <2>3. QED BY <1>5, <2>1, <2>2
<1>7. ListTypes'
  BY <1>1, <1>3, <1>5, <1>6, ListTypesNow, ListTypesAgain, SomePages
<1>8. Upcoming' /\ Counted'
  BY <1>5, <1>6, LoadedForQuery
<1>9. PageInside'
  BY <1>3, <1>5 DEF PageInside
<1>10. QED BY <1>7, <1>8, <1>9 DEF ListInv

LEMMA ChangePageStep ==
  ASSUME ListInv, NEW p \in 1 .. PageCount(Cardinality(Rows)), ChangePage(p)
  PROVE  ListInv'
<1>1. ListTypes
  BY DEF ListInv
<1>2. p \in Nat \ {0}
  BY RowsAssumption, FS_CardinalityType, PagesCounted
<1>3. query \in Queries /\ query.page \in Nat \ {0} /\ query.filter \in Filters
  BY <1>1, ListTypeFacts
<1>4. PICK q \in Queries : /\ q = [query EXCEPT !.page = p]
                           /\ q.page = p /\ q.filter = query.filter
  <2>1. \A o \in Queries : /\ [o EXCEPT !.page = p] \in Queries
                            /\ [o EXCEPT !.page = p].page = p
                            /\ [o EXCEPT !.page = p].filter = o.filter
    BY <1>2 DEF Queries
  <2>2. QED BY <1>3, <2>1
<1>5. /\ query' = q /\ Load(q) /\ Doubt(loads # <<>>, FALSE) /\ PagerShown
      /\ \/ query.page > 1 /\ p = query.page - 1
         \/ query.page < PageCount(table.total) /\ p = query.page + 1
      /\ UNCHANGED <<list, rows, table, change>>
  BY <1>4 DEF ChangePage
<1>6. /\ loads' \in Seq(LoadStates) /\ Len(loads') <= MaxLoads
      /\ loads' # <<>> /\ LastLoad' = LoadOf(q)
      /\ loading' \in BOOLEAN /\ error' = FALSE
  BY <1>1, <1>5, Loaded
<1>7. /\ doubt' \in {"none", "shrunk", "overtaken"}
      /\ doubt' # "overtaken" => doubt # "overtaken"
      /\ doubt' = "none" => doubt = "none" /\ loads = <<>>
  BY <1>1, <1>5, ListTypesNow, DoubtStays
<1>8. ListTypes'
  <2>1. error' \in BOOLEAN
    BY <1>6
  <2>2. QED BY <1>1, <1>3, <1>4, <1>5, <1>6, <1>7, <2>1, ListTypesNow, ListTypesAgain
<1>9. Upcoming' /\ Counted'
  BY <1>5, <1>6, LoadedForQuery
<1>10. doubt' = "none" => PageInside'
  <2>1. SUFFICES ASSUME doubt' = "none", p # 1 PROVE (p - 1) * PER_PAGE < Total'
    BY <1>4, <1>5 DEF PageInside
  <2>2. PICK total \in Nat : total = Total /\ Total' = total
    <3>1. Matching(query.filter, rows)' = Matching(query.filter, rows)
      BY <1>4, <1>5 DEF Matching, Matches
    <3>2. Total \in Nat /\ Total' = Total
      BY <3>1, MatchingFacts DEF Total
    <3>3. QED BY <3>2
  <2>3. PageInside /\ Counted /\ loads = <<>>
    BY <1>7, <2>1 DEF ListInv
  <2>4. CASE query.page > 1 /\ p = query.page - 1
    <3>1. (query.page - 1) * PER_PAGE < total
      BY <2>2, <2>3, <2>4 DEF PageInside
    <3>2. query.page - 1 = p
      BY <2>4
    <3>3. p * PER_PAGE < total
      BY <3>1, <3>2
    <3>4. (p - 1) * PER_PAGE = p * PER_PAGE - PER_PAGE
      BY <1>2, PageAssumption
    <3>5. p * PER_PAGE \in Nat
      BY <1>2, PageAssumption
    <3>6. QED BY <2>2, <3>3, <3>4, <3>5, PageAssumption
  <2>5. CASE query.page < PageCount(table.total) /\ p = query.page + 1
    <3>1. ~ error
      BY <1>5 DEF PagerShown, TableShown
    <3>2. table.total <= total /\ table.total \in Nat
      BY <1>1, <2>2, <2>3, <3>1, ListTypeFacts DEF Counted
    <3>3. PageCount(table.total) \in Nat
      BY <3>2, PagesCounted
    <3>4. p <= PageCount(table.total) /\ p > 1
      BY <1>2, <1>3, <2>5, <3>3
    <3>5. (p - 1) * PER_PAGE < table.total
      BY <1>2, <3>2, <3>4, PagesCounted
    <3>6. (p - 1) * PER_PAGE \in Nat
      BY <1>2, PageAssumption
    <3>7. QED BY <2>2, <3>2, <3>5, <3>6
  <2>6. QED BY <1>5, <2>4, <2>5
<1>11. QED BY <1>8, <1>9, <1>10 DEF ListInv

LEMMA RetryStep ==
  ASSUME ListInv, Retry
  PROVE  ListInv'
<1>1. ListTypes
  BY DEF ListInv
<1>2. Load(query) /\ UNCHANGED <<list, rows, query, table, change, doubt>>
      /\ query \in Queries
  BY <1>1, ListTypesNow DEF Retry
<1>3. /\ loads' \in Seq(LoadStates) /\ Len(loads') <= MaxLoads
      /\ loads' # <<>> /\ LastLoad' = LoadOf(query)
      /\ loading' \in BOOLEAN /\ error' = FALSE
  BY <1>1, <1>2, Loaded
<1>4. error' \in BOOLEAN
  BY <1>3
<1>5. ListTypes'
  BY <1>1, <1>2, <1>3, <1>4, ListTypesNow, ListTypesAgain
<1>6. Upcoming' /\ Counted'
  BY <1>2, <1>3, LoadedForQuery
<1>7. PageInside => PageInside'
  BY <1>2 DEF PageInside, Total, Matching, Matches
<1>8. doubt' = doubt
  BY <1>2
<1>9. QED BY <1>5, <1>6, <1>7, <1>8 DEF ListInv

(* The state of a page just mounted.                                       *)
LEMMA FirstMount ==
  ASSUME list' = list, list \in Lists, rows' \in [Rows -> {"on", "off", "gone"}],
         query' = FirstQuery, table' = [rows |-> <<>>, total |-> 0],
         loading' = TRUE, error' = FALSE, loads' = <<LoadOf(FirstQuery)>>,
         change' = NoChange, doubt' = "none"
  PROVE  ListInv'
<1>1. FirstQuery \in Queries /\ FirstQuery.filter \in Filters
      /\ FirstQuery.page = 1
  BY FirstIsQuery DEF FirstQuery, Filters
<1>2. /\ loads' \in Seq(LoadStates) /\ Len(loads') = 1 /\ loads' # <<>>
      /\ LastLoad' = LoadOf(query')
  <2>1. LoadOf(FirstQuery) \in LoadStates
    BY <1>1, LoadOfType
  <2>2. <<LoadOf(FirstQuery)>> \in Seq(LoadStates) /\ Len(<<LoadOf(FirstQuery)>>) = 1
        /\ <<LoadOf(FirstQuery)>>[1] = LoadOf(FirstQuery)
    BY <2>1
  <2>3. <<LoadOf(FirstQuery)>> # <<>>
    BY <2>2, EmptySeq
  <2>4. QED BY <2>2, <2>3 DEF LastLoad
<1>3. Len(loads') <= MaxLoads
  BY <1>2, LoadsAssumption
<1>4. loading' \in BOOLEAN /\ error' \in BOOLEAN
  OBVIOUS
<1>5. doubt' \in {"none", "shrunk", "overtaken"}
  OBVIOUS
<1>6. ListTypes'
  BY <1>1, <1>2, <1>3, <1>4, <1>5, NoRows, SomePages, ListTypesAgain
<1>7. Upcoming' /\ Counted'
  BY <1>2, LoadedForQuery
<1>8. PageInside'
  BY <1>1 DEF PageInside
<1>9. QED BY <1>6, <1>7, <1>8 DEF ListInv

LEMMA RemountStep ==
  ASSUME ListInv, Remount
  PROVE  ListInv'
<1>1. ListTypes
  BY DEF ListInv
<1>2. rows' \in [Rows -> {"on", "off", "gone"}] /\ list \in Lists
  BY <1>1, ListTypesNow DEF Remount
<1>3. list' = list /\ change' = NoChange
  BY DEF Remount
<1>4. QED BY <1>2, <1>3, FirstMount DEF Remount

LEMMA TotalStays ==
  ASSUME list' = list, rows' = rows, query' = query
  PROVE  Total' = Total
<1>1. Matching(query.filter, rows)' = Matching(query.filter, rows)
  BY DEF Matching, Matches
<1>2. QED BY <1>1 DEF Total

LEMMA AnswerStays ==
  ASSUME list' = list, rows' = rows, query' = query
  PROVE  Answer(query, rows)' = Answer(query, rows)
<1>1. Matching(query.filter, rows)' = Matching(query.filter, rows)
  BY DEF Matching, Matches
<1>2. QED BY <1>1 DEF Answer

LEMMA ServedLoadStep ==
  ASSUME ListInv, NEW i \in DOMAIN loads, LoadServed(i)
  PROVE  ListInv'
<1>1. ListTypes
  BY DEF ListInv
<1>2. /\ loads \in Seq(LoadStates) /\ Len(loads) \in Nat /\ DOMAIN loads = 1 .. Len(loads)
      /\ loads[i] \in LoadStates /\ loads # <<>> /\ Len(loads) \in DOMAIN loads
      /\ query \in Queries /\ rows \in [Rows -> {"on", "off", "gone"}]
  <2>1. loads # <<>>
    <3>1. DOMAIN loads = 1 .. Len(loads) /\ Len(<<>>) = 0
      BY <1>1, ListTypeFacts
    <3>2. QED BY <3>1
  <2>2. QED BY <1>1, <2>1, ListTypeFacts, ListTypesNow
<1>3. loads[i].at = "API" /\ UNCHANGED <<list, rows, query, table, loading, error, change, doubt>>
  BY DEF LoadServed
<1>4. PICK asked \in Queries : loads[i] = LoadOf(asked) /\ loads[i].query = asked
  BY <1>2, <1>3, LoadTypes
<1>5. PICK a \in TableData : /\ a = Answer(asked, rows)
                             /\ a.total = Cardinality(Matching(asked.filter, rows))
  BY <1>2, AnswerSound
<1>6. PICK back \in LoadStates : back = [at |-> "back", answer |-> a]
                                 /\ back.at = "back" /\ back.answer = a
  BY BackType
<1>7. loads' = [loads EXCEPT ![i] = back]
  BY <1>4, <1>5, <1>6 DEF LoadServed
<1>8. /\ loads' \in Seq(LoadStates) /\ Len(loads') = Len(loads)
      /\ \A j \in 1 .. Len(loads) : loads'[j] = IF j = i THEN back ELSE loads[j]
  BY <1>2, <1>7, ExceptSeq
<1>9. loads' # <<>>
  BY <1>2, <1>8, EmptySeq
<1>10. LastLoad' = IF i = Len(loads) THEN back ELSE LastLoad
  BY <1>2, <1>8 DEF LastLoad
<1>11. ListTypes'
  <2>1. Len(loads') <= MaxLoads
    BY <1>1, <1>8, ListTypesNow
  <2>2. QED BY <1>1, <1>3, <1>8, <2>1, ListTypesNow, ListTypesAgain
<1>12. ASSUME Upcoming PROVE Upcoming'
  <2>1. CASE error
    BY <1>3, <2>1 DEF Upcoming
  <2>2. CASE i = Len(loads) /\ ~ error
    <3>1. LastLoad = LoadOf(asked) /\ LastLoad.at = "API"
      BY <1>2, <1>3, <1>4, <2>2 DEF LastLoad
    <3>2. LastLoad = LoadOf(query)
      BY <1>2, <1>12, <2>2, <3>1 DEF Upcoming
    <3>3. asked = query
      BY <1>2, <3>1, <3>2, LoadOfType
    <3>4. LastLoad' = [at |-> "back", answer |-> Answer(query, rows)]
      BY <1>5, <1>6, <1>10, <2>2, <3>3
    <3>5. Answer(query, rows)' = Answer(query, rows)
      BY <1>3, AnswerStays
    <3>6. QED BY <1>9, <3>4, <3>5 DEF Upcoming
  <2>3. CASE i # Len(loads) /\ ~ error
    <3>1. LastLoad' = LastLoad
      BY <1>10, <2>3
    <3>2. Answer(query, rows)' = Answer(query, rows) /\ LoadOf(query)' = LoadOf(query)
      BY <1>3, AnswerStays DEF LoadOf
    <3>3. LastLoad \in {LoadOf(query), [at |-> "back", answer |-> Answer(query, rows)]}
      BY <1>2, <1>12, <2>3 DEF Upcoming
    <3>4. QED BY <1>9, <3>1, <3>2, <3>3 DEF Upcoming
  <2>4. QED BY <2>1, <2>2, <2>3
<1>13. ASSUME Counted PROVE Counted'
  <2>1. CASE error
    BY <1>3, <2>1 DEF Counted
  <2>2. CASE i = Len(loads) /\ ~ error
    <3>1. LastLoad = LoadOf(asked) /\ LastLoad.at = "API"
      BY <1>2, <1>3, <1>4, <2>2 DEF LastLoad
    <3>2. LastLoad = LoadOf(query)
      BY <1>2, <1>13, <2>2, <3>1 DEF Counted
    <3>3. asked = query
      BY <1>2, <3>1, <3>2, LoadOfType
    <3>4. a.total = Total /\ Total' = Total /\ Total \in Nat
      BY <1>3, <1>5, <3>3, TotalStays, MatchingFacts DEF Total
    <3>5. LastLoad'.at = "back" /\ LastLoad'.answer.total <= Total'
      BY <1>6, <1>10, <2>2, <3>4
    <3>6. QED BY <1>9, <3>5 DEF Counted
  <2>3. CASE i # Len(loads) /\ ~ error
    <3>1. LastLoad' = LastLoad
      BY <1>10, <2>3
    <3>2. Total' = Total /\ LoadOf(query)' = LoadOf(query)
      BY <1>3, TotalStays DEF LoadOf
    <3>3. \/ LastLoad = LoadOf(query)
          \/ LastLoad.at = "back" /\ LastLoad.answer.total <= Total
      BY <1>2, <1>13, <2>3 DEF Counted
    <3>4. QED BY <1>9, <3>1, <3>2, <3>3 DEF Counted
  <2>4. QED BY <2>1, <2>2, <2>3
<1>14. PageInside => PageInside'
  BY <1>3, TotalStays DEF PageInside
<1>15. QED BY <1>3, <1>11, <1>12, <1>13, <1>14 DEF ListInv

LEMMA LoadArrivesStep ==
  ASSUME ListInv, NEW i \in DOMAIN loads, LoadArrives(i)
  PROVE  ListInv'
<1>1. ListTypes
  BY DEF ListInv
<1>2. /\ loads \in Seq(LoadStates) /\ Len(loads) \in Nat /\ i \in 1 .. Len(loads)
      /\ loads[i] \in LoadStates /\ loads # <<>>
  <2>1. DOMAIN loads = 1 .. Len(loads) /\ Len(<<>>) = 0
    BY <1>1, ListTypeFacts
  <2>2. loads # <<>>
    BY <2>1
  <2>3. QED BY <1>1, <2>2, ListTypeFacts
<1>3. /\ loads[i].at = "back" /\ table' = loads[i].answer /\ loads' = RemoveAt(loads, i)
      /\ loading' = FALSE /\ Doubt(FALSE, i # 1)
      /\ UNCHANGED <<list, rows, query, error, change>>
  BY DEF LoadArrives
<1>4. table' \in TableData
  BY <1>2, <1>3, LoadTypes
<1>5. /\ loads' \in Seq(LoadStates) /\ Len(loads') = Len(loads) - 1
      /\ i = 1 /\ Len(loads) > 1 => loads'[Len(loads')] = LastLoad
  BY <1>2, <1>3, Without DEF LastLoad
<1>6. /\ doubt' \in {"none", "shrunk", "overtaken"}
      /\ doubt' # "overtaken" => doubt # "overtaken" /\ i = 1
      /\ doubt' = "none" => doubt = "none" /\ i = 1
  BY <1>1, <1>3, ListTypesNow, DoubtStays
<1>7. ListTypes'
  <2>1. Len(loads') <= MaxLoads
    BY <1>1, <1>2, <1>5, ListTypesNow, LoadsAssumption
  <2>2. loading' \in BOOLEAN
    BY <1>3
  <2>3. QED BY <1>1, <1>3, <1>4, <1>5, <1>6, <2>1, <2>2, ListTypesNow, ListTypesAgain
<1>8. ASSUME i = 1, Len(loads) > 1 PROVE LastLoad' = LastLoad /\ loads' # <<>>
  <2>1. Len(loads') # 0
    BY <1>2, <1>5, <1>8
  <2>2. loads' # <<>>
    BY <2>1, EmptySeq
  <2>3. QED BY <1>5, <1>8, <2>2 DEF LastLoad
<1>9. ASSUME i = 1, ~ Len(loads) > 1
      PROVE  loads' = <<>> /\ LastLoad = loads[i]
  <2>1. Len(loads) = 1
    <3>1. PICK n \in Nat : n = Len(loads) /\ i <= n /\ ~ (n > 1)
      BY <1>2, <1>9
    <3>2. QED BY <1>9, <3>1
  <2>2. Len(loads') = 0
    BY <1>5, <2>1
  <2>3. loads' = <<>>
    BY <1>5, <2>2, EmptySeq
  <2>4. QED BY <1>9, <2>1, <2>3 DEF LastLoad
<1>10. LoadOf(query)' = LoadOf(query) /\ Answer(query, rows)' = Answer(query, rows)
       /\ Total' = Total
  BY <1>3, AnswerStays, TotalStays DEF LoadOf
<1>11. ASSUME Upcoming, i = 1 PROVE Upcoming'
  <2>1. CASE error
    BY <1>3, <2>1 DEF Upcoming
  <2>2. CASE ~ error /\ Len(loads) > 1
    <3>1. LastLoad \in {LoadOf(query), [at |-> "back", answer |-> Answer(query, rows)]}
      BY <1>2, <1>11, <2>2 DEF Upcoming
    <3>2. LastLoad' = LastLoad /\ loads' # <<>>
      BY <1>8, <1>11, <2>2
    <3>3. QED BY <1>10, <3>1, <3>2 DEF Upcoming
  <2>3. CASE ~ error /\ ~ Len(loads) > 1
    <3>1. LastLoad \in {LoadOf(query), [at |-> "back", answer |-> Answer(query, rows)]}
      BY <1>2, <1>11, <2>3 DEF Upcoming
    <3>2. loads' = <<>> /\ LastLoad = loads[i]
      BY <1>9, <1>11, <2>3
    <3>3. query \in Queries
      BY <1>1, ListTypesNow
    <3>4. LastLoad # LoadOf(query)
      BY <1>3, <3>2, <3>3, LoadOfType
    <3>5. table' = Answer(query, rows)
      BY <1>3, <3>1, <3>2, <3>4
    <3>6. QED BY <1>10, <3>2, <3>5 DEF Upcoming
  <2>4. QED BY <2>1, <2>2, <2>3
<1>12. ASSUME Counted, i = 1 PROVE Counted'
  <2>1. CASE error
    BY <1>3, <2>1 DEF Counted
  <2>2. CASE ~ error /\ Len(loads) > 1
    <3>1. \/ LastLoad = LoadOf(query)
          \/ LastLoad.at = "back" /\ LastLoad.answer.total <= Total
      BY <1>2, <1>12, <2>2 DEF Counted
    <3>2. LastLoad' = LastLoad /\ loads' # <<>>
      BY <1>8, <1>12, <2>2
    <3>3. QED BY <1>10, <3>1, <3>2 DEF Counted
  <2>3. CASE ~ error /\ ~ Len(loads) > 1
    <3>1. \/ LastLoad = LoadOf(query)
          \/ LastLoad.at = "back" /\ LastLoad.answer.total <= Total
      BY <1>2, <1>12, <2>3 DEF Counted
    <3>2. loads' = <<>> /\ LastLoad = loads[i]
      BY <1>9, <1>12, <2>3
    <3>3. query \in Queries
      BY <1>1, ListTypesNow
    <3>4. LastLoad # LoadOf(query)
      BY <1>3, <3>2, <3>3, LoadOfType
    <3>5. table'.total <= Total
      BY <1>3, <3>1, <3>2, <3>4
    <3>6. QED BY <1>10, <3>2, <3>5 DEF Counted
  <2>4. QED BY <2>1, <2>2, <2>3
<1>13. PageInside => PageInside'
  BY <1>3, <1>10 DEF PageInside
<1>14. QED BY <1>3, <1>6, <1>7, <1>11, <1>12, <1>13 DEF ListInv

LEMMA LoadFailsStep ==
  ASSUME ListInv, NEW i \in DOMAIN loads, LoadFails(i)
  PROVE  ListInv'
<1>1. ListTypes
  BY DEF ListInv
<1>2. loads \in Seq(LoadStates) /\ Len(loads) \in Nat /\ i \in 1 .. Len(loads)
  BY <1>1, ListTypeFacts
<1>3. /\ loads' = RemoveAt(loads, i) /\ loading' = FALSE
      /\ \/ error' = TRUE /\ UNCHANGED <<table, doubt>>
         \/ /\ table' = [rows |-> <<>>, total |-> 0]
            /\ Doubt(FALSE, TRUE)
            /\ UNCHANGED error
      /\ UNCHANGED <<list, rows, query, change>>
  BY DEF LoadFails
<1>4. loads' \in Seq(LoadStates) /\ Len(loads') = Len(loads) - 1
  BY <1>2, <1>3, Without
<1>5. Len(loads') <= MaxLoads
  BY <1>1, <1>2, <1>4, ListTypesNow, LoadsAssumption
<1>6. loading' \in BOOLEAN
  BY <1>3
<1>7. CASE error' = TRUE /\ UNCHANGED <<table, doubt>>
  <2>1. error' \in BOOLEAN
    BY <1>7
  <2>2. ListTypes'
    BY <1>1, <1>3, <1>4, <1>5, <1>6, <1>7, <2>1, ListTypesNow, ListTypesAgain
  <2>3. Upcoming' /\ Counted'
    BY <1>7 DEF Upcoming, Counted
  <2>4. PageInside => PageInside'
    BY <1>3, TotalStays DEF PageInside
  <2>5. QED BY <1>7, <2>2, <2>3, <2>4 DEF ListInv
<1>8. CASE /\ table' = [rows |-> <<>>, total |-> 0]
           /\ Doubt(FALSE, TRUE)
           /\ UNCHANGED error
  <2>1. doubt' = "overtaken"
    BY <1>8 DEF Doubt
  <2>2. error' \in BOOLEAN /\ doubt' \in {"none", "shrunk", "overtaken"}
    BY <1>1, <1>8, <2>1, ListTypesNow
  <2>3. ListTypes'
    BY <1>1, <1>3, <1>4, <1>5, <1>6, <1>8, <2>2, NoRows, ListTypesNow, ListTypesAgain
  <2>4. QED BY <2>1, <2>3 DEF ListInv
<1>9. QED BY <1>3, <1>7, <1>8

(* A step that sends a change, or ends one, and leaves the page as it is.  *)
LEMMA SendStep ==
  ASSUME ListInv, NEW action \in Actions, NEW ids, Send(action, ids)
  PROVE  ListInv'
<1>1. ListTypes
  BY DEF ListInv
<1>2. /\ change = NoChange
      /\ change' = [action |-> action, ids |-> ids, query |-> query]
      /\ UNCHANGED <<list, rows, query, table, loading, error, loads, doubt>>
  BY DEF Send
<1>3. change'.query = query /\ change'.action # "done" /\ change.action # "done"
  BY <1>2, ActionsAssumption DEF NoChange
<1>4. ListTypes'
  <2>1. change'.query \in Queries
    BY <1>1, <1>3, ListTypesNow
  <2>2. QED BY <1>1, <1>2, <2>1, ListTypesNow, ListTypesAgain
<1>5. Answer(query, rows)' = Answer(query, rows) /\ Total' = Total
      /\ LoadOf(query)' = LoadOf(query) /\ LastLoad' = LastLoad
  BY <1>2, AnswerStays, TotalStays DEF LoadOf, LastLoad
<1>6. (Upcoming => Upcoming') /\ (Counted => Counted') /\ (PageInside => PageInside')
  BY <1>2, <1>5 DEF Upcoming, Counted, PageInside
<1>7. QED BY <1>2, <1>3, <1>4, <1>6 DEF ListInv

LEMMA ServedStep ==
  ASSUME ListInv, Served
  PROVE  ListInv'
<1>1. ListTypes
  BY DEF ListInv
<1>2. /\ change.action \in Actions
      /\ rows' = [r \in Rows |-> IF r \in change.ids THEN After(change.action, r) ELSE rows[r]]
      /\ change' = Done(change.query)
      /\ Doubt(\E f \in Filters : Matching(f, rows) \ Matching(f, rows') # {}, FALSE)
      /\ UNCHANGED <<list, query, table, loading, error, loads>>
  BY DEF Served
<1>3. change.query \in Queries
  <2>1. change # NoChange
    BY <1>2, ActionsAssumption DEF NoChange
  <2>2. QED BY <1>1, <2>1, ListTypesNow
<1>4. change'.query \in Queries /\ change'.action = "done"
  BY <1>2, <1>3 DEF Done
<1>5. rows' \in [Rows -> {"on", "off", "gone"}]
  <2>1. rows \in [Rows -> {"on", "off", "gone"}]
    BY <1>1, ListTypesNow
  <2>2. \A r \in Rows : After(change.action, r) \in {"on", "off", "gone"}
    BY <2>1 DEF After
  <2>3. QED BY <1>2, <2>1, <2>2
<1>6. /\ doubt' \in {"none", "shrunk", "overtaken"}
      /\ doubt' = "none" =>
           /\ doubt = "none"
           /\ ~ \E f \in Filters : Matching(f, rows) \ Matching(f, rows') # {}
  BY <1>1, <1>2, ListTypesNow, DoubtStays
<1>7. ListTypes'
  BY <1>1, <1>2, <1>4, <1>5, <1>6, ListTypesNow, ListTypesAgain
<1>8. ASSUME doubt' = "none"
      PROVE  Counted' /\ PageInside'
  <2>1. PICK before \in SUBSET Rows : before = Matching(query.filter, rows)
    BY MatchingFacts
  <2>2. PICK after \in SUBSET Rows : after = Matching(query.filter, rows')
    BY MatchingFacts
  <2>3. query.filter \in Filters
    BY <1>1, ListTypesNow
  <2>4. before \subseteq after
    BY <1>6, <1>8, <2>1, <2>2, <2>3
  <2>5. IsFiniteSet(after) /\ Cardinality(after) \in Nat /\ Cardinality(before) \in Nat
    BY <2>1, <2>2, MatchingFacts
  <2>6. Cardinality(before) <= Cardinality(after)
    BY <2>4, <2>5, FS_Subset
  <2>7. Total = Cardinality(before)
    BY <2>1 DEF Total
  <2>8. Total' = Cardinality(after)
    <3>1. Matching(query.filter, rows)' = Matching(query.filter, rows')
      BY <1>2 DEF Matching, Matches
    <3>2. QED BY <2>2, <3>1 DEF Total
  <2>9. PICK less \in Nat, more \in Nat : less = Total /\ more = Total' /\ less <= more
    BY <2>5, <2>6, <2>7, <2>8
  <2>10. Counted /\ PageInside
    BY <1>6, <1>8 DEF ListInv
  <2>11. PageInside'
    <3>1. CASE query.page = 1
      BY <1>2, <3>1 DEF PageInside
    <3>2. CASE query.page # 1
      <4>1. (query.page - 1) * PER_PAGE < less
        BY <2>9, <2>10, <3>2 DEF PageInside
      <4>2. query.page \in Nat \ {0}
        BY <1>1, ListTypeFacts
      <4>3. (query.page - 1) * PER_PAGE \in Nat
        BY <4>2, PageAssumption
      <4>4. (query.page - 1) * PER_PAGE < more
        BY <2>9, <4>1, <4>3
      <4>5. QED BY <1>2, <2>9, <4>4 DEF PageInside
    <3>3. QED BY <3>1, <3>2
  <2>12. Counted'
    <3>1. LoadOf(query)' = LoadOf(query) /\ LastLoad' = LastLoad
      BY <1>2 DEF LoadOf, LastLoad
    <3>2. CASE error
      BY <1>2, <3>2 DEF Counted
    <3>3. CASE ~ error /\ loads = <<>>
      <4>1. table.total <= less /\ table.total \in Nat
        BY <1>1, <2>9, <2>10, <3>3, ListTypeFacts DEF Counted
      <4>2. table.total <= more
        BY <2>9, <4>1
      <4>3. QED BY <1>2, <2>9, <3>3, <4>2 DEF Counted
    <3>4. CASE ~ error /\ loads # <<>> /\ LastLoad = LoadOf(query)
      BY <1>2, <3>1, <3>4 DEF Counted
    <3>5. CASE ~ error /\ loads # <<>> /\ LastLoad # LoadOf(query)
      <4>1. LastLoad.at = "back" /\ LastLoad.answer.total <= less
        BY <2>9, <2>10, <3>5 DEF Counted
      <4>2. LastLoad.answer.total \in Nat
        BY <1>1, <3>5, <4>1, ListTypeFacts, LoadTypes DEF TableData
      <4>3. LastLoad.answer.total <= more
        BY <2>9, <4>1, <4>2
      <4>4. QED BY <1>2, <2>9, <3>1, <3>5, <4>1, <4>3 DEF Counted
    <3>6. QED BY <3>2, <3>3, <3>4, <3>5
  <2>13. QED BY <2>11, <2>12
<1>9. QED BY <1>4, <1>7, <1>8 DEF ListInv

LEMMA ChangeArrivesStep ==
  ASSUME ListInv, ChangeArrives
  PROVE  ListInv'
<1>1. ListTypes
  BY DEF ListInv
<1>2. /\ change.action = "done" /\ Load(change.query) /\ change' = NoChange
      /\ Doubt(FALSE, query # change.query)
      /\ UNCHANGED <<list, rows, query, table>>
  BY DEF ChangeArrives
<1>3. change.query \in Queries
  <2>1. change # NoChange
    BY <1>2 DEF NoChange
  <2>2. QED BY <1>1, <2>1, ListTypesNow
<1>4. /\ loads' \in Seq(LoadStates) /\ Len(loads') <= MaxLoads
      /\ loads' # <<>> /\ LastLoad' = LoadOf(change.query)
      /\ loading' \in BOOLEAN /\ error' = FALSE
  BY <1>1, <1>2, <1>3, Loaded
<1>5. /\ doubt' \in {"none", "shrunk", "overtaken"}
      /\ doubt' # "overtaken" => query = change.query
      /\ doubt' = "none" => doubt = "none"
  BY <1>1, <1>2, ListTypesNow, DoubtStays
<1>6. ListTypes'
  <2>1. error' \in BOOLEAN
    BY <1>4
  <2>2. QED BY <1>1, <1>2, <1>4, <1>5, <2>1, ListTypesNow, ListTypesAgain
<1>7. ASSUME doubt' # "overtaken" PROVE Upcoming' /\ Counted'
  <2>1. LastLoad' = LoadOf(query')
    BY <1>2, <1>4, <1>5, <1>7
  <2>2. QED BY <1>4, <2>1, LoadedForQuery
<1>8. PageInside => PageInside'
  BY <1>2, TotalStays DEF PageInside
<1>9. QED BY <1>5, <1>6, <1>7, <1>8 DEF ListInv

LEMMA ChangeFailsStep ==
  ASSUME ListInv, ChangeFails
  PROVE  ListInv'
<1>1. ListTypes
  BY DEF ListInv
<1>2. /\ change' = NoChange /\ Doubt(FALSE, change.action = "done")
      /\ UNCHANGED <<list, rows, query, table, loading, error, loads>>
  BY DEF ChangeFails
<1>3. /\ doubt' \in {"none", "shrunk", "overtaken"}
      /\ doubt' # "overtaken" => doubt # "overtaken" /\ change.action # "done"
      /\ doubt' = "none" => doubt = "none"
  BY <1>1, <1>2, ListTypesNow, DoubtStays
<1>4. ListTypes'
  BY <1>1, <1>2, <1>3, ListTypesNow, ListTypesAgain
<1>5. Answer(query, rows)' = Answer(query, rows) /\ Total' = Total
      /\ LoadOf(query)' = LoadOf(query) /\ LastLoad' = LastLoad
  BY <1>2, AnswerStays, TotalStays DEF LoadOf, LastLoad
<1>6. (Upcoming => Upcoming') /\ (Counted => Counted') /\ (PageInside => PageInside')
  BY <1>2, <1>5 DEF Upcoming, Counted, PageInside
<1>7. QED BY <1>3, <1>4, <1>6 DEF ListInv

LEMMA DetailDeletedStep ==
  ASSUME ListInv, NEW r \in Rows, DetailDeleted(r)
  PROVE  ListInv'
<1>1. ListTypes
  BY DEF ListInv
<1>2. PICK kept \in Seq(Rows \X {"on", "off"}) :
        /\ kept = KeptAt(table.rows, {i \in DOMAIN table.rows : table.rows[i][1] # r})
        /\ table' = [table EXCEPT !.rows = kept]
  <2>1. table.rows \in Seq(Rows \X {"on", "off"})
    BY <1>1, ListTypesNow DEF TableData
  <2>2. KeptAt(table.rows, {i \in DOMAIN table.rows : table.rows[i][1] # r})
          \in Seq(Rows \X {"on", "off"})
    BY <2>1, KeptEntries
  <2>3. QED BY <2>2 DEF DetailDeleted
<1>3. /\ rows' = [rows EXCEPT ![r] = "off"]
      /\ Doubt(TRUE, TRUE)
      /\ UNCHANGED <<list, query, loading, error, loads, change>>
  BY DEF DetailDeleted
<1>4. doubt' = "overtaken"
  BY <1>3 DEF Doubt
<1>5. table' \in TableData
  BY <1>1, <1>2, ListTypesNow DEF TableData
<1>6. rows' \in [Rows -> {"on", "off", "gone"}]
  BY <1>1, <1>3, ListTypesNow
<1>7. ListTypes'
  <2>1. doubt' \in {"none", "shrunk", "overtaken"}
    BY <1>4
  <2>2. QED BY <1>1, <1>3, <1>5, <1>6, <2>1, ListTypesNow, ListTypesAgain
<1>8. QED BY <1>4, <1>7 DEF ListInv

LEMMA ListSteps ==
  ASSUME ListInv, ListNext
  PROVE  ListInv'
<1>1. ASSUME NEW f \in Filters, ChangeFilter(f) PROVE ListInv'
  BY <1>1, ChangeFilterStep
<1>2. ASSUME NEW n \in 1 .. PageCount(Cardinality(Rows)), ChangePage(n) PROVE ListInv'
  BY <1>2, ChangePageStep
<1>3. ASSUME NEW a \in Actions, NEW ids, BulkSend(a, ids) PROVE ListInv'
  BY <1>3, SendStep DEF BulkSend
<1>4. ASSUME NEW a \in Actions, NEW r \in Rows, SingleSend(a, r) PROVE ListInv'
  BY <1>4, SendStep DEF SingleSend
<1>5. ASSUME NEW r \in Rows, DetailDeleted(r) PROVE ListInv'
  BY <1>5, DetailDeletedStep
<1>6. ASSUME LoadAnswered PROVE ListInv'
  BY <1>6, ServedLoadStep, LoadArrivesStep, LoadFailsStep DEF LoadAnswered
<1>7. QED
  BY <1>1, <1>2, <1>3, <1>4, <1>5, <1>6, RetryStep, RemountStep, ServedStep,
     ChangeArrivesStep, ChangeFailsStep DEF ListNext

LEMMA ListInitially ==
  ASSUME ListInit
  PROVE  ListInv
<1>1. FirstQuery \in Queries /\ FirstQuery.filter \in Filters
      /\ FirstQuery.page = 1
  BY FirstIsQuery DEF FirstQuery, Filters
<1>2. /\ list \in Lists /\ rows \in [Rows -> {"on", "off", "gone"}]
      /\ query = FirstQuery /\ table = [rows |-> <<>>, total |-> 0]
      /\ loading = TRUE /\ error = FALSE /\ loads = <<LoadOf(FirstQuery)>>
      /\ change = NoChange /\ doubt = "none"
  BY DEF ListInit
<1>3. /\ loads \in Seq(LoadStates) /\ Len(loads) = 1 /\ loads # <<>>
      /\ LastLoad = LoadOf(query)
  <2>1. LoadOf(FirstQuery) \in LoadStates
    BY <1>1, LoadOfType
  <2>2. <<LoadOf(FirstQuery)>> \in Seq(LoadStates) /\ Len(<<LoadOf(FirstQuery)>>) = 1
        /\ <<LoadOf(FirstQuery)>>[1] = LoadOf(FirstQuery)
    BY <2>1
  <2>3. <<LoadOf(FirstQuery)>> # <<>>
    BY <2>2, EmptySeq
  <2>4. QED BY <1>2, <2>2, <2>3 DEF LastLoad
<1>4. Len(loads) <= MaxLoads
  BY <1>3, LoadsAssumption
<1>5. loading \in BOOLEAN /\ error \in BOOLEAN
  BY <1>2
<1>6. table \in TableData
  BY <1>2, NoRows
<1>7. \A i \in DOMAIN table.rows : table.rows[i] \in Rows \X {"on", "off"}
  BY <1>6, TableRows
<1>8. ListTypes
  BY <1>1, <1>2, <1>3, <1>4, <1>5, <1>6, <1>7, SomePages DEF ListTypes, ListTypeOK
<1>9. Upcoming /\ Counted
  BY <1>3 DEF Upcoming, Counted
<1>10. PageInside
  BY <1>1, <1>2 DEF PageInside
<1>11. QED BY <1>8, <1>9, <1>10 DEF ListInv

LEMMA ListFrame ==
  ASSUME ListInv, UNCHANGED listVars
  PROVE  ListInv'
<1>1. ListTypes
  BY DEF ListInv
<1>2. UNCHANGED <<list, rows, query, table, loading, error, loads, change, doubt>>
  BY DEF listVars
<1>3. ListTypes'
  BY <1>1, <1>2, ListTypesNow, ListTypesAgain
<1>4. Answer(query, rows)' = Answer(query, rows) /\ Total' = Total
      /\ LoadOf(query)' = LoadOf(query) /\ LastLoad' = LastLoad
  BY <1>2, AnswerStays, TotalStays DEF LoadOf, LastLoad
<1>5. (Upcoming => Upcoming') /\ (Counted => Counted') /\ (PageInside => PageInside')
  BY <1>2, <1>4 DEF Upcoming, Counted, PageInside
<1>6. QED BY <1>2, <1>3, <1>5 DEF ListInv

LEMMA ListAlways == Spec => []ListInv
<1>1. Init => ListInv
  BY ListInitially DEF Init
<1>2. ASSUME ListInv, [Next]_frontEndVars
      PROVE  ListInv'
  <2>1. CASE UNCHANGED listVars
    BY <1>2, <2>1, ListFrame
  <2>2. CASE List(ListNext)
    BY <1>2, <2>2, ListSteps DEF List
  <2>3. QED BY <1>2, <2>1, <2>2 DEF Next, frontEndVars, Session, Form, Dialog, Gallery, Site, Payment
<1>3. QED BY <1>1, <1>2, PTL DEF Spec

(* In a settled page the rows are those of its query, and the page number  *)
(* is inside the list.                                                     *)
LEMMA SettledShowsQuery ==
  ASSUME ListInv
  PROVE  PageShowsItsQuery
<1>1. SUFFICES ASSUME Settled, doubt # "overtaken"
      PROVE  table = Answer(query, rows) /\ (doubt = "none" => ~ DeadEnd)
  BY DEF PageShowsItsQuery
<1>2. table = Answer(query, rows)
  BY <1>1 DEF ListInv, Upcoming, Settled, NoChange
<1>3. query \in Queries /\ rows \in [Rows -> {"on", "off", "gone"}]
  BY ListTypesNow DEF ListInv
<1>4. ASSUME doubt = "none", table.rows = <<>>, table.total > 0
      PROVE  FALSE
  <2>1. table.total = Total
    BY <1>2, <1>3, AnswerSound DEF Total
  <2>2. query.page = 1 \/ (query.page - 1) * PER_PAGE < table.total
    BY <1>4, <2>1 DEF ListInv, PageInside
  <2>3. QED BY <1>2, <1>3, <1>4, <2>2, AnswerSound
<1>5. QED BY <1>2, <1>4 DEF DeadEnd

(***************************************************************************)
(* When answers come in the order they were asked for, a page that waits   *)
(* for nothing shows the rows of its own query as the API has them, and a  *)
(* filter or the pager never leads to a dead end: whatever rows there are  *)
(* and however long a page is.                                             *)
(***************************************************************************)
THEOREM ListShowsItsQuery == Spec => []PageShowsItsQuery
<1>1. ListInv => PageShowsItsQuery
  BY SettledShowsQuery
<1>2. QED BY <1>1, ListAlways, PTL

-----------------------------------------------------------------------------
(***************************************************************************)
(* GalleryPage.  While handlers follow one another, each comes back to the *)
(* list it was called with, and the list it makes of it and of its answer  *)
(* is one of the API's rows as they are by then.                           *)
(***************************************************************************)
GalleryRow == [order : 0 .. Cardinality(Images), primary : BOOLEAN]
Item == [id : Images, primary : BOOLEAN]

Asked ==
  ({"add", "profile", "then", "remove", "primary"} \X Images)
  \cup ({"reorder"} \X Seq(Images))
AnswersWithRow == {"add", "profile"} \X Images \X BOOLEAN
OtherAnswers ==
  ({"then", "remove", "primary"} \X Images) \cup ({"reorder"} \X Seq(Item))
Waits ==
  {NotBusy}
  \cup [at : {"API"}, call : Asked, media : Seq(Item), items : Seq(Item)]
  \cup [at : {"back"}, call : OtherAnswers \cup AnswersWithRow,
        media : Seq(Item), items : Seq(Item)]

GalleryTypes ==
  /\ gallery \in [DOMAIN gallery -> GalleryRow] /\ DOMAIN gallery \subseteq Images
  /\ media \in Seq(Item) /\ items \in Seq(Item)
  /\ waiting \in [Handlers -> Waits]
  /\ unordered \in BOOLEAN /\ doubtful \in BOOLEAN

(* The API's numbers are smaller than the next one it will give.           *)
Numbered ==
  unordered \/ \A i \in DOMAIN gallery : gallery[i].order < Cardinality(DOMAIN gallery)

(* A list of these rows, in their order unless that is in doubt.           *)
Agrees(l, g, lapsed) ==
  /\ Len(l) = Cardinality(DOMAIN g)
  /\ \A k \in 1 .. Len(l) : l[k].id \in DOMAIN g
  /\ \A i \in DOMAIN g : \E k \in 1 .. Len(l) : l[k].id = i
  /\ \A k \in 1 .. Len(l) : l[k].primary => g[l[k].id].primary
  /\ lapsed \/ \A k \in 1 .. Len(l) - 1 : g[l[k].id].order <= g[l[k + 1].id].order

(* The list a handler will show, once its answer is there.                 *)
WithProfile(w) ==
  Append(IF w.call[1] = "then" THEN Unbadged(w.media) ELSE w.media,
         [id |-> w.call[2], primary |-> TRUE])
Outcome(w) ==
  CASE w.call[1] = "add" -> Append(IF w.call[3] THEN Unbadged(w.items) ELSE w.items,
                                   [id |-> w.call[2], primary |-> w.call[3]])
    [] w.call[1] \in {"profile", "then"} -> WithProfile(w)
    [] w.call[1] = "remove" ->
         KeptAt(w.items, {k \in DOMAIN w.items : w.items[k].id # w.call[2]})
    [] w.call[1] = "primary" -> Badged(w.items, w.call[2])
    [] w.call[1] = "reorder" -> w.call[2]

Follows(w) ==
  /\ w.media = media
  /\ w.call[1] # "reorder" => items = media /\ w.items = media
  /\ w.at = "API" /\ w.call[1] # "then" => Agrees(media, gallery, unordered)
  /\ w.at = "API" /\ w.call[1] = "then" =>
       Agrees(Append(Unbadged(media), [id |-> w.call[2], primary |-> FALSE]),
              gallery, unordered)
  /\ w.at = "back" => Agrees(Outcome(w), gallery, unordered)

InStep ==
  /\ \A h, o \in Handlers : Busy(h) /\ Busy(o) => h = o
  /\ Quiet => items = media /\ Agrees(media, gallery, unordered)
  /\ \A h \in Handlers : Busy(h) => Follows(waiting[h])

GalleryInv == GalleryTypes /\ Numbered /\ (~ doubtful => InStep)

LEMMA AskedFacts ==
  ASSUME NEW c \in Asked
  PROVE  /\ c[1] \in {"add", "profile", "then", "remove", "primary", "reorder"}
         /\ c[1] # "reorder" => c = <<c[1], c[2]>> /\ c[2] \in Images
         /\ c[1] = "reorder" => c = <<"reorder", c[2]>> /\ c[2] \in Seq(Images)
<1>1. CASE c \in {"add", "profile", "then", "remove", "primary"} \X Images
  BY <1>1
<1>2. CASE c \in {"reorder"} \X Seq(Images)
  BY <1>2
<1>3. QED BY <1>1, <1>2 DEF Asked

LEMMA AnswerFacts ==
  ASSUME NEW c \in OtherAnswers \cup AnswersWithRow
  PROVE  /\ c[1] \in {"add", "profile", "then", "remove", "primary", "reorder"}
         /\ c[1] # "reorder" => c[2] \in Images
         /\ c[1] = "reorder" => c[2] \in Seq(Item)
         /\ c[1] = "add" => c[3] \in BOOLEAN
<1>1. CASE c \in {"then", "remove", "primary"} \X Images
  BY <1>1
<1>2. CASE c \in {"reorder"} \X Seq(Item)
  BY <1>2
<1>3. CASE c \in {"add", "profile"} \X Images \X BOOLEAN
  BY <1>3
<1>4. QED BY <1>1, <1>2, <1>3 DEF OtherAnswers, AnswersWithRow

AtApi(c, m, s) == [at |-> "API", call |-> c, media |-> m, items |-> s]
AtBack(c, m, s) == [at |-> "back", call |-> c, media |-> m, items |-> s]

LEMMA WaitMade ==
  ASSUME NEW m \in Seq(Item), NEW s \in Seq(Item)
  PROVE  /\ NotBusy \in Waits
         /\ \A c \in Asked : AtApi(c, m, s) \in Waits
         /\ \A c \in OtherAnswers \cup AnswersWithRow : AtBack(c, m, s) \in Waits
  BY DEF Waits, AtApi, AtBack

LEMMA WaitFacts ==
  ASSUME NEW w \in Waits
  PROVE  /\ NotBusy.at = "idle"
         /\ w # NotBusy => /\ w.at \in {"API", "back"}
                           /\ w.media \in Seq(Item) /\ w.items \in Seq(Item)
         /\ w.at = "API" => /\ w # NotBusy /\ w.call \in Asked
                            /\ w = AtApi(w.call, w.media, w.items)
         /\ w.at = "back" => /\ w # NotBusy /\ w.call \in OtherAnswers \cup AnswersWithRow
                             /\ w = AtBack(w.call, w.media, w.items)
<1>1. NotBusy.at = "idle"
  BY DEF NotBusy
<1>2. CASE w = NotBusy
  BY <1>1, <1>2
<1>3. CASE w \in [at : {"API"}, call : Asked, media : Seq(Item), items : Seq(Item)]
  BY <1>1, <1>3 DEF AtApi
<1>4. CASE w \in [at : {"back"}, call : OtherAnswers \cup AnswersWithRow,
                  media : Seq(Item), items : Seq(Item)]
  BY <1>1, <1>4 DEF AtBack
<1>5. QED BY <1>2, <1>3, <1>4 DEF Waits

LEMMA GalleryFacts ==
  ASSUME GalleryTypes
  PROVE  /\ IsFiniteSet(DOMAIN gallery) /\ Cardinality(DOMAIN gallery) \in Nat
         /\ Cardinality(Images) \in Nat
         /\ Cardinality(DOMAIN gallery) <= Cardinality(Images)
         /\ \A i \in DOMAIN gallery : /\ i \in Images /\ gallery[i] \in GalleryRow
                                      /\ gallery[i].order \in Nat
                                      /\ gallery[i].order <= Cardinality(Images)
                                      /\ gallery[i].primary \in BOOLEAN
         /\ \A h \in Handlers : waiting[h] \in Waits
<1>1. DOMAIN gallery \subseteq Images
  BY DEF GalleryTypes
<1>2. /\ IsFiniteSet(DOMAIN gallery) /\ Cardinality(DOMAIN gallery) \in Nat
      /\ Cardinality(Images) \in Nat
      /\ Cardinality(DOMAIN gallery) <= Cardinality(Images)
  BY <1>1, ImagesAssumption, FS_Subset, FS_CardinalityType
<1>3. ASSUME NEW i \in DOMAIN gallery
      PROVE  /\ i \in Images /\ gallery[i] \in GalleryRow
             /\ gallery[i].order \in Nat
             /\ gallery[i].order <= Cardinality(Images)
             /\ gallery[i].primary \in BOOLEAN
  <2>1. i \in Images /\ gallery[i] \in GalleryRow
    BY DEF GalleryTypes
  <2>2. QED BY <1>2, <2>1 DEF GalleryRow
<1>4. \A h \in Handlers : waiting[h] \in Waits
  BY DEF GalleryTypes
<1>5. QED BY <1>2, <1>3, <1>4

(* One handler's turn: the others wait as before.                          *)
LEMMA TurnOf ==
  ASSUME GalleryTypes, NEW h \in Handlers, NEW w \in Waits,
         waiting' = [waiting EXCEPT ![h] = w]
  PROVE  /\ waiting' \in [Handlers -> Waits] /\ waiting'[h] = w
         /\ \A o \in Handlers \ {h} : waiting'[o] = waiting[o]
  BY DEF GalleryTypes

LEMMA AnswerIsThere ==
  ASSUME GalleryTypes, NEW h \in Handlers, waiting[h].at = "API",
         NEW c \in OtherAnswers \cup AnswersWithRow, AnswerIs(h, c)
  PROVE  LET w == AtBack(c, waiting[h].media, waiting[h].items) IN
         w \in Waits /\ waiting' = [waiting EXCEPT ![h] = w]
<1>1. waiting \in [Handlers -> Waits] /\ waiting[h] \in Waits
  BY DEF GalleryTypes
<1>2. PICK old \in Waits : /\ old = waiting[h] /\ old.media \in Seq(Item) /\ old.items \in Seq(Item)
                           /\ old = AtApi(old.call, old.media, old.items)
  BY <1>1, WaitFacts
<1>3. PICK w \in Waits : w = AtBack(c, old.media, old.items)
  BY <1>2, WaitMade
<1>4. [old EXCEPT !.at = "back", !.call = c] = w
  <2>1. PICK half : half = [old EXCEPT !.at = "back"]
    OBVIOUS
  <2>2. half = [at |-> "back", call |-> old.call, media |-> old.media, items |-> old.items]
    BY <1>2, <2>1 DEF AtApi
  <2>3. [half EXCEPT !.call = c]
          = [at |-> "back", call |-> c, media |-> old.media, items |-> old.items]
    BY <2>2
  <2>4. QED BY <1>3, <2>1, <2>3 DEF AtBack
<1>5. waiting' = [waiting EXCEPT ![h] = [old EXCEPT !.at = "back", !.call = c]]
  BY <1>1, <1>2 DEF AnswerIs
<1>6. QED BY <1>2, <1>3, <1>4, <1>5

(* The same images, at the same places.                                    *)
SameIds(a, b) == Len(a) = Len(b) /\ \A k \in 1 .. Len(b) : a[k].id = b[k].id

LEMMA Relabelled ==
  ASSUME NEW l \in Seq(Item)
  PROVE  /\ Unbadged(l) \in Seq(Item) /\ SameIds(Unbadged(l), l) /\ SameIds(l, l)
         /\ \A k \in 1 .. Len(l) : ~ Unbadged(l)[k].primary
         /\ \A i : /\ Badged(l, i) \in Seq(Item) /\ SameIds(Badged(l, i), l)
                   /\ \A k \in 1 .. Len(l) : Badged(l, i)[k].primary => l[k].id = i
<1>1. PICK n \in Nat : n = Len(l) /\ DOMAIN l = 1 .. n
  BY LenProperties
<1>2. \A k \in 1 .. n : l[k].id \in Images
  <2>1. \A k \in 1 .. n : l[k] \in Item
    BY <1>1, ElementOfSeq
  <2>2. QED BY <2>1 DEF Item
<1>3. /\ Unbadged(l) \in Seq(Item) /\ SameIds(Unbadged(l), l)
      /\ \A k \in 1 .. n : ~ Unbadged(l)[k].primary
  <2>1. PICK u : u = [k \in 1 .. n |-> [id |-> l[k].id, primary |-> FALSE]]
    OBVIOUS
  <2>2. Unbadged(l) = u
    BY <1>1, <2>1 DEF Unbadged
  <2>3. \A k \in 1 .. n : u[k] \in Item /\ u[k].id = l[k].id /\ ~ u[k].primary
    BY <1>2, <2>1 DEF Item
  <2>4. u \in [1 .. n -> Item]
    BY <2>1, <2>3
  <2>5. u \in Seq(Item) /\ Len(u) = n
    BY <2>4
  <2>6. QED BY <1>1, <2>2, <2>3, <2>5 DEF SameIds
<1>4. ASSUME NEW i
      PROVE  /\ Badged(l, i) \in Seq(Item) /\ SameIds(Badged(l, i), l)
             /\ \A k \in 1 .. n : Badged(l, i)[k].primary => l[k].id = i
  <2>1. PICK u : u = [k \in 1 .. n |-> [id |-> l[k].id, primary |-> l[k].id = i]]
    OBVIOUS
  <2>2. Badged(l, i) = u
    BY <1>1, <2>1 DEF Badged
  <2>3. \A k \in 1 .. n : u[k] \in Item /\ u[k].id = l[k].id /\ (u[k].primary => l[k].id = i)
    <3>1. TAKE k \in 1 .. n
    <3>2. u[k] = [id |-> l[k].id, primary |-> l[k].id = i]
      BY <2>1
    <3>3. (l[k].id = i) \in BOOLEAN
      OBVIOUS
    <3>4. u[k] \in Item
      BY <1>2, <3>2, <3>3 DEF Item
    <3>5. u[k].id = l[k].id /\ u[k].primary = (l[k].id = i)
      BY <3>2
    <3>6. QED BY <3>4, <3>5
  <2>4. u \in [1 .. n -> Item]
    BY <2>1, <2>3
  <2>5. u \in Seq(Item) /\ Len(u) = n
    BY <2>4
  <2>6. QED BY <1>1, <2>2, <2>3, <2>5 DEF SameIds
<1>5. SameIds(l, l)
  BY DEF SameIds
<1>6. QED BY <1>1, <1>3, <1>4, <1>5

LEMMA OneMoreItem ==
  ASSUME NEW l \in Seq(Item), NEW x \in Item
  PROVE  /\ Append(l, x) \in Seq(Item) /\ Len(Append(l, x)) = Len(l) + 1
         /\ Append(l, x)[Len(l) + 1] = x
         /\ \A k \in 1 .. Len(l) : Append(l, x)[k] = l[k]
  BY LenProperties

(* A list and one image more, for the rows and one row more, numbered last.*)
Grown(h, g, i) ==
  /\ g \in [DOMAIN g -> GalleryRow] /\ DOMAIN g \subseteq Images /\ i \in Images \ DOMAIN g
  /\ DOMAIN h = DOMAIN g \cup {i} /\ \A j \in DOMAIN g : h[j] = g[j]
  /\ h[i].order = Cardinality(DOMAIN g)
FewerBadges(m, l) ==
  /\ m \in Seq(Item) /\ l \in Seq(Item) /\ SameIds(m, l)
  /\ \A k \in 1 .. Len(l) : m[k].primary => l[k].primary
NumbersLeft(g, lapsed) ==
  lapsed \/ \A j \in DOMAIN g : g[j].order < Cardinality(DOMAIN g)
NewEntry(added, h, i) == added \in Item /\ added.id = i /\ (added.primary => h[i].primary)

LEMMA AgreesAdded ==
  ASSUME NEW g, NEW h, NEW i, Grown(h, g, i), NEW l, NEW m, FewerBadges(m, l),
         NEW lapsed, Agrees(l, g, lapsed), NumbersLeft(g, lapsed),
         NEW added, NewEntry(added, h, i)
  PROVE  Agrees(Append(m, added), h, lapsed)
<1> DEFINE D == DOMAIN g
<1>1. /\ D \in SUBSET Images /\ g \in [D -> GalleryRow] /\ i \in Images \ D
      /\ DOMAIN h = D \cup {i} /\ \A j \in D : h[j] = g[j]
      /\ h[i].order = Cardinality(D)
  BY DEF Grown
<1>2. /\ m \in Seq(Item) /\ l \in Seq(Item) /\ SameIds(m, l)
      /\ \A k \in 1 .. Len(l) : m[k].primary => l[k].primary
  BY DEF FewerBadges
<1>3. lapsed \/ \A j \in D : g[j].order < Cardinality(D)
  BY DEF NumbersLeft
<1>4. added \in Item /\ added.id = i /\ (added.primary => h[i].primary)
  BY DEF NewEntry
<1> USE <1>1, <1>2, <1>3, <1>4
<1> HIDE DEF D
<1>5. PICK n \in Nat : n = Len(l) /\ n = Len(m) /\ n = Cardinality(D)
  BY LenProperties DEF Agrees, SameIds
<1>6. Cardinality(D \cup {i}) = n + 1
  BY <1>5, ImagesAssumption, FS_Subset, FS_AddElement
<1>7. h[i].order = n /\ \A j \in D : h[j] = g[j]
  BY <1>5
<1>8. PICK a \in Seq(Item) : /\ a = Append(m, added) /\ Len(a) = n + 1 /\ a[n + 1] = added
                             /\ \A k \in 1 .. n : a[k] = m[k]
  <2>1. n = Len(m)
    BY <1>5
  <2>2. /\ Append(m, added) \in Seq(Item) /\ Len(Append(m, added)) = n + 1
        /\ Append(m, added)[n + 1] = added /\ \A k \in 1 .. n : Append(m, added)[k] = m[k]
    BY <2>1, OneMoreItem
  <2>3. QED BY <2>2
<1>9. \A k \in 1 .. n : /\ a[k].id = l[k].id /\ a[k].id \in D
                        /\ a[k].primary => g[a[k].id].primary
  BY <1>5, <1>8 DEF SameIds, Agrees
<1>10. Len(a) = Cardinality(DOMAIN h)
  BY <1>6, <1>7, <1>8
<1>11. \A k \in 1 .. Len(a) : a[k].id \in DOMAIN h /\ (a[k].primary => h[a[k].id].primary)
  <2>1. TAKE k \in 1 .. Len(a)
  <2>2. k \in 1 .. n \/ k = n + 1
    BY <1>8
  <2>3. CASE k \in 1 .. n
    BY <1>7, <1>9, <2>3
  <2>4. CASE k = n + 1
    BY <1>7, <1>8, <2>4
  <2>5. QED BY <2>2, <2>3, <2>4
<1>12. \A j \in DOMAIN h : \E k \in 1 .. Len(a) : a[k].id = j
  <2>1. TAKE j \in DOMAIN h
  <2>2. CASE j = i
    <3>1. n + 1 \in 1 .. Len(a)
      BY <1>8
    <3>2. QED BY <1>8, <2>2, <3>1
  <2>3. CASE j # i
    <3>1. j \in D
      BY <1>7, <2>3
    <3>2. PICK k \in 1 .. n : l[k].id = j
      BY <1>5, <3>1 DEF Agrees
    <3>3. k \in 1 .. Len(a)
      BY <1>8
    <3>4. QED BY <1>9, <3>2, <3>3
  <2>4. QED BY <2>2, <2>3
<1>13. lapsed \/ \A k \in 1 .. Len(a) - 1 : h[a[k].id].order <= h[a[k + 1].id].order
  <2>1. SUFFICES ASSUME ~ lapsed, NEW k \in 1 .. n
                 PROVE  h[a[k].id].order <= h[a[k + 1].id].order
    BY <1>8
  <2>2. CASE k = n
    <3>1. h[a[k].id].order < n
      BY <1>5, <1>7, <1>9, <2>1
    <3>2. h[a[k + 1].id].order = n
      BY <1>7, <1>8, <2>2
    <3>3. g[a[k].id] \in GalleryRow /\ Cardinality(Images) \in Nat
      BY <1>9, ImagesAssumption, FS_CardinalityType
    <3>4. h[a[k].id].order \in Nat
      BY <1>7, <1>9, <3>3 DEF GalleryRow
    <3>5. QED BY <3>1, <3>2, <3>4
  <2>3. CASE k # n
    <3>1. k + 1 \in 1 .. n /\ k \in 1 .. Len(l) - 1
      BY <1>5, <2>3
    <3>2. g[l[k].id].order <= g[l[k + 1].id].order
      BY <2>1, <3>1 DEF Agrees
    <3>3. a[k + 1].id = l[k + 1].id /\ a[k + 1].id \in D /\ a[k].id = l[k].id /\ a[k].id \in D
      BY <1>9, <3>1
    <3>4. QED BY <1>7, <3>2, <3>3
  <2>4. QED BY <2>2, <2>3
<1>14. QED BY <1>8, <1>10, <1>11, <1>12, <1>13 DEF Agrees

(* One row primary, and no badge but its own.                              *)
LEMMA AgreesPrimary ==
  ASSUME NEW D \in SUBSET Images, NEW g \in [D -> GalleryRow], NEW i \in D,
         NEW lapsed, NEW l \in Seq(Item), NEW m \in Seq(Item), SameIds(m, l),
         Agrees(l, g, lapsed), \A k \in 1 .. Len(l) : m[k].primary => m[k].id = i
  PROVE  Agrees(m, [j \in D |-> [g[j] EXCEPT !.primary = (j = i)]], lapsed)
<1>1. PICK n \in Nat : n = Len(l) /\ n = Len(m) /\ n = Cardinality(D)
  BY LenProperties DEF Agrees, SameIds
<1>2. PICK g2 : g2 = [j \in D |-> [g[j] EXCEPT !.primary = (j = i)]]
  OBVIOUS
<1>3. \A j \in D : g2[j].order = g[j].order /\ (j = i => g2[j].primary)
  <2>1. TAKE j \in D
  <2>2. g2[j] = [g[j] EXCEPT !.primary = (j = i)] /\ g[j] \in GalleryRow
    BY <1>2
  <2>3. g2[j].order = g[j].order /\ g2[j].primary = (j = i)
    BY <2>2 DEF GalleryRow
  <2>4. QED BY <2>3
<1>4. DOMAIN g2 = D /\ DOMAIN g = D
  BY <1>2
<1>5. \A k \in 1 .. n : m[k].id = l[k].id /\ m[k].id \in D
  BY <1>1, <1>4 DEF SameIds, Agrees
<1>6. \A k \in 1 .. Len(m) : m[k].primary => g2[m[k].id].primary
  BY <1>1, <1>3, <1>5
<1>7. \A j \in DOMAIN g2 : \E k \in 1 .. Len(m) : m[k].id = j
  BY <1>1, <1>4, <1>5 DEF Agrees
<1>8. lapsed \/ \A k \in 1 .. Len(m) - 1 : g2[m[k].id].order <= g2[m[k + 1].id].order
  <2>1. SUFFICES ASSUME ~ lapsed, NEW k \in 1 .. n - 1
                 PROVE  g2[m[k].id].order <= g2[m[k + 1].id].order
    BY <1>1
  <2>2. k \in 1 .. n /\ k + 1 \in 1 .. n
    OBVIOUS
  <2>3. g[l[k].id].order <= g[l[k + 1].id].order
    BY <1>1, <2>1 DEF Agrees
  <2>4. QED BY <1>3, <1>5, <2>2, <2>3
<1>9. QED BY <1>1, <1>2, <1>4, <1>5, <1>6, <1>7, <1>8 DEF Agrees

(* Each number is where its rank says.                                     *)
LEMMA AscendingOnto ==
  ASSUME NEW S \in SUBSET Nat, IsFiniteSet(S), NEW x \in S
  PROVE  Rank(S, x) \in 1 .. Cardinality(S) /\ Ascending(S)[Rank(S, x)] = x
<1>1. PICK n \in 1 .. Cardinality(S) : n = Rank(S, x)
  BY RankBounds
<1>2. PICK y \in S : y = Ascending(S)[n] /\ Rank(S, y) = n
  BY AscendingSound
<1>3. ~ (x < y) /\ ~ (y < x)
  <2>1. Rank(S, y) = Rank(S, x) /\ Rank(S, x) \in Nat
    BY <1>1, <1>2
  <2>2. ASSUME x < y PROVE FALSE
    BY <2>1, <2>2, RankGrows
  <2>3. ASSUME y < x PROVE FALSE
    BY <2>1, <2>3, RankGrows
  <2>4. QED BY <2>2, <2>3
<1>4. x = y
  BY <1>3
<1>5. QED BY <1>1, <1>2, <1>4

(* A list that covers as many images as it is long has none twice.         *)
OnePlaceEach(id, n, D) ==
  /\ IsFiniteSet(D) /\ n \in Nat /\ Cardinality(D) = n /\ id \in [1 .. n -> D]
  /\ \A i \in D : \E k \in 1 .. n : id[k] = i

LEMMA NoneTwice ==
  ASSUME NEW id, NEW n, NEW D, OnePlaceEach(id, n, D)
  PROVE  \A j, k \in 1 .. n : id[j] = id[k] => j = k
<1> USE DEF OnePlaceEach
<1>1. IsFiniteSet(1 .. n) /\ Cardinality(1 .. n) = n
  BY FS_Interval
<1>2. id \in Surjection(1 .. n, D)
  BY DEF Surjection
<1>3. id \in Injection(1 .. n, D)
  BY <1>1, <1>2, FS_Surjection
<1>4. QED BY <1>3 DEF Injection, IsInjective

(* Places taken in their order.                                            *)
LEMMA InTheirOrder ==
  ASSUME NEW kept \in SUBSET Nat, IsFiniteSet(kept), NEW less \in Nat, Cardinality(kept) = less
  PROVE  \E at \in [1 .. less -> kept] :
           at = Ascending(kept) /\ \A k \in kept : \E p \in 1 .. less : at[p] = k
  BY AscendingSound, AscendingOnto

(* A list without an image, for the rows without its row: any numbering.   *)
LEMMA AgreesRemoved ==
  ASSUME NEW D \in SUBSET Images, NEW g \in [D -> GalleryRow], NEW i \in D,
         NEW lapsed, NEW l \in Seq(Item), Agrees(l, g, lapsed),
         NEW E, E = D \ {i}, NEW g2 \in [E -> GalleryRow],
         \A j \in E : g[j].primary => g2[j].primary,
         NEW places, places = {k \in DOMAIN l : l[k].id # i}
  PROVE  Agrees(KeptAt(l, places), g2, TRUE)
<1>1. PICK n \in Nat : n = Len(l) /\ n = Cardinality(D) /\ DOMAIN l = 1 .. n
  BY LenProperties DEF Agrees
<1>2. IsFiniteSet(D) /\ DOMAIN g = D /\ DOMAIN g2 = E
  BY ImagesAssumption, FS_Subset
<1>3. PICK id \in [1 .. n -> D] : \A k \in 1 .. n : id[k] = l[k].id
  <2>1. \A k \in 1 .. n : l[k].id \in D
    BY <1>1, <1>2 DEF Agrees
  <2>2. PICK id : id = [k \in 1 .. n |-> l[k].id]
    OBVIOUS
  <2>3. QED BY <2>1, <2>2
<1>4. \A j \in D : \E k \in 1 .. n : id[k] = j
  BY <1>1, <1>2, <1>3 DEF Agrees
<1>5. PICK there \in 1 .. n : id[there] = i
  BY <1>4
<1>6. PICK kept \in SUBSET (1 .. n) : /\ kept = places
                                      /\ kept = (1 .. n) \ {there}
  <2>1. \A k \in 1 .. n : l[k].id # i <=> k # there
    <3>1. TAKE k \in 1 .. n
    <3>2. ASSUME id[k] = id[there] PROVE k = there
      <4>1. OnePlaceEach(id, n, D)
        BY <1>1, <1>2, <1>4 DEF OnePlaceEach
      <4>2. QED BY <3>2, <4>1, NoneTwice
    <3>3. QED BY <1>3, <1>5, <3>2
  <2>2. QED BY <1>1, <2>1
<1>7. IsFiniteSet(kept) /\ Cardinality(kept) = n - 1 /\ kept \in SUBSET Nat
  <2>1. IsFiniteSet(1 .. n) /\ Cardinality(1 .. n) = n
    BY FS_Interval
  <2>2. PICK all : all = 1 .. n
    OBVIOUS
  <2>3. IsFiniteSet(all) /\ Cardinality(all) = n /\ there \in all
        /\ kept = all \ {there}
    BY <1>6, <2>1, <2>2
  <2>4. IsFiniteSet(kept) /\ Cardinality(kept) = n - 1
    BY <2>3, FS_RemoveElement
  <2>5. kept \subseteq Nat
    OBVIOUS
  <2>6. QED BY <2>4, <2>5
<1>8. Cardinality(E) = n - 1
  BY <1>1, <1>2, FS_RemoveElement
<1>9. PICK less \in Nat : less = n - 1
  BY <1>5
<1>10. PICK at \in [1 .. less -> kept] : /\ at = Ascending(kept)
                                         /\ \A k \in kept : \E p \in 1 .. less : at[p] = k
  BY <1>7, <1>9, InTheirOrder
<1>11. PICK m : m = [p \in 1 .. less |-> l[at[p]]]
  OBVIOUS
<1>12. KeptAt(l, places) = m
  BY <1>6, <1>10, <1>11 DEF KeptAt
<1>13. \A p \in 1 .. less : at[p] \in kept /\ m[p] = l[at[p]] /\ m[p] \in Item
  <2>1. \A k \in kept : l[k] \in Item
    BY <1>1, ElementOfSeq
  <2>2. QED BY <1>10, <1>11, <2>1
<1>14. m \in Seq(Item) /\ Len(m) = less
  <2>1. m \in [1 .. less -> Item]
    BY <1>11, <1>13
  <2>2. QED BY <2>1
<1>15. \A p \in 1 .. less : m[p].id \in E /\ (m[p].primary => g2[m[p].id].primary)
  <2>1. \A k \in kept : /\ l[k].id \in E
                        /\ l[k].primary => g[l[k].id].primary
    BY <1>1, <1>3, <1>6 DEF Agrees
  <2>2. QED BY <1>13, <2>1
<1>16. \A j \in E : \E p \in 1 .. less : m[p].id = j
  <2>1. TAKE j \in E
  <2>2. PICK k \in 1 .. n : id[k] = j
    BY <1>4
  <2>3. k \in kept /\ l[k].id = j
    BY <1>3, <1>5, <1>6, <2>2
  <2>4. PICK p \in 1 .. less : at[p] = k
    BY <1>10, <2>3
  <2>5. QED BY <1>13, <2>3, <2>4
<1>17. Agrees(m, g2, TRUE)
  BY <1>2, <1>8, <1>9, <1>14, <1>15, <1>16 DEF Agrees
<1>18. QED BY <1>12, <1>17

(* What the API lists.                                                     *)
LEMMA AgreesListing ==
  ASSUME NEW D \in SUBSET Images, NEW g \in [D -> GalleryRow], NEW lapsed,
         NEW l \in Listings(g)
  PROVE  l \in Seq(Item) /\ Agrees(l, g, lapsed)
<1>1. IsFiniteSet(D) /\ DOMAIN g = D
  BY ImagesAssumption, FS_Subset
<1>2. PICK n \in Nat : n = Cardinality(D)
  BY <1>1, FS_CardinalityType
<1>3. PICK s \in SetToSeqs(D) : /\ InOrder(s, g)
                                /\ l = [k \in DOMAIN s |-> [id |-> s[k], primary |-> g[s[k]].primary]]
  BY <1>1 DEF Listings
<1>4. /\ s \in [1 .. n -> D]
      /\ \A j, k \in 1 .. n : j # k => s[j] # s[k]
  BY <1>2, <1>3 DEF SetToSeqs
<1>5. s \in Seq(D) /\ Len(s) = n /\ DOMAIN s = 1 .. n
  BY <1>4
<1>6. \A k \in 1 .. n : /\ l[k] = [id |-> s[k], primary |-> g[s[k]].primary]
                        /\ l[k] \in Item /\ l[k].id = s[k] /\ l[k].primary = g[s[k]].primary
  <2>1. TAKE k \in 1 .. n
  <2>2. l[k] = [id |-> s[k], primary |-> g[s[k]].primary]
    BY <1>3, <1>5
  <2>3. s[k] \in Images /\ g[s[k]] \in GalleryRow
    BY <1>4
  <2>4. g[s[k]].primary \in BOOLEAN
    BY <2>3 DEF GalleryRow
  <2>5. QED BY <2>2, <2>3, <2>4 DEF Item
<1>7. l \in Seq(Item) /\ Len(l) = n
  <2>1. l \in [1 .. n -> Item]
    BY <1>3, <1>5, <1>6
  <2>2. QED BY <2>1
<1>8. \A i \in D : \E k \in 1 .. n : s[k] = i
  <2>1. IsFiniteSet(1 .. n) /\ Cardinality(1 .. n) = n
    BY FS_Interval
  <2>2. s \in Injection(1 .. n, D)
    BY <1>4 DEF Injection, IsInjective
  <2>3. s \in Surjection(1 .. n, D)
    BY <1>1, <1>2, <2>1, <2>2, FS_Injection
  <2>4. QED BY <2>3 DEF Surjection
<1>9. \A k \in 1 .. n - 1 : g[s[k]].order <= g[s[k + 1]].order
  BY <1>3, <1>5 DEF InOrder
<1>10. Len(l) = Cardinality(DOMAIN g)
  BY <1>1, <1>2, <1>7
<1>11. \A k \in 1 .. Len(l) : l[k].id \in DOMAIN g /\ (l[k].primary => g[l[k].id].primary)
  BY <1>1, <1>4, <1>6, <1>7
<1>12. \A i \in DOMAIN g : \E k \in 1 .. Len(l) : l[k].id = i
  BY <1>1, <1>6, <1>7, <1>8
<1>13. \A k \in 1 .. Len(l) - 1 : g[l[k].id].order <= g[l[k + 1].id].order
  <2>1. \A k \in 1 .. n - 1 : k \in 1 .. n /\ k + 1 \in 1 .. n
    OBVIOUS
  <2>2. QED BY <1>6, <1>7, <1>9, <2>1
<1>14. QED BY <1>7, <1>10, <1>11, <1>12, <1>13 DEF Agrees

LEMMA OutcomeType ==
  ASSUME NEW w \in Waits, w.at = "back"
  PROVE  Outcome(w) \in Seq(Item)
<1>1. /\ w.media \in Seq(Item) /\ w.items \in Seq(Item)
      /\ w.call \in OtherAnswers \cup AnswersWithRow
  BY WaitFacts
<1>2. /\ w.call[1] \in {"add", "profile", "then", "remove", "primary", "reorder"}
      /\ w.call[1] # "reorder" => w.call[2] \in Images
      /\ w.call[1] = "reorder" => w.call[2] \in Seq(Item)
      /\ w.call[1] = "add" => w.call[3] \in BOOLEAN
  BY <1>1, AnswerFacts
<1>3. CASE w.call[1] = "add"
  <2>1. [id |-> w.call[2], primary |-> w.call[3]] \in Item
    BY <1>2, <1>3 DEF Item
  <2>2. PICK l \in Seq(Item) : l = IF w.call[3] THEN Unbadged(w.items) ELSE w.items
    BY <1>1, Relabelled
  <2>3. Append(l, [id |-> w.call[2], primary |-> w.call[3]]) \in Seq(Item)
    BY <2>1, OneMoreItem
  <2>4. QED BY <1>3, <2>2, <2>3 DEF Outcome
<1>4. CASE w.call[1] \in {"profile", "then"}
  <2>1. [id |-> w.call[2], primary |-> TRUE] \in Item
    BY <1>2, <1>4 DEF Item
  <2>2. PICK l \in Seq(Item) : l = IF w.call[1] = "then" THEN Unbadged(w.media) ELSE w.media
    BY <1>1, Relabelled
  <2>3. Append(l, [id |-> w.call[2], primary |-> TRUE]) \in Seq(Item)
    BY <2>1, OneMoreItem
  <2>4. QED BY <1>4, <2>2, <2>3 DEF Outcome, WithProfile
<1>5. CASE w.call[1] = "remove"
  <2>1. KeptAt(w.items, {k \in DOMAIN w.items : w.items[k].id # w.call[2]}) \in Seq(Item)
    BY <1>1, KeptEntries
  <2>2. QED BY <1>5, <2>1 DEF Outcome
<1>6. CASE w.call[1] = "primary"
  BY <1>1, <1>6, Relabelled DEF Outcome
<1>7. CASE w.call[1] = "reorder"
  BY <1>2, <1>7 DEF Outcome
<1>8. QED BY <1>2, <1>3, <1>4, <1>5, <1>6, <1>7

LEMMA InStepAgain ==
  ASSUME NEW h \in Handlers, NEW w, waiting'[h] = w,
         \A o \in Handlers \ {h} : waiting'[o] = NotBusy,
         \/ w # NotBusy /\ Follows(w)'
         \/ w = NotBusy /\ items' = media' /\ Agrees(media', gallery', unordered')
  PROVE  InStep'
<1>1. \A a, o \in Handlers : Busy(a)' /\ Busy(o)' => a = o
  BY DEF Busy
<1>2. Quiet' => items' = media' /\ Agrees(media', gallery', unordered')
  BY DEF Quiet, Busy
<1>3. \A o \in Handlers : Busy(o)' => waiting'[o] = w /\ w # NotBusy
  BY DEF Busy
<1>4. \A o \in Handlers : Busy(o)' => Follows(waiting[o])'
  BY <1>3 DEF Follows
<1>5. Agrees(media', gallery', unordered') => Agrees(media, gallery, unordered)'
  BY DEF Agrees
<1>6. QED BY <1>1, <1>2, <1>4, <1>5 DEF InStep

LEMMA Alone ==
  ASSUME GalleryTypes, InStep, NEW h \in Handlers, waiting[h].at # "idle"
  PROVE  /\ Follows(waiting[h])
         /\ \A o \in Handlers \ {h} : waiting[o] = NotBusy
<1>1. waiting[h] # NotBusy
  BY DEF NotBusy
<1>2. QED BY <1>1 DEF InStep, Busy

LEMMA BeginStep ==
  ASSUME GalleryInv, NEW h \in Handlers, NEW c \in Asked, NEW seen \in Seq(Item),
         c[1] # "then", c[1] # "reorder" => seen = items,
         Begin(h, c, seen), items' = seen
  PROVE  GalleryInv'
<1>1. GalleryTypes /\ Numbered
  BY DEF GalleryInv
<1>2. PICK w \in Waits : w = AtApi(c, media, seen)
  BY <1>1, WaitMade DEF GalleryTypes
<1>3. /\ waiting' = [waiting EXCEPT ![h] = w] /\ ~ doubtful
      /\ doubtful' = (doubtful \/ ~ Quiet)
      /\ UNCHANGED <<gallery, media, unordered>>
  BY <1>2 DEF Begin, AtApi
<1>4. /\ waiting' \in [Handlers -> Waits] /\ waiting'[h] = w
      /\ \A o \in Handlers \ {h} : waiting'[o] = waiting[o]
  BY <1>1, <1>2, <1>3, TurnOf
<1>5. doubtful' \in BOOLEAN
  BY <1>3
<1>6. GalleryTypes'
  BY <1>1, <1>3, <1>4, <1>5 DEF GalleryTypes
<1>7. Numbered'
  BY <1>1, <1>3 DEF Numbered
<1>8. ASSUME ~ doubtful' PROVE InStep'
  <2>1. Quiet /\ InStep
    BY <1>3, <1>8 DEF GalleryInv
  <2>2. items = media /\ Agrees(media, gallery, unordered)
    BY <2>1 DEF InStep
  <2>3. \A o \in Handlers \ {h} : waiting'[o] = NotBusy
    BY <1>4, <2>1 DEF Quiet, Busy
  <2>4. w # NotBusy /\ w.at = "API" /\ w.call = c /\ w.media = media /\ w.items = seen
    BY <1>2 DEF AtApi, NotBusy
  <2>5. Agrees(media, gallery, unordered)'
    BY <1>3, <2>2 DEF Agrees
  <2>6. Follows(w)'
    BY <1>3, <2>2, <2>4, <2>5 DEF Follows
  <2>7. QED BY <1>4, <2>3, <2>4, <2>6, InStepAgain
<1>9. QED BY <1>6, <1>7, <1>8 DEF GalleryInv

LEMMA ShowsStep ==
  ASSUME GalleryInv, NEW h \in Handlers, Shows(h, Outcome(waiting[h]))
  PROVE  GalleryInv'
<1>1. GalleryTypes /\ Numbered
  BY DEF GalleryInv
<1>2. PICK w \in Waits : w = waiting[h]
  BY <1>1 DEF GalleryTypes
<1>3. PICK next \in Seq(Item) : next = Outcome(w)
  BY <1>2, OutcomeType DEF Shows
<1>4. /\ w.at = "back" /\ items' = next /\ media' = next
      /\ waiting' = [waiting EXCEPT ![h] = NotBusy]
      /\ UNCHANGED <<gallery, unordered, doubtful>>
  BY <1>2, <1>3 DEF Shows
<1>5. /\ waiting' \in [Handlers -> Waits] /\ waiting'[h] = NotBusy
      /\ \A o \in Handlers \ {h} : waiting'[o] = waiting[o]
  <2>1. NotBusy \in Waits
    BY DEF Waits
  <2>2. QED BY <1>1, <1>4, <2>1, TurnOf
<1>6. GalleryTypes'
  BY <1>1, <1>4, <1>5 DEF GalleryTypes
<1>7. Numbered'
  BY <1>1, <1>4 DEF Numbered
<1>8. ASSUME ~ doubtful' PROVE InStep'
  <2>1. InStep
    BY <1>4, <1>8 DEF GalleryInv
  <2>2. Follows(w) /\ \A o \in Handlers \ {h} : waiting'[o] = NotBusy
    BY <1>1, <1>2, <1>4, <1>5, <2>1, Alone
  <2>3. Agrees(next, gallery, unordered)
    BY <1>3, <1>4, <2>2 DEF Follows
  <2>4. Agrees(media', gallery', unordered')
    BY <1>4, <2>3
  <2>5. QED BY <1>4, <1>5, <2>2, <2>4, InStepAgain
<1>9. QED BY <1>6, <1>7, <1>8 DEF GalleryInv

LEMMA HandlerFailsStep ==
  ASSUME GalleryInv, NEW h \in Handlers, HandlerFails(h)
  PROVE  GalleryInv'
<1>1. GalleryTypes /\ Numbered
  BY DEF GalleryInv
<1>2. PICK w \in Waits : w = waiting[h]
  BY <1>1 DEF GalleryTypes
<1>3. /\ w # NotBusy
      /\ items' = IF w.call[1] = "reorder" THEN w.media ELSE items
      /\ doubtful' = (doubtful \/ w.at = "back" \/ w.call[1] = "then")
      /\ waiting' = [waiting EXCEPT ![h] = NotBusy]
      /\ UNCHANGED <<gallery, media, unordered>>
  BY <1>2 DEF HandlerFails, Busy
<1>4. w.at \in {"API", "back"} /\ w.media \in Seq(Item)
  BY <1>3, WaitFacts
<1>5. /\ waiting' \in [Handlers -> Waits] /\ waiting'[h] = NotBusy
      /\ \A o \in Handlers \ {h} : waiting'[o] = waiting[o]
  <2>1. NotBusy \in Waits
    BY DEF Waits
  <2>2. QED BY <1>1, <1>3, <2>1, TurnOf
<1>6. doubtful' \in BOOLEAN
  BY <1>3
<1>7. GalleryTypes'
  BY <1>1, <1>3, <1>4, <1>5, <1>6 DEF GalleryTypes
<1>8. Numbered'
  BY <1>1, <1>3 DEF Numbered
<1>9. ASSUME ~ doubtful' PROVE InStep'
  <2>1. ~ doubtful /\ w.at = "API" /\ w.call[1] # "then"
    BY <1>3, <1>4, <1>9
  <2>2. InStep
    BY <2>1 DEF GalleryInv
  <2>3. Follows(w) /\ \A o \in Handlers \ {h} : waiting'[o] = NotBusy
    BY <1>1, <1>2, <1>4, <1>5, <2>2, Alone
  <2>4. Agrees(media', gallery', unordered')
    BY <1>3, <2>1, <2>3 DEF Follows
  <2>5. items' = media'
    BY <1>3, <2>3 DEF Follows
  <2>6. QED BY <1>5, <2>3, <2>4, <2>5, InStepAgain
<1>10. QED BY <1>7, <1>8, <1>9 DEF GalleryInv

LEMMA TalentArrivesStep ==
  ASSUME GalleryInv, TalentArrives
  PROVE  GalleryInv'
<1>1. GalleryTypes /\ Numbered
  BY DEF GalleryInv
<1>2. PICK l \in Listings(gallery) : media' = l /\ items' = l
  BY DEF TalentArrives
<1>3. l \in Seq(Item) /\ Agrees(l, gallery, unordered)
  BY <1>1, AgreesListing DEF GalleryTypes
<1>4. /\ Quiet /\ doubtful' = FALSE
      /\ UNCHANGED <<gallery, waiting, unordered>>
  BY DEF TalentArrives
<1>5. GalleryTypes'
  <2>1. doubtful' \in BOOLEAN
    BY <1>4
  <2>2. QED BY <1>1, <1>2, <1>3, <1>4, <2>1 DEF GalleryTypes
<1>6. Numbered'
  BY <1>1, <1>4 DEF Numbered
<1>7. InStep'
  <2>1. \A h \in Handlers : ~ Busy(h)'
    BY <1>4 DEF Quiet, Busy
  <2>2. items' = media' /\ Agrees(media, gallery, unordered)'
    BY <1>2, <1>3, <1>4 DEF Agrees
  <2>3. QED BY <2>1, <2>2 DEF InStep
<1>8. QED BY <1>5, <1>6, <1>7 DEF GalleryInv

LEMMA RowsEmpty ==
  ASSUME GalleryTypes
  PROVE  gallery = <<>> <=> DOMAIN gallery = {}
<1>1. ASSUME gallery = <<>> PROVE DOMAIN gallery = {}
  BY <1>1
<1>2. ASSUME DOMAIN gallery = {} PROVE gallery = <<>>
  <2>1. gallery \in [1 .. 0 -> GalleryRow]
    BY <1>2 DEF GalleryTypes
  <2>2. gallery \in Seq(GalleryRow) /\ Len(gallery) = 0
    BY <2>1
  <2>3. QED BY <2>2, EmptySeq
<1>3. QED BY <1>1, <1>2

LEMMA CallSet ==
  ASSUME NEW c, NEW m, NEW s, NEW c2
  PROVE  [AtApi(c, m, s) EXCEPT !.call = c2] = AtApi(c2, m, s)
  BY DEF AtApi

LEMMA ThreeOf ==
  ASSUME NEW a, NEW b, NEW c
  PROVE  Append(<<a, b>>, c) = <<a, b, c>>
<1>1. PICK T : T = {a, b, c}
  OBVIOUS
<1>2. /\ <<a, b>> \in Seq(T) /\ c \in T /\ Len(<<a, b>>) = 2
      /\ <<a, b>>[1] = a /\ <<a, b>>[2] = b
  BY <1>1
<1>3. /\ <<a, b, c>> \in Seq(T) /\ Len(<<a, b, c>>) = 3
      /\ <<a, b, c>>[1] = a /\ <<a, b, c>>[2] = b /\ <<a, b, c>>[3] = c
  BY <1>1
<1>4. PICK s \in Seq(T) : s = <<a, b>> /\ Len(s) = 2 /\ s[1] = a /\ s[2] = b
  BY <1>2
<1>5. PICK t \in Seq(T) : t = <<a, b, c>> /\ Len(t) = 3 /\ t[1] = a /\ t[2] = b /\ t[3] = c
  BY <1>3
<1>6. PICK r \in Seq(T) : r = Append(s, c) /\ Len(r) = 3 /\ r[1] = a /\ r[2] = b /\ r[3] = c
  <2>1. /\ Append(s, c) \in Seq(T) /\ Len(Append(s, c)) = 3
        /\ Append(s, c)[1] = a /\ Append(s, c)[2] = b /\ Append(s, c)[3] = c
    BY <1>2, <1>4
  <2>2. QED BY <2>1
<1>7. \A k \in 1 .. Len(r) : r[k] = t[k]
  <2>1. \A k \in 1 .. 3 : k = 1 \/ k = 2 \/ k = 3
    OBVIOUS
  <2>2. QED BY <1>5, <1>6, <2>1
<1>8. r = t
  BY <1>5, <1>6, <1>7, SeqEqual
<1>9. QED BY <1>4, <1>5, <1>6, <1>8

LEMMA RowAdded ==
  ASSUME NEW D \in SUBSET Images, gallery \in [D -> GalleryRow], NEW i \in Images \ D,
         media \in Seq(Item), Agrees(media, gallery, unordered),
         unordered \/ \A j \in D : gallery[j].order < Cardinality(D),
         NEW m \in Seq(Item), SameIds(m, media),
         NEW badge \in BOOLEAN, NEW first \in BOOLEAN, badge => first,
         \A k \in 1 .. Len(media) : m[k].primary => media[k].primary
  PROVE  Agrees(Append(m, [id |-> i, primary |-> badge]),
                [j \in D \cup {i} |->
                   IF j = i THEN [order |-> Cardinality(D), primary |-> first]
                            ELSE gallery[j]],
                unordered)
<1>1. PICK h :
        h = [j \in D \cup {i} |->
               IF j = i THEN [order |-> Cardinality(D), primary |-> first] ELSE gallery[j]]
  OBVIOUS
<1>2. PICK added \in Item : added = [id |-> i, primary |-> badge]
  BY DEF Item
<1>3. h[i] = [order |-> Cardinality(D), primary |-> first] /\ \A j \in D : h[j] = gallery[j]
  BY <1>1
<1>4. Grown(h, gallery, i)
  BY <1>1, <1>3 DEF Grown
<1>5. NewEntry(added, h, i)
  BY <1>2, <1>3 DEF NewEntry
<1>6. FewerBadges(m, media) /\ NumbersLeft(gallery, unordered)
  BY DEF FewerBadges, NumbersLeft
<1>7. Agrees(Append(m, added), h, unordered)
  BY <1>4, <1>5, <1>6, AgreesAdded
<1>8. QED BY <1>1, <1>2, <1>7

LEMMA AddServedStep ==
  ASSUME GalleryInv, NEW h \in Handlers, AddServed(h)
  PROVE  GalleryInv'
<1>1. GalleryTypes /\ Numbered
  BY DEF GalleryInv
<1>2. PICK w \in Waits : w = waiting[h]
  BY <1>1 DEF GalleryTypes
<1>3. /\ w.at = "API" /\ w.call[1] \in {"add", "profile"} /\ w.call \in Asked
      /\ w = AtApi(w.call, w.media, w.items)
      /\ w.media \in Seq(Item) /\ w.items \in Seq(Item)
  BY <1>2, WaitFacts DEF AddServed
<1>4. PICK kind \in {"add", "profile"}, i \in Images : w.call = <<kind, i>>
  <2>1. w.call = <<w.call[1], w.call[2]>> /\ w.call[2] \in Images
    BY <1>3, AskedFacts
  <2>2. QED BY <1>3, <2>1
<1>5. PICK D \in SUBSET Images : D = DOMAIN gallery
  BY <1>1 DEF GalleryTypes
<1>6. gallery \in [D -> GalleryRow] /\ i \notin D
  BY <1>1, <1>2, <1>4, <1>5 DEF AddServed, GalleryTypes
<1>7. PICK first \in BOOLEAN : first = (gallery = <<>>) /\ (first <=> gallery = <<>>)
  OBVIOUS
<1>8. PICK g : g = [j \in D \cup {i} |->
                 IF j = i THEN [order |-> Cardinality(D), primary |-> first] ELSE gallery[j]]
  OBVIOUS
<1>9. gallery' = g /\ UNCHANGED <<media, items, unordered, doubtful>>
  BY <1>2, <1>4, <1>5, <1>7, <1>8 DEF AddServed, Added
<1>10. IsFiniteSet(D) /\ Cardinality(D) \in 0 .. Cardinality(Images)
       /\ Cardinality(D \cup {i}) = Cardinality(D) + 1
  <2>1. /\ IsFiniteSet(D) /\ Cardinality(D) \in Nat /\ Cardinality(Images) \in Nat
        /\ Cardinality(D) <= Cardinality(Images)
    BY <1>1, <1>5, GalleryFacts
  <2>2. Cardinality(D \cup {i}) = Cardinality(D) + 1
    BY <1>6, <2>1, FS_AddElement
  <2>3. Cardinality(D) \in 0 .. Cardinality(Images)
    BY <2>1
  <2>4. QED BY <2>1, <2>2, <2>3
<1>11. g \in [D \cup {i} -> GalleryRow] /\ D \cup {i} \subseteq Images
  <2>1. [order |-> Cardinality(D), primary |-> first] \in GalleryRow
    BY <1>10 DEF GalleryRow
  <2>2. QED BY <1>6, <1>8, <2>1
<1>12. \/ /\ kind = "profile" /\ ~ first
          /\ waiting' = [waiting EXCEPT ![h] = AtApi(<<"then", i>>, w.media, w.items)]
       \/ /\ kind = "add" \/ first
          /\ waiting' = [waiting EXCEPT ![h] = AtBack(<<kind, i, first>>, w.media, w.items)]
  <2>1. CASE kind = "profile" /\ ~ first
    <3>1. waiting[h].call[1] = "profile" /\ gallery # <<>> /\ waiting[h].call[2] = i
      BY <1>2, <1>4, <1>7, <2>1
    <3>2. waiting' = [waiting EXCEPT ![h].call = <<"then", i>>]
      BY <3>1 DEF AddServed
    <3>3. waiting' = [waiting EXCEPT ![h] = [w EXCEPT !.call = <<"then", i>>]]
      BY <1>2, <3>2
    <3>4. [w EXCEPT !.call = <<"then", i>>] = AtApi(<<"then", i>>, w.media, w.items)
      BY <1>3, CallSet
    <3>5. QED BY <2>1, <3>3, <3>4
  <2>2. CASE kind = "add" \/ first
    <3>1. ~ (waiting[h].call[1] = "profile" /\ gallery # <<>>)
      BY <1>2, <1>4, <1>7, <2>2
    <3>2. AnswerIs(h, Append(waiting[h].call, gallery = <<>>))
      BY <3>1 DEF AddServed
    <3>3. Append(waiting[h].call, gallery = <<>>) = <<kind, i, first>>
      BY <1>2, <1>4, <1>7, ThreeOf
    <3>4. AnswerIs(h, <<kind, i, first>>)
      BY <3>2, <3>3 DEF AnswerIs
    <3>5. <<kind, i, first>> \in OtherAnswers \cup AnswersWithRow
      BY DEF AnswersWithRow
    <3>6. waiting[h].at = "API"
      BY <1>2, <1>3
    <3>7. waiting' = [waiting EXCEPT
                        ![h] = AtBack(<<kind, i, first>>, waiting[h].media, waiting[h].items)]
      BY <1>1, <3>4, <3>5, <3>6, AnswerIsThere
    <3>8. QED BY <1>2, <2>2, <3>7
  <2>3. QED BY <2>1, <2>2
<1>13. PICK v \in Waits : /\ waiting' = [waiting EXCEPT ![h] = v]
                          /\ \/ /\ kind = "profile" /\ ~ first
                                /\ v = AtApi(<<"then", i>>, w.media, w.items)
                             \/ /\ kind = "add" \/ first
                                /\ v = AtBack(<<kind, i, first>>, w.media, w.items)
  <2>1. AtApi(<<"then", i>>, w.media, w.items) \in Waits
    <3>1. <<"then", i>> \in Asked
      BY DEF Asked
    <3>2. QED BY <1>3, <3>1, WaitMade
  <2>2. AtBack(<<kind, i, first>>, w.media, w.items) \in Waits
    <3>1. <<kind, i, first>> \in OtherAnswers \cup AnswersWithRow
      BY DEF AnswersWithRow
    <3>2. QED BY <1>3, <3>1, WaitMade
  <2>3. QED BY <1>12, <2>1, <2>2
<1>14. /\ waiting' \in [Handlers -> Waits] /\ waiting'[h] = v
       /\ \A o \in Handlers \ {h} : waiting'[o] = waiting[o]
  BY <1>1, <1>13, TurnOf
<1>15. GalleryTypes'
  BY <1>1, <1>9, <1>11, <1>14 DEF GalleryTypes
<1>16. DOMAIN g = D \cup {i} /\ (\A j \in D : g[j] = gallery[j])
       /\ g[i].order = Cardinality(D)
  BY <1>6, <1>8
<1>17. Numbered'
  <2>1. SUFFICES ASSUME ~ unordered, NEW j \in D \cup {i}
                 PROVE  g[j].order < Cardinality(D \cup {i})
    BY <1>9, <1>16 DEF Numbered
  <2>2. PICK n \in Nat : n = Cardinality(D) /\ Cardinality(D \cup {i}) = n + 1
    BY <1>10
  <2>3. CASE j = i
    BY <1>16, <2>2, <2>3
  <2>4. CASE j # i
    <3>1. j \in D /\ g[j] = gallery[j] /\ gallery[j].order < n
      BY <1>1, <1>5, <1>16, <2>1, <2>2, <2>4 DEF Numbered
    <3>2. gallery[j].order \in Nat
      BY <1>1, <1>5, <3>1, GalleryFacts
    <3>3. QED BY <2>2, <3>1, <3>2
  <2>5. QED BY <2>3, <2>4
<1>18. ASSUME ~ doubtful' PROVE InStep'
  <2>1. InStep
    BY <1>9, <1>18 DEF GalleryInv
  <2>2. Follows(w) /\ \A o \in Handlers \ {h} : waiting'[o] = NotBusy
    BY <1>1, <1>2, <1>3, <1>14, <2>1, Alone
  <2>3. /\ w.media = media /\ w.items = media /\ items = media /\ media \in Seq(Item)
        /\ Agrees(media, gallery, unordered)
    BY <1>1, <1>3, <1>4, <2>2 DEF Follows, GalleryTypes
  <2>4. unordered \/ \A j \in D : gallery[j].order < Cardinality(D)
    BY <1>1, <1>5 DEF Numbered
  <2>5. ASSUME NEW m \in Seq(Item), SameIds(m, media), NEW badge \in BOOLEAN, badge => first,
               \A k \in 1 .. Len(media) : m[k].primary => media[k].primary
        PROVE  Agrees(Append(m, [id |-> i, primary |-> badge]), g, unordered)
    <3>1. i \in Images \ D
      BY <1>6
    <3>2. Agrees(Append(m, [id |-> i, primary |-> badge]),
                 [j \in D \cup {i} |->
                    IF j = i THEN [order |-> Cardinality(D), primary |-> first]
                             ELSE gallery[j]],
                 unordered)
      <4>1. gallery \in [D -> GalleryRow]
        BY <1>6
      <4>2. media \in Seq(Item)
        BY <2>3
      <4>3. Agrees(media, gallery, unordered)
        BY <2>3
      <4>4. QED BY <2>4, <2>5, <3>1, <4>1, <4>2, <4>3, RowAdded
    <3>3. QED BY <1>8, <3>2
  <2>6. ASSUME NEW badge \in BOOLEAN, badge => first
        PROVE  /\ Agrees(Append(Unbadged(media), [id |-> i, primary |-> badge]), g, unordered)
               /\ Agrees(Append(media, [id |-> i, primary |-> badge]), g, unordered)
    BY <2>3, <2>5, <2>6, Relabelled
  <2>7. CASE /\ kind = "profile" /\ ~ first
             /\ v = AtApi(<<"then", i>>, w.media, w.items)
    <3>1. v # NotBusy /\ v.at = "API" /\ v.call[1] = "then" /\ v.call[2] = i
          /\ v.media = media /\ v.items = media
      BY <2>3, <2>7 DEF AtApi, NotBusy
    <3>2. Agrees(Append(Unbadged(media), [id |-> v.call[2], primary |-> FALSE]), g, unordered)
      BY <2>6, <3>1
    <3>3. Follows(v)'
      BY <1>9, <2>3, <3>1, <3>2 DEF Follows, Unbadged
    <3>4. QED BY <1>14, <2>2, <3>1, <3>3, InStepAgain
  <2>8. CASE /\ kind = "add" \/ first
             /\ v = AtBack(<<kind, i, first>>, w.media, w.items)
    <3>1. v # NotBusy /\ v.at = "back" /\ v.call[1] = kind /\ v.call[2] = i /\ v.call[3] = first
          /\ v.media = media /\ v.items = media
      BY <2>3, <2>8 DEF AtBack, NotBusy
    <3>2. Agrees(Outcome(v), g, unordered)
      <4>1. CASE kind = "add"
        <5>1. Outcome(v) = Append(IF first THEN Unbadged(media) ELSE media,
                                  [id |-> i, primary |-> first])
          BY <3>1, <4>1 DEF Outcome
        <5>2. QED BY <2>6, <5>1
      <4>2. CASE kind = "profile"
        <5>1. first
          BY <2>8, <4>2
        <5>2. Outcome(v) = Append(media, [id |-> i, primary |-> TRUE])
          BY <3>1, <4>2 DEF Outcome, WithProfile
        <5>3. QED BY <2>6, <5>1, <5>2
      <4>3. QED BY <4>1, <4>2
    <3>3. Follows(v)'
      BY <1>9, <2>3, <3>1, <3>2 DEF Follows
    <3>4. QED BY <1>14, <2>2, <3>1, <3>3, InStepAgain
  <2>9. QED BY <1>13, <2>7, <2>8
<1>19. QED BY <1>15, <1>17, <1>18 DEF GalleryInv

LEMMA BackSet ==
  ASSUME NEW c, NEW m, NEW s
  PROVE  [AtApi(c, m, s) EXCEPT !.at = "back"] = AtBack(c, m, s)
  BY DEF AtApi, AtBack

(* The answer to a call that is answered by the call itself.               *)
LEMMA CallAnswered ==
  ASSUME GalleryTypes, NEW h \in Handlers, NEW kind \in {"then", "remove", "primary"},
         NEW i \in Images, waiting[h].at = "API", waiting[h].call = <<kind, i>>,
         waiting' = [waiting EXCEPT ![h].at = "back"]
  PROVE  LET v == AtBack(<<kind, i>>, waiting[h].media, waiting[h].items) IN
         /\ v \in Waits /\ v # NotBusy
         /\ waiting' \in [Handlers -> Waits] /\ waiting'[h] = v
         /\ \A o \in Handlers \ {h} : waiting'[o] = waiting[o]
<1>1. PICK w \in Waits : w = waiting[h]
  BY DEF GalleryTypes
<1>2. w = AtApi(<<kind, i>>, w.media, w.items) /\ w.media \in Seq(Item) /\ w.items \in Seq(Item)
  BY <1>1, WaitFacts
<1>3. waiting' = [waiting EXCEPT ![h] = [w EXCEPT !.at = "back"]]
  BY <1>1
<1>4. PICK v : v = AtBack(<<kind, i>>, w.media, w.items)
  OBVIOUS
<1>5. [w EXCEPT !.at = "back"] = v
  BY <1>2, <1>4, BackSet
<1>6. v \in Waits
  <2>1. <<kind, i>> \in OtherAnswers \cup AnswersWithRow
    BY DEF OtherAnswers
  <2>2. QED BY <1>2, <1>4, <2>1, WaitMade
<1>7. waiting' = [waiting EXCEPT ![h] = v]
  BY <1>3, <1>5
<1>8. /\ waiting' \in [Handlers -> Waits] /\ waiting'[h] = v
      /\ \A o \in Handlers \ {h} : waiting'[o] = waiting[o]
  BY <1>6, <1>7, TurnOf
<1>9. v # NotBusy
  BY <1>4 DEF AtBack, NotBusy
<1>10. QED BY <1>1, <1>4, <1>6, <1>8, <1>9

LEMMA PrimaryMade ==
  ASSUME NEW D \in SUBSET Images, gallery \in [D -> GalleryRow], NEW i \in D,
         NEW l \in Seq(Item), NEW m \in Seq(Item), SameIds(m, l),
         Agrees(l, gallery, unordered), \A k \in 1 .. Len(l) : m[k].primary => m[k].id = i
  PROVE  Agrees(m, [j \in D |-> [gallery[j] EXCEPT !.primary = (j = i)]], unordered)
  BY AgreesPrimary, ZenonT(40)

LEMMA PrimaryServedStep ==
  ASSUME GalleryInv, NEW h \in Handlers, PrimaryServed(h)
  PROVE  GalleryInv'
<1>1. GalleryTypes /\ Numbered
  BY DEF GalleryInv
<1>2. PICK w \in Waits : w = waiting[h]
  BY <1>1 DEF GalleryTypes
<1>3. /\ w.at = "API" /\ w.call[1] \in {"primary", "then"} /\ w.call \in Asked
      /\ w.media \in Seq(Item) /\ w.items \in Seq(Item)
  BY <1>2, WaitFacts DEF PrimaryServed
<1>4. PICK kind \in {"primary", "then"}, i \in Images : w.call = <<kind, i>>
  <2>1. w.call = <<w.call[1], w.call[2]>> /\ w.call[2] \in Images
    BY <1>3, AskedFacts
  <2>2. QED BY <1>3, <2>1
<1>5. PICK D \in SUBSET Images : D = DOMAIN gallery
  BY <1>1 DEF GalleryTypes
<1>6. gallery \in [D -> GalleryRow] /\ i \in D
  BY <1>1, <1>2, <1>4, <1>5 DEF PrimaryServed, GalleryTypes
<1>7. PICK g : g = [j \in D |-> [gallery[j] EXCEPT !.primary = (j = i)]]
  OBVIOUS
<1>8. /\ gallery' = g /\ UNCHANGED <<media, items, unordered, doubtful>>
      /\ waiting' = [waiting EXCEPT ![h].at = "back"]
  BY <1>2, <1>4, <1>5, <1>7 DEF PrimaryServed, Primary
<1>9. g \in [D -> GalleryRow] /\ \A j \in D : g[j].order = gallery[j].order
  <2>1. ASSUME NEW j \in D PROVE g[j] \in GalleryRow /\ g[j].order = gallery[j].order
    <3>1. gallery[j] \in GalleryRow /\ g[j] = [gallery[j] EXCEPT !.primary = (j = i)]
      BY <1>6, <1>7
    <3>2. (j = i) \in BOOLEAN
      OBVIOUS
    <3>3. QED BY <3>1, <3>2 DEF GalleryRow
  <2>2. QED BY <1>7, <2>1
<1>10. PICK v \in Waits :
         /\ v = AtBack(<<kind, i>>, w.media, w.items) /\ v # NotBusy
         /\ waiting' \in [Handlers -> Waits] /\ waiting'[h] = v
         /\ \A o \in Handlers \ {h} : waiting'[o] = waiting[o]
  <2>1. waiting[h].at = "API" /\ waiting[h].call = <<kind, i>>
    BY <1>2, <1>3, <1>4
  <2>2. kind \in {"then", "remove", "primary"}
    OBVIOUS
  <2>3. QED BY <1>1, <1>2, <1>8, <2>1, <2>2, CallAnswered
<1>11. GalleryTypes'
  BY <1>1, <1>8, <1>9, <1>10 DEF GalleryTypes
<1>12. Numbered'
  BY <1>1, <1>5, <1>8, <1>9 DEF Numbered
<1>13. ASSUME ~ doubtful' PROVE InStep'
  <2>1. InStep
    BY <1>8, <1>13 DEF GalleryInv
  <2>2. Follows(w) /\ \A o \in Handlers \ {h} : waiting'[o] = NotBusy
    BY <1>1, <1>2, <1>3, <1>10, <2>1, Alone
  <2>3. /\ w.media = media /\ w.items = media /\ items = media /\ media \in Seq(Item)
    BY <1>1, <1>3, <1>4, <2>2 DEF Follows, GalleryTypes
  <2>4. /\ v.at = "back" /\ v.call[1] = kind /\ v.call[2] = i
        /\ v.media = media /\ v.items = media
    BY <1>10, <2>3 DEF AtBack
  <2>5. Agrees(Outcome(v), g, unordered)
    <3>1. CASE kind = "primary"
      <4>1. Agrees(media, gallery, unordered)
        BY <1>3, <1>4, <2>2, <3>1 DEF Follows
      <4>2. PICK m \in Seq(Item) : m = Badged(media, i) /\ SameIds(m, media)
              /\ \A k \in 1 .. Len(media) : m[k].primary => media[k].id = i
        <5>1. /\ Badged(media, i) \in Seq(Item) /\ SameIds(Badged(media, i), media)
              /\ \A k \in 1 .. Len(media) : Badged(media, i)[k].primary => media[k].id = i
          BY <2>3, Relabelled
        <5>2. QED BY <5>1
      <4>3. \A k \in 1 .. Len(media) : m[k].primary => m[k].id = i
        BY <4>2 DEF SameIds
      <4>4. media \in Seq(Item)
        BY <2>3
      <4>5. gallery \in [D -> GalleryRow]
        BY <1>6
      <4>6. Agrees(m, g, unordered)
        BY <1>6, <1>7, <4>1, <4>2, <4>3, <4>4, <4>5, PrimaryMade
      <4>7. Outcome(v) = m
        BY <2>4, <3>1, <4>2 DEF Outcome
      <4>8. QED BY <4>6, <4>7
    <3>2. CASE kind = "then"
      <4>1. Agrees(Append(Unbadged(media), [id |-> i, primary |-> FALSE]), gallery, unordered)
        BY <1>3, <1>4, <2>2, <3>2 DEF Follows
      <4>2. PICK u \in Seq(Item), n \in Nat :
              /\ u = Unbadged(media) /\ n = Len(u)
              /\ \A k \in 1 .. n : ~ u[k].primary
        <5>1. /\ Unbadged(media) \in Seq(Item) /\ Len(Unbadged(media)) = Len(media)
              /\ Len(media) \in Nat /\ \A k \in 1 .. Len(media) : ~ Unbadged(media)[k].primary
          BY <2>3, Relabelled, LenProperties DEF SameIds
        <5>2. QED BY <5>1
      <4>3. PICK x \in Item, y \in Item :
              /\ x = [id |-> i, primary |-> FALSE] /\ y = [id |-> i, primary |-> TRUE]
              /\ x.id = i /\ y.id = i
        <5>1. [id |-> i, primary |-> FALSE] \in Item /\ [id |-> i, primary |-> TRUE] \in Item
          BY DEF Item
        <5>2. QED BY <5>1
      <4>4. PICK l \in Seq(Item) : /\ l = Append(u, x) /\ Len(l) = n + 1 /\ l[n + 1] = x
                                   /\ \A k \in 1 .. n : l[k] = u[k]
        <5>1. /\ Append(u, x) \in Seq(Item) /\ Len(Append(u, x)) = n + 1
              /\ Append(u, x)[n + 1] = x /\ \A k \in 1 .. n : Append(u, x)[k] = u[k]
          BY <4>2, OneMoreItem
        <5>2. QED BY <5>1
      <4>5. PICK m \in Seq(Item) : /\ m = Append(u, y) /\ Len(m) = n + 1 /\ m[n + 1] = y
                                   /\ \A k \in 1 .. n : m[k] = u[k]
        <5>1. /\ Append(u, y) \in Seq(Item) /\ Len(Append(u, y)) = n + 1
              /\ Append(u, y)[n + 1] = y /\ \A k \in 1 .. n : Append(u, y)[k] = u[k]
          BY <4>2, OneMoreItem
        <5>2. QED BY <5>1
      <4>6. \A k \in 1 .. n + 1 : k \in 1 .. n \/ k = n + 1
        OBVIOUS
      <4>7. SameIds(m, l)
        BY <4>3, <4>4, <4>5, <4>6 DEF SameIds
      <4>8. \A k \in 1 .. Len(l) : m[k].primary => m[k].id = i
        BY <4>2, <4>3, <4>4, <4>5, <4>6
      <4>9. Agrees(l, gallery, unordered)
        BY <4>1, <4>2, <4>3, <4>4
      <4>10. gallery \in [D -> GalleryRow]
        BY <1>6
      <4>11. Agrees(m, g, unordered)
        BY <1>6, <1>7, <4>7, <4>8, <4>9, <4>10, PrimaryMade
      <4>12. Outcome(v) = m
        BY <2>4, <3>2, <4>2, <4>3, <4>5 DEF Outcome, WithProfile
      <4>13. QED BY <4>11, <4>12
    <3>3. QED BY <3>1, <3>2
  <2>6. Follows(v)'
    BY <1>8, <2>3, <2>4, <2>5 DEF Follows
  <2>7. QED BY <1>10, <2>2, <2>6, InStepAgain
<1>14. QED BY <1>11, <1>12, <1>13 DEF GalleryInv

LEMMA RemovedRows ==
  ASSUME GalleryTypes, NEW i \in DOMAIN gallery, NEW g \in Removed(i)
  PROVE  /\ g \in [DOMAIN gallery \ {i} -> GalleryRow]
         /\ \A j \in DOMAIN gallery \ {i} : gallery[j].primary => g[j].primary
<1>1. PICK D \in SUBSET Images : D = DOMAIN gallery /\ gallery \in [D -> GalleryRow]
  BY DEF GalleryTypes
<1>2. PICK left : left = [j \in D \ {i} |-> gallery[j]]
  OBVIOUS
<1>3. left \in [D \ {i} -> GalleryRow] /\ DOMAIN left = D \ {i}
      /\ \A j \in D \ {i} : left[j] = gallery[j]
  BY <1>1, <1>2
<1>4. g = left \/ \E first \in DOMAIN left : g = [left EXCEPT ![first].primary = TRUE]
  BY <1>1, <1>2 DEF Removed
<1>5. CASE g = left
  BY <1>1, <1>3, <1>5
<1>6. CASE \E first \in DOMAIN left : g = [left EXCEPT ![first].primary = TRUE]
  <2>1. PICK first \in D \ {i} : g = [left EXCEPT ![first].primary = TRUE]
    BY <1>3, <1>6
  <2>2. PICK row \in GalleryRow : row = [left[first] EXCEPT !.primary = TRUE] /\ row.primary
    <3>1. \A r \in GalleryRow : /\ [r EXCEPT !.primary = TRUE] \in GalleryRow
                                /\ [r EXCEPT !.primary = TRUE].primary
      BY DEF GalleryRow
    <3>2. QED BY <1>3, <3>1
  <2>3. g = [left EXCEPT ![first] = row]
    BY <2>1, <2>2
  <2>4. /\ g \in [D \ {i} -> GalleryRow] /\ g[first] = row
        /\ \A j \in D \ {i} : j # first => g[j] = left[j]
    BY <1>3, <2>3
  <2>5. QED BY <1>1, <1>3, <2>2, <2>4
<1>7. QED BY <1>4, <1>5, <1>6

LEMMA RowRemoved ==
  ASSUME NEW D \in SUBSET Images, gallery \in [D -> GalleryRow], NEW i \in D,
         media \in Seq(Item), Agrees(media, gallery, unordered),
         NEW g \in [D \ {i} -> GalleryRow],
         \A j \in D \ {i} : gallery[j].primary => g[j].primary
  PROVE  Agrees(KeptAt(media, {k \in DOMAIN media : media[k].id # i}), g, TRUE)
<1>1. PICK f \in [D -> GalleryRow], l \in Seq(Item), x \in {unordered} : f = gallery /\ l = media /\ x = unordered
  OBVIOUS
<1>2. Agrees(l, f, x) /\ \A j \in D \ {i} : f[j].primary => g[j].primary
  BY <1>1
<1>3. PICK E, places : E = D \ {i} /\ places = {k \in DOMAIN l : l[k].id # i}
  OBVIOUS
<1>4. g \in [E -> GalleryRow] /\ \A j \in E : f[j].primary => g[j].primary
  BY <1>2, <1>3
<1>5. Agrees(KeptAt(l, places), g, TRUE)
  BY <1>2, <1>3, <1>4, AgreesRemoved
<1>6. QED BY <1>1, <1>3, <1>5

LEMMA RemoveServedStep ==
  ASSUME GalleryInv, NEW h \in Handlers, RemoveServed(h)
  PROVE  GalleryInv'
<1>1. GalleryTypes
  BY DEF GalleryInv
<1>2. PICK w \in Waits : w = waiting[h]
  BY <1>1 DEF GalleryTypes
<1>3. /\ w.at = "API" /\ w.call[1] = "remove" /\ w.call \in Asked
      /\ w.media \in Seq(Item) /\ w.items \in Seq(Item)
  BY <1>2, WaitFacts DEF RemoveServed
<1>4. PICK i \in Images : w.call = <<"remove", i>>
  <2>1. w.call = <<w.call[1], w.call[2]>> /\ w.call[2] \in Images
    BY <1>3, AskedFacts
  <2>2. QED BY <1>3, <2>1
<1>5. PICK D \in SUBSET Images : D = DOMAIN gallery /\ gallery \in [D -> GalleryRow]
  BY <1>1 DEF GalleryTypes
<1>6. i \in D
  BY <1>2, <1>4, <1>5 DEF RemoveServed
<1>7. /\ gallery' \in Removed(i)
      /\ waiting' = [waiting EXCEPT ![h].at = "back"]
      /\ unordered' = TRUE
      /\ UNCHANGED <<media, items, doubtful>>
  BY <1>2, <1>4 DEF RemoveServed
<1>8. PICK g \in [D \ {i} -> GalleryRow] :
        /\ g = gallery' /\ \A j \in D \ {i} : gallery[j].primary => g[j].primary
  BY <1>1, <1>5, <1>6, <1>7, RemovedRows
<1>9. PICK v \in Waits :
         /\ v = AtBack(<<"remove", i>>, w.media, w.items) /\ v # NotBusy
         /\ waiting' \in [Handlers -> Waits] /\ waiting'[h] = v
         /\ \A o \in Handlers \ {h} : waiting'[o] = waiting[o]
  <2>1. waiting[h].at = "API" /\ waiting[h].call = <<"remove", i>>
    BY <1>2, <1>3, <1>4
  <2>2. "remove" \in {"then", "remove", "primary"}
    OBVIOUS
  <2>3. QED BY <1>1, <1>2, <1>7, <2>1, <2>2, CallAnswered
<1>10. GalleryTypes'
  <2>1. unordered' \in BOOLEAN
    BY <1>7
  <2>2. gallery' \in [DOMAIN gallery' -> GalleryRow] /\ DOMAIN gallery' \subseteq Images
    BY <1>8
  <2>3. QED BY <1>1, <1>7, <1>9, <2>1, <2>2 DEF GalleryTypes
<1>11. Numbered'
  BY <1>7 DEF Numbered
<1>12. ASSUME ~ doubtful' PROVE InStep'
  <2>1. InStep
    BY <1>7, <1>12 DEF GalleryInv
  <2>2. Follows(w) /\ \A o \in Handlers \ {h} : waiting'[o] = NotBusy
    BY <1>1, <1>2, <1>3, <1>9, <2>1, Alone
  <2>3. /\ w.media = media /\ w.items = media /\ items = media /\ media \in Seq(Item)
        /\ Agrees(media, gallery, unordered)
    BY <1>1, <1>3, <1>4, <2>2 DEF Follows, GalleryTypes
  <2>4. /\ v.at = "back" /\ v.call[1] = "remove" /\ v.call[2] = i
        /\ v.media = media /\ v.items = media
    BY <1>9, <2>3 DEF AtBack
  <2>5. Agrees(Outcome(v), g, TRUE)
    <3>1. Agrees(KeptAt(media, {k \in DOMAIN media : media[k].id # i}), g, TRUE)
      <4>1. gallery \in [D -> GalleryRow] /\ media \in Seq(Item)
        BY <1>5, <2>3
      <4>2. \A j \in D \ {i} : gallery[j].primary => g[j].primary
        BY <1>8
      <4>3. Agrees(media, gallery, unordered)
        BY <2>3
      <4>4. QED BY <1>6, <4>1, <4>2, <4>3, RowRemoved
    <3>2. Outcome(v) = KeptAt(media, {k \in DOMAIN media : media[k].id # i})
      BY <2>4 DEF Outcome
    <3>3. QED BY <3>1, <3>2
  <2>6. Follows(v)'
    <3>1. Agrees(Outcome(v), gallery', unordered')
      BY <1>7, <1>8, <2>5
    <3>2. QED BY <1>7, <2>3, <2>4, <3>1 DEF Follows
  <2>7. QED BY <1>9, <2>2, <2>6, InStepAgain
<1>13. QED BY <1>10, <1>11, <1>12 DEF GalleryInv

LEMMA ReorderServedStep ==
  ASSUME GalleryInv, NEW h \in Handlers, ReorderServed(h)
  PROVE  GalleryInv'
<1>1. GalleryTypes
  BY DEF GalleryInv
<1>2. PICK w \in Waits : w = waiting[h]
  BY <1>1 DEF GalleryTypes
<1>3. /\ w.at = "API" /\ w.call[1] = "reorder" /\ w.call \in Asked
      /\ w.media \in Seq(Item) /\ w.items \in Seq(Item)
  BY <1>2, WaitFacts DEF ReorderServed
<1>4. PICK ids \in Seq(Images) : w.call = <<"reorder", ids>>
  BY <1>3, AskedFacts
<1>5. PICK D \in SUBSET Images : D = DOMAIN gallery /\ gallery \in [D -> GalleryRow]
  BY <1>1 DEF GalleryTypes
<1>6. PICK n \in Nat : /\ n = Cardinality(D) /\ n = Len(ids) /\ DOMAIN ids = 1 .. n
                       /\ n <= Cardinality(Images) /\ Cardinality(Images) \in Nat
                       /\ \A j \in D : \E k \in 1 .. n : ids[k] = j
  <2>1. Len(ids) = Cardinality(D) /\ ToSet(ids) = D
    BY <1>2, <1>4, <1>5 DEF ReorderServed
  <2>2. DOMAIN ids = 1 .. Len(ids) /\ Len(ids) \in Nat
    BY LenProperties
  <2>3. \A j \in D : \E k \in 1 .. Len(ids) : ids[k] = j
    BY <2>1, <2>2 DEF ToSet
  <2>4. Cardinality(D) <= Cardinality(Images) /\ Cardinality(Images) \in Nat
    BY <1>1, <1>5, GalleryFacts
  <2>5. QED BY <2>1, <2>2, <2>3, <2>4
<1>7. PICK g : g = [j \in D |-> [gallery[j] EXCEPT
                                   !.order = (CHOOSE k \in 1 .. n : ids[k] = j) - 1]]
  OBVIOUS
<1>8. /\ gallery' = g /\ unordered' = FALSE
      /\ UNCHANGED <<media, items, doubtful>>
      /\ \E l \in Listings(gallery') : AnswerIs(h, <<"reorder", l>>)
  <2>1. waiting[h].call[2] = ids
    BY <1>2, <1>4
  <2>2. /\ gallery' = Reordered(ids) /\ unordered' = FALSE
        /\ UNCHANGED <<media, items, doubtful>>
        /\ \E l \in Listings(gallery') : AnswerIs(h, <<"reorder", l>>)
    BY <2>1 DEF ReorderServed
  <2>3. Reordered(ids) = g
    BY <1>5, <1>6, <1>7 DEF Reordered
  <2>4. QED BY <2>2, <2>3
<1>9. g \in [D -> GalleryRow] /\ \A j \in D : g[j].order < n
  <2>1. ASSUME NEW j \in D PROVE g[j] \in GalleryRow /\ g[j].order < n
    <3>1. PICK k \in 1 .. n : k = CHOOSE p \in 1 .. n : ids[p] = j
      BY <1>6
    <3>2. k - 1 \in 0 .. Cardinality(Images) /\ k - 1 < n
      BY <1>6
    <3>3. g[j] = [gallery[j] EXCEPT !.order = k - 1] /\ gallery[j] \in GalleryRow
      BY <1>5, <1>7, <3>1
    <3>4. \A r \in GalleryRow : /\ [r EXCEPT !.order = k - 1] \in GalleryRow
                                /\ [r EXCEPT !.order = k - 1].order = k - 1
      BY <3>2 DEF GalleryRow
    <3>5. QED BY <3>2, <3>3, <3>4
  <2>2. QED BY <1>7, <2>1
<1>10. PICK l \in Listings(g) : AnswerIs(h, <<"reorder", l>>)
  BY <1>8
<1>11. l \in Seq(Item) /\ Agrees(l, g, FALSE)
  BY <1>9, AgreesListing
<1>12. PICK v \in Waits :
         /\ v = AtBack(<<"reorder", l>>, w.media, w.items) /\ v # NotBusy
         /\ waiting' \in [Handlers -> Waits] /\ waiting'[h] = v
         /\ \A o \in Handlers \ {h} : waiting'[o] = waiting[o]
  <2>1. <<"reorder", l>> \in OtherAnswers \cup AnswersWithRow
    BY <1>11 DEF OtherAnswers
  <2>2. waiting[h].at = "API"
    BY <1>2, <1>3
  <2>3. PICK v \in Waits : /\ v = AtBack(<<"reorder", l>>, w.media, w.items)
                           /\ waiting' = [waiting EXCEPT ![h] = v]
    BY <1>1, <1>2, <1>10, <2>1, <2>2, AnswerIsThere
  <2>4. v # NotBusy
    BY <2>3 DEF AtBack, NotBusy
  <2>5. QED BY <1>1, <2>3, <2>4, TurnOf
<1>13. GalleryTypes'
  <2>1. unordered' \in BOOLEAN
    BY <1>8
  <2>2. gallery' \in [DOMAIN gallery' -> GalleryRow] /\ DOMAIN gallery' \subseteq Images
    BY <1>8, <1>9
  <2>3. QED BY <1>1, <1>8, <1>12, <2>1, <2>2 DEF GalleryTypes
<1>14. Numbered'
  BY <1>6, <1>8, <1>9 DEF Numbered
<1>15. ASSUME ~ doubtful' PROVE InStep'
  <2>1. InStep
    BY <1>8, <1>15 DEF GalleryInv
  <2>2. Follows(w) /\ \A o \in Handlers \ {h} : waiting'[o] = NotBusy
    BY <1>1, <1>2, <1>3, <1>12, <2>1, Alone
  <2>3. w.media = media
    BY <2>2 DEF Follows
  <2>4. v.at = "back" /\ v.call[1] = "reorder" /\ v.call[2] = l /\ v.media = media
    BY <1>12, <2>3 DEF AtBack
  <2>5. Outcome(v) = l
    BY <2>4 DEF Outcome
  <2>6. Follows(v)'
    <3>1. Agrees(Outcome(v), gallery', unordered')
      BY <1>8, <1>11, <2>5
    <3>2. QED BY <1>8, <2>4, <3>1 DEF Follows
  <2>7. QED BY <1>12, <2>2, <2>6, InStepAgain
<1>16. QED BY <1>13, <1>14, <1>15 DEF GalleryInv

LEMMA DropStep ==
  ASSUME GalleryInv, NEW h \in Handlers, NEW from \in DOMAIN items, NEW to \in DOMAIN items,
         Drop(h, from, to)
  PROVE  GalleryInv'
<1>1. items \in Seq(Item) /\ media \in Seq(Item)
  BY DEF GalleryInv, GalleryTypes
<1>2. PICK n \in Nat : n = Len(items) /\ from \in 1 .. n /\ to \in 1 .. n
  BY <1>1, LenProperties
<1>3. PICK less \in Seq(Item) : less = RemoveAt(items, from) /\ Len(less) = n - 1
  BY <1>1, <1>2, Without
<1>4. items[from] \in Item
  BY <1>1, <1>2, ElementOfSeq
<1>5. InsertAt(less, to, items[from]) \in Seq(Item)
  <2>1. SubSeq(less, 1, to - 1) \in Seq(Item)
    <3>1. 1 \in Int /\ to - 1 \in Int /\ \A k \in 1 .. to - 1 : k \in 1 .. Len(less)
      BY <1>2, <1>3
    <3>2. \A k \in 1 .. to - 1 : less[k] \in Item
      BY <1>3, <3>1, ElementOfSeq
    <3>3. QED BY <3>1, <3>2, SubSeqProperties
  <2>2. SubSeq(less, to, Len(less)) \in Seq(Item)
    <3>1. to \in Int /\ Len(less) \in Int /\ \A k \in to .. Len(less) : k \in 1 .. Len(less)
      BY <1>2, <1>3
    <3>2. \A k \in to .. Len(less) : less[k] \in Item
      BY <1>3, <3>1, ElementOfSeq
    <3>3. QED BY <3>1, <3>2, SubSeqProperties
  <2>3. <<items[from]>> \in Seq(Item)
    BY <1>4
  <2>4. QED BY <2>1, <2>2, <2>3, ConcatProperties DEF InsertAt
<1>6. PICK next \in Seq(Item) : next = InsertAt(RemoveAt(items, from), to, items[from])
  BY <1>3, <1>5
<1>7. Begin(h, <<"reorder", Ids(next)>>, next) /\ items' = next
  BY <1>6 DEF Drop
<1>8. Ids(next) \in Seq(Images)
  <2>1. DOMAIN next = 1 .. Len(next) /\ Len(next) \in Nat
    BY <1>6, LenProperties
  <2>2. \A k \in 1 .. Len(next) : next[k].id \in Images
    <3>1. \A k \in 1 .. Len(next) : next[k] \in Item
      BY <1>6, ElementOfSeq
    <3>2. QED BY <3>1 DEF Item
  <2>3. Ids(next) \in [1 .. Len(next) -> Images]
    BY <2>1, <2>2 DEF Ids
  <2>4. QED BY <2>1, <2>3
<1>9. PICK c \in Asked : c = <<"reorder", Ids(next)>> /\ c[1] = "reorder"
  <2>1. <<"reorder", Ids(next)>> \in Asked
    BY <1>8 DEF Asked
  <2>2. QED BY <2>1
<1>10. Begin(h, c, next)
  BY <1>7, <1>9
<1>11. QED BY <1>7, <1>9, <1>10, BeginStep

LEMMA CallStep ==
  ASSUME GalleryInv, NEW h \in Handlers, NEW i \in Images,
         NEW kind \in {"add", "profile", "remove", "primary"},
         Begin(h, <<kind, i>>, items), UNCHANGED items
  PROVE  GalleryInv'
<1>1. items \in Seq(Item)
  BY DEF GalleryInv, GalleryTypes
<1>2. PICK c \in Asked : c = <<kind, i>> /\ c[1] # "then" /\ c[1] # "reorder"
  <2>1. <<kind, i>> \in Asked
    BY DEF Asked
  <2>2. QED BY <2>1
<1>3. PICK seen \in Seq(Item) : seen = items
  BY <1>1
<1>4. Begin(h, c, seen) /\ items' = seen
  BY <1>2, <1>3
<1>5. QED BY <1>2, <1>3, <1>4, BeginStep

LEMMA ArrivesStep ==
  ASSUME GalleryInv, NEW h \in Handlers,
         \/ AddArrives(h) \/ ProfileArrives(h) \/ RemoveArrives(h)
         \/ PrimaryArrives(h) \/ ReorderArrives(h)
  PROVE  GalleryInv'
<1>1. CASE AddArrives(h)
  <2>1. Shows(h, Outcome(waiting[h]))
    BY <1>1 DEF AddArrives, Outcome
  <2>2. QED BY <2>1, ShowsStep
<1>2. CASE ProfileArrives(h)
  <2>1. Shows(h, Outcome(waiting[h]))
    BY <1>2 DEF ProfileArrives, Outcome, WithProfile
  <2>2. QED BY <2>1, ShowsStep
<1>3. CASE RemoveArrives(h)
  <2>1. Shows(h, Outcome(waiting[h]))
    BY <1>3 DEF RemoveArrives, Outcome
  <2>2. QED BY <2>1, ShowsStep
<1>4. CASE PrimaryArrives(h)
  <2>1. Shows(h, Outcome(waiting[h]))
    BY <1>4 DEF PrimaryArrives, Outcome
  <2>2. QED BY <2>1, ShowsStep
<1>5. CASE ReorderArrives(h)
  <2>1. Shows(h, Outcome(waiting[h]))
    BY <1>5 DEF ReorderArrives, Outcome
  <2>2. QED BY <2>1, ShowsStep
<1>6. QED BY <1>1, <1>2, <1>3, <1>4, <1>5

LEMMA GallerySteps ==
  ASSUME GalleryInv, GalleryNext
  PROVE  GalleryInv'
<1>1. ASSUME NEW h \in Handlers, GalleryAnswered(h) PROVE GalleryInv'
  BY <1>1, AddServedStep, PrimaryServedStep, RemoveServedStep, ReorderServedStep,
     ArrivesStep, HandlerFailsStep DEF GalleryAnswered
<1>2. ASSUME NEW h \in Handlers, NEW i \in Images,
             Pick(h, i) \/ PickProfile(h, i) \/ Delete(h, i) \/ MakePrimary(h, i)
      PROVE  GalleryInv'
  BY <1>2, CallStep DEF Pick, PickProfile, Delete, MakePrimary
<1>3. ASSUME NEW h \in Handlers, NEW from \in DOMAIN items, NEW to \in DOMAIN items,
             Drop(h, from, to)
      PROVE  GalleryInv'
  BY <1>3, DropStep
<1>4. QED BY <1>1, <1>2, <1>3, TalentArrivesStep DEF GalleryNext

LEMMA GalleryInitially ==
  ASSUME GalleryInit
  PROVE  GalleryInv
<1>1. /\ gallery = <<>> /\ media = <<>> /\ items = <<>>
      /\ waiting = [h \in Handlers |-> NotBusy]
      /\ unordered = FALSE /\ doubtful = FALSE
  BY DEF GalleryInit
<1>2. DOMAIN gallery = {} /\ gallery \in [{} -> GalleryRow] /\ Len(media) = 0
  BY <1>1
<1>3. media \in Seq(Item) /\ items \in Seq(Item)
  BY <1>1
<1>4. waiting \in [Handlers -> Waits]
  BY <1>1 DEF Waits
<1>5. unordered \in BOOLEAN /\ doubtful \in BOOLEAN
  BY <1>1
<1>6. GalleryTypes
  BY <1>2, <1>3, <1>4, <1>5 DEF GalleryTypes
<1>7. Numbered
  BY <1>2 DEF Numbered
<1>8. Agrees(media, gallery, unordered)
  <2>1. Cardinality(DOMAIN gallery) = 0
    BY <1>2, FS_EmptySet
  <2>2. QED BY <1>2, <2>1 DEF Agrees
<1>9. \A h \in Handlers : ~ Busy(h)
  BY <1>1 DEF Busy
<1>10. items = media
  BY <1>1
<1>11. QED BY <1>6, <1>7, <1>8, <1>9, <1>10 DEF GalleryInv, InStep

LEMMA GalleryFrame ==
  ASSUME GalleryInv, UNCHANGED galleryVars
  PROVE  GalleryInv'
<1>1. UNCHANGED <<gallery, media, items, waiting, unordered, doubtful>>
  BY DEF galleryVars
<1>2. GalleryTypes'
  BY <1>1 DEF GalleryInv, GalleryTypes
<1>3. Numbered'
  BY <1>1 DEF GalleryInv, Numbered
<1>4. InStep => InStep'
  <2>1. Quiet' <=> Quiet
    BY <1>1 DEF Quiet, Busy
  <2>2. \A h \in Handlers : (Busy(h)' <=> Busy(h)) /\ waiting'[h] = waiting[h]
    BY <1>1 DEF Busy
  <2>3. ASSUME NEW w, Follows(w) PROVE Follows(w)'
    BY <1>1, <2>3 DEF Follows
  <2>4. Agrees(media, gallery, unordered)' <=> Agrees(media, gallery, unordered)
    BY <1>1 DEF Agrees
  <2>5. ASSUME InStep, NEW h \in Handlers, Busy(h)' PROVE Follows(waiting[h])'
    <3>1. PICK w : w = waiting[h] /\ w = waiting'[h] /\ Follows(w)
      BY <2>2, <2>5 DEF InStep
    <3>2. Follows(w)'
      BY <2>3, <3>1
    <3>3. QED BY <3>1, <3>2 DEF Follows
  <2>6. QED BY <1>1, <2>1, <2>2, <2>4, <2>5 DEF InStep
<1>5. QED BY <1>1, <1>2, <1>3, <1>4 DEF GalleryInv

LEMMA GalleryAlways == Spec => []GalleryInv
<1>1. Init => GalleryInv
  BY GalleryInitially DEF Init
<1>2. ASSUME GalleryInv, [Next]_frontEndVars
      PROVE  GalleryInv'
  <2>1. CASE UNCHANGED galleryVars
    BY <1>2, <2>1, GalleryFrame
  <2>2. CASE Gallery(GalleryNext)
    BY <1>2, <2>2, GallerySteps DEF Gallery
  <2>3. QED BY <1>2, <2>1, <2>2 DEF Next, frontEndVars, Session, List, Form, Dialog, Site, Payment
<1>3. QED BY <1>1, <1>2, PTL DEF Spec

LEMMA InStepShowsStored ==
  ASSUME GalleryInv
  PROVE  GalleryShowsStored
<1>1. SUFFICES ASSUME Quiet, ~ doubtful
      PROVE  /\ items = media
             /\ Len(items) = Cardinality(DOMAIN gallery)
             /\ ToSet(Ids(items)) = DOMAIN gallery
             /\ \A k \in DOMAIN items : items[k].primary => gallery[items[k].id].primary
             /\ ~ unordered => InOrder(Ids(items), gallery)
  BY DEF GalleryShowsStored
<1>2. items = media /\ Agrees(items, gallery, unordered) /\ items \in Seq(Item)
  BY <1>1 DEF GalleryInv, InStep, GalleryTypes
<1>3. PICK n \in Nat : n = Len(items) /\ DOMAIN items = 1 .. n
  BY <1>2, LenProperties
<1>4. PICK ids : ids = [k \in 1 .. n |-> items[k].id]
  OBVIOUS
<1>5. Ids(items) = ids
  BY <1>3, <1>4 DEF Ids
<1>6. Len(ids) = n /\ DOMAIN ids = 1 .. n /\ \A k \in 1 .. n : ids[k] = items[k].id
  <2>1. \A k \in 1 .. n : items[k].id \in DOMAIN gallery
    BY <1>2, <1>3 DEF Agrees
  <2>2. ids \in [1 .. n -> DOMAIN gallery]
    BY <1>4, <2>1
  <2>3. Len(ids) = n
    BY <2>2
  <2>4. QED BY <1>4, <2>3
<1>7. ToSet(ids) = DOMAIN gallery
  <2>1. \A k \in 1 .. n : ids[k] \in DOMAIN gallery
    BY <1>2, <1>3, <1>6 DEF Agrees
  <2>2. \A i \in DOMAIN gallery : \E k \in 1 .. n : ids[k] = i
    BY <1>2, <1>3, <1>6 DEF Agrees
  <2>3. ToSet(ids) = {ids[k] : k \in 1 .. n}
    BY <1>6 DEF ToSet
  <2>4. QED BY <2>1, <2>2, <2>3
<1>8. \A k \in DOMAIN items : items[k].primary => gallery[items[k].id].primary
  BY <1>2, <1>3 DEF Agrees
<1>9. ~ unordered => InOrder(ids, gallery)
  <2>1. \A k \in 1 .. n - 1 : k \in 1 .. n /\ k + 1 \in 1 .. n
    OBVIOUS
  <2>2. ~ unordered =>
          \A k \in 1 .. n - 1 : gallery[items[k].id].order <= gallery[items[k + 1].id].order
    BY <1>2, <1>3 DEF Agrees
  <2>3. ~ unordered =>
          \A k \in 1 .. n - 1 : gallery[ids[k]].order <= gallery[ids[k + 1]].order
    BY <1>6, <2>1, <2>2
  <2>4. QED BY <1>6, <2>3 DEF InOrder
<1>10. QED BY <1>2, <1>5, <1>7, <1>8, <1>9 DEF Agrees

-----------------------------------------------------------------------------
(***************************************************************************)
(* All the pages together.                                                 *)
(***************************************************************************)
LEMMA CheckoutFrame ==
  ASSUME CheckoutTypeOK, UNCHANGED checkoutVars
  PROVE  CheckoutTypeOK'
  BY DEF checkoutVars, CheckoutTypeOK

LEMMA CheckoutInitially ==
  ASSUME CheckoutInit
  PROVE  CheckoutTypeOK
<1>1. paid = FALSE
  BY DEF CheckoutInit
<1>2. paid \in BOOLEAN
  BY <1>1
<1>3. pollCount \in 0 .. MAX_POLLS
  BY PollsAssumption DEF CheckoutInit
<1>4. QED BY <1>2, <1>3 DEF CheckoutInit, CheckoutTypeOK

LEMMA CheckoutTyped == Spec => []CheckoutTypeOK
<1>1. Init => CheckoutTypeOK
  BY CheckoutInitially DEF Init
<1>2. CheckoutTypeOK /\ [Next]_frontEndVars => CheckoutTypeOK'
  BY CheckoutSteps, CheckoutFrame
  DEF Next, Session, List, Form, Dialog, Gallery, Site, Payment, frontEndVars
<1>3. QED BY <1>1, <1>2, PTL DEF Spec

LEMMA SiteTyped == Spec => []CustomerTypeOK
<1>1. Init => SiteInv /\ SiteRest
  BY SiteInitially, RestInitially DEF Init
<1>2. SiteInv /\ SiteRest /\ [Next]_frontEndVars => (SiteInv /\ SiteRest)'
  BY SiteSteps, RestSteps
<1>3. SiteInv /\ SiteRest => CustomerTypeOK
  BY SiteTypeCorrect
<1>4. QED BY <1>1, <1>2, <1>3, PTL DEF Spec

LEMMA GalleryTypeCorrect ==
  ASSUME GalleryInv
  PROVE  GalleryTypeOK
<1>1. GalleryTypes
  BY DEF GalleryInv
<1>2. ASSUME NEW l \in Seq(Item) PROVE ToSet(l) \subseteq Item
  BY DEF ToSet
<1>3. ToSet(items) \cup ToSet(media) \subseteq [id : Images, primary : BOOLEAN]
  BY <1>1, <1>2 DEF GalleryTypes, Item
<1>4. \A i \in DOMAIN gallery :
        gallery[i].order \in 0 .. Cardinality(Images) /\ gallery[i].primary \in BOOLEAN
  BY <1>1 DEF GalleryTypes, GalleryRow
<1>5. DOMAIN waiting = Handlers /\ {unordered, doubtful} \subseteq BOOLEAN
  BY <1>1 DEF GalleryTypes
<1>6. DOMAIN gallery \subseteq Images
  BY <1>1 DEF GalleryTypes
<1>7. QED BY <1>3, <1>4, <1>5, <1>6 DEF GalleryTypeOK

(* The front ends' states have their types, page by page.                  *)
THEOREM PagesTypeCorrect == Spec => []TypeOK
<1>1. Init => page \in Pages
  BY DEF Init
<1>2. page \in Pages /\ [Next]_frontEndVars => (page \in Pages)'
  BY DEF Next, Session, List, Form, Dialog, Gallery, Site, Payment, frontEndVars
<1>3. Spec => [](page \in Pages)
  BY <1>1, <1>2, PTL DEF Spec
<1>4. page \in Pages /\ SessionInv /\ ListInv /\ FormInv /\ DialogInv /\ GalleryInv
        /\ CustomerTypeOK /\ CheckoutTypeOK => TypeOK
  BY GalleryTypeCorrect
  DEF TypeOK, SessionInv, SessionTypes, ListInv, ListTypes, FormInv, DialogInv
<1>5. QED
  BY <1>3, <1>4, SessionHolds, ListAlways, FormAlways, DialogAlways, GalleryAlways,
     SiteTyped, CheckoutTyped, PTL

(***************************************************************************)
(* However many rows, images, loads and handlers there are: a settled list *)
(* shows the rows of its own query, a dialog edits the row it was opened   *)
(* on, and a gallery nobody waits for shows the API's images in the API's  *)
(* order with the API's badge, each within the limits its definition       *)
(* names.                                                                  *)
(***************************************************************************)
THEOREM PagesShowTheStored == Spec => []ShownIsStored
<1>1. ListInv /\ DialogInv /\ GalleryInv => ShownIsStored
  BY SettledShowsQuery, InStepShowsStored DEF DialogInv, ShownIsStored
<1>2. QED BY <1>1, ListAlways, DialogAlways, GalleryAlways, PTL
=============================================================================
