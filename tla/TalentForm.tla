----------------------------- MODULE TalentForm -----------------------------
(***************************************************************************)
(* components/talent/TalentForm.tsx, the fields that depend on each other: *)
(* the location on the city, the sub-categories on the categories.  The    *)
(* lists behind the pickers are loaded when the form mounts (they hold     *)
(* active rows only) and when the city changes.                            *)
(***************************************************************************)
EXTENDS Naturals

CONSTANTS
  Cities, Locations, Categories, SubCategories,
  CityOf,     \* CityOf[l]: the city of location l
  ParentOf,   \* ParentOf[s]: the category of sub-category s
  Active      \* the sub-categories that are active

ASSUME TreeAssumption ==
  /\ CityOf \in [Locations -> Cities]
  /\ ParentOf \in [SubCategories -> Categories]
  /\ Active \subseteq SubCategories

VARIABLES
  talent,     \* the talent as the API last answered it
  values,     \* the form's values
  locations,  \* the locations offered for a city
  requests,   \* the location lists asked for: of which city, and cancelled or not
  listed,     \* the sub-categories the form knows of
  subsAsked,  \* whether the list of sub-categories is still awaited
  submitted,  \* the payload of the submit awaited, or NoPayload
  strays      \* history: the locations chosen from a list that was not that of the
              \* city or kept by the API when a save left them out, and the
              \* sub-categories unknown to the form when it removed their category

formVars == <<talent, values, locations, requests, listed, subsAsked, submitted,
              strays>>

None == "none"
NoPayload == [city |-> None]

(* The values of the fields; an undefined location is None.                *)
Values == [city : Cities, location : Locations \cup {None},
           categories : SUBSET Categories, subCategories : SUBSET SubCategories]

Consistent(v) ==
  /\ v.location # None => CityOf[v.location] = v.city
  /\ \A s \in v.subCategories : ParentOf[s] \in v.categories
-----------------------------------------------------------------------------
(* The location effect of a render with another city: the request of the   *)
(* last one is cancelled by the effect's clean-up.                         *)
Cancelled(rs) == {[r EXCEPT !.cancelled = TRUE] : r \in rs}

(* The city picker clears the location and has the list loaded again; the  *)
(* old list stays offered until the new one comes.                         *)
ChooseCity(c) ==
  /\ c # values.city
  /\ values' = [values EXCEPT !.city = c, !.location = None]
  /\ requests' = Cancelled(requests) \cup {[city |-> c, cancelled |-> FALSE]}
  /\ UNCHANGED <<talent, locations, listed, subsAsked, submitted, strays>>

(* Mutant: an answer is shown even when another city was chosen since. *)
LocationsArriveAlways(r) ==
  /\ requests' = requests \ {r}
  /\ locations' = {l \in Locations : CityOf[l] = r.city}
  /\ UNCHANGED <<talent, values, listed, subsAsked, submitted, strays>>

LocationsArrive(r) ==
  /\ requests' = requests \ {r}
  /\ locations' = IF r.cancelled THEN locations
                  ELSE {l \in Locations : CityOf[l] = r.city}
  /\ UNCHANGED <<talent, values, listed, subsAsked, submitted, strays>>

LocationsFail(r) ==
  /\ requests' = requests \ {r}
  /\ locations' = IF r.cancelled THEN locations ELSE {}
  /\ UNCHANGED <<talent, values, listed, subsAsked, submitted, strays>>

(* The list of the city, and the talent's own location whatever the city.  *)
LocationOptions == locations \cup ({talent.location} \ {None})

(* Waiting for the list of the city that is chosen.                        *)
ListPending == \E r \in requests : ~ r.cancelled

ChooseLocation(l) ==
  /\ l \in LocationOptions \cup {None}
  /\ values' = [values EXCEPT !.location = l]
  /\ strays' = IF l # None /\ (ListPending \/ l \notin locations)
                 THEN strays \cup {l} ELSE strays
  /\ UNCHANGED <<talent, locations, requests, listed, subsAsked, submitted>>
-----------------------------------------------------------------------------
AddCategory(c) ==
  /\ c \notin values.categories
  /\ values' = [values EXCEPT !.categories = @ \cup {c}]
  /\ UNCHANGED <<talent, locations, requests, listed, subsAsked, submitted, strays>>

(* Drops the sub-categories of c, of those the form knows the parent of.   *)
RemoveCategory(c) ==
  LET dropped == {s \in values.subCategories \cap listed : ParentOf[s] = c} IN
  /\ c \in values.categories
  /\ values' = [values EXCEPT !.categories = @ \ {c},
                              !.subCategories = @ \ dropped]
  /\ strays' = strays \cup {s \in values.subCategories \ listed : ParentOf[s] = c}
  /\ UNCHANGED <<talent, locations, requests, listed, subsAsked, submitted>>

AddSubCategory(s) ==
  /\ s \in listed \ values.subCategories
  /\ ParentOf[s] \in values.categories
  /\ values' = [values EXCEPT !.subCategories = @ \cup {s}]
  /\ UNCHANGED <<talent, locations, requests, listed, subsAsked, submitted, strays>>

RemoveSubCategory(s) ==
  /\ s \in values.subCategories
  /\ values' = [values EXCEPT !.subCategories = @ \ {s}]
  /\ UNCHANGED <<talent, locations, requests, listed, subsAsked, submitted, strays>>

(* listAllActiveSubCategories of the mount effect.                         *)
SubCategoriesArrive ==
  /\ subsAsked
  /\ subsAsked' = FALSE
  /\ listed' \in {Active, {}}
  /\ UNCHANGED <<talent, values, locations, requests, submitted, strays>>
-----------------------------------------------------------------------------
(* handleSubmit: the button is disabled until the answer.                  *)
Submit ==
  /\ submitted = NoPayload
  /\ submitted' = values
  /\ UNCHANGED <<talent, values, locations, requests, listed, subsAsked, strays>>

(* JSON.stringify leaves an undefined location out of the body, and the    *)
(* API keeps the fields a PATCH does not name.                             *)
Patched(old, payload) ==
  [payload EXCEPT !.location = IF @ = None THEN old.location ELSE @]

(* onSaved is setTalent: the form stays mounted with its own values.       *)
SubmitArrives ==
  /\ submitted # NoPayload
  /\ talent' = Patched(talent, submitted)
  /\ submitted' = NoPayload
  /\ strays' = IF talent'.location # submitted.location
                 THEN strays \cup {talent'.location} ELSE strays
  /\ UNCHANGED <<values, locations, requests, listed, subsAsked>>

SubmitFails ==
  /\ submitted # NoPayload
  /\ submitted' = NoPayload
  /\ UNCHANGED <<talent, values, locations, requests, listed, subsAsked, strays>>

(* The edit page opened again: talentToFormValues.                         *)
Mounted(t) ==
  /\ values' = t
  /\ locations' = {}
  /\ requests' = {[city |-> t.city, cancelled |-> FALSE]}
  /\ listed' = {}
  /\ subsAsked' = TRUE

Reopen ==
  /\ submitted = NoPayload
  /\ Mounted(talent)
  /\ UNCHANGED <<talent, submitted, strays>>
-----------------------------------------------------------------------------
FormInit ==
  /\ talent \in {v \in Values : Consistent(v)}
  /\ values = talent
  /\ locations = {}
  /\ requests = {[city |-> talent.city, cancelled |-> FALSE]}
  /\ listed = {}
  /\ subsAsked = TRUE
  /\ submitted = NoPayload
  /\ strays = {}

PlacesNext ==
  \/ \E c \in Cities : ChooseCity(c)
  \/ \E r \in requests : LocationsArrive(r) \/ LocationsFail(r)
  \/ \E l \in Locations \cup {None} : ChooseLocation(l)

TagsNext ==
  \/ \E c \in Categories : AddCategory(c) \/ RemoveCategory(c)
  \/ \E s \in SubCategories : AddSubCategory(s) \/ RemoveSubCategory(s)
  \/ SubCategoriesArrive

SaveNext == Submit \/ SubmitArrives \/ SubmitFails \/ Reopen
-----------------------------------------------------------------------------
(* The type of the form's state.                                           *)
FormTypeOK ==
  /\ {talent, values} \subseteq Values
  /\ locations \subseteq Locations
  /\ requests \subseteq [city : Cities, cancelled : BOOLEAN]
  /\ listed \subseteq Active
  /\ submitted \in Values \cup {NoPayload}
  /\ subsAsked \in BOOLEAN
  /\ strays \subseteq Locations \cup SubCategories

(***************************************************************************)
(* TalentForm.tsx:366 "a sub-category shouldn't outlive its parent", and   *)
(* no location its city: in whatever order cities are chosen and lists     *)
(* arrive, a value the form holds or sends is at odds with its city or its *)
(* category only if it is one of the strays, and these come about in three *)
(* ways alone.  A location is chosen while the old city's list is still    *)
(* offered, or is the talent's own, which always is; a location that was   *)
(* cleared is kept by the API; a category is removed before the form knows *)
(* its sub-categories, or has one that is not active.                      *)
(***************************************************************************)
Explained(v) ==
  /\ v.location # None /\ CityOf[v.location] # v.city => v.location \in strays
  /\ \A s \in v.subCategories : ParentOf[s] \notin v.categories => s \in strays

FormConsistent ==
  Explained(values) /\ (submitted # NoPayload => Explained(submitted))
=============================================================================
