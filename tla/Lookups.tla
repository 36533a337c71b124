------------------------------ MODULE Lookups ------------------------------
(***************************************************************************)
(* cities.service.ts, locations.service.ts, talent-categories.service.ts   *)
(* and talent-subcategories.service.ts under apps/api/src.                 *)
(*                                                                         *)
(* Each update and remove first finds the row; the write that follows      *)
(* fails when the row is gone by then, so the two are one step.  A bulk    *)
(* delete is one statement: a row that may not go keeps them all.  What a  *)
(* delete takes along or is refused by is in the foreign keys of           *)
(* migrations 20260721154545 and 20260725223000.                           *)
(***************************************************************************)
EXTENDS CatalogueStore

CityCreate(h, c) ==
  /\ AtOnce(h, "places")
  /\ c \notin cities /\ ~ Mentioned(c)
  /\ cities' = cities \cup {c}
  /\ UNCHANGED <<locations, taxonomy, talents, media, saved>>

(* ON DELETE RESTRICT of locations.city_id and talents.city_id: deleted    *)
(* talents count, their rows still refer to the city.                      *)
CityInUse(c) ==
  \/ \E l \in Locations : locations[l] = c
  \/ \E t \in Talents : talents[t].city = c

(* remove of one city, bulkAction "delete" of several. *)
CityRemove(h, ids) ==
  /\ AtOnce(h, "places")
  /\ \A c \in ids : ~ CityInUse(c)
  /\ cities' = cities \ ids
  /\ UNCHANGED <<locations, taxonomy, talents, media, saved>>

-----------------------------------------------------------------------------
LocationCreate(h, l, c) ==
  /\ AtOnce(h, "places")
  /\ locations[l] = None /\ ~ Mentioned(l)
  /\ c \in cities
  /\ locations' = [locations EXCEPT ![l] = c]
  /\ UNCHANGED <<cities, taxonomy, talents, media, saved>>

(* Moving a location to another city leaves its talents where they are.    *)
LocationUpdate(h, l, c) ==
  /\ AtOnce(h, "places")
  /\ locations[l] # None
  /\ c \in cities
  /\ locations' = [locations EXCEPT ![l] = c]
  /\ UNCHANGED <<cities, taxonomy, talents, media, saved>>

(* ON DELETE SET NULL of talents.location_id: "still referenced by talent  *)
(* and cannot be deleted" never happens.                                   *)
Unlocated(ids) ==
  [t \in Talents |->
     IF HasTalent(t) /\ talents[t].location \in ids
     THEN [talents[t] EXCEPT !.location = None] ELSE talents[t]]

(* remove of one location, bulkAction "delete" of several. *)
LocationRemove(h, ids) ==
  /\ AtOnce(h, "places")
  /\ locations' = [l \in Locations |-> IF l \in ids THEN None ELSE locations[l]]
  /\ talents' = Unlocated(ids)
  /\ UNCHANGED <<cities, taxonomy, media, saved>>

-----------------------------------------------------------------------------
CategoryCreate(h, c) ==
  /\ AtOnce(h, "taxonomy")
  /\ c \notin categories /\ ~ Mentioned(c)
  /\ categories' = categories \cup {c}
  /\ UNCHANGED <<places, subCategories, talents, media, saved>>

SubCategoriesOf(ids) == {s \in SubCategories : subCategories[s] \in ids}

(* ON DELETE CASCADE of both maps. *)
Untagged(cats, subs) ==
  talents' = [t \in Talents |->
    IF HasTalent(t)
    THEN [talents[t] EXCEPT !.categories = @ \ cats, !.subCategories = @ \ subs]
    ELSE NoTalent]

(* Mutant: the sub-categories' rows go, their tags stay. *)
CategoryRemoveKeepsTags(h, ids) ==
  /\ AtOnce(h, "taxonomy")
  /\ categories' = categories \ ids
  /\ subCategories' = [s \in SubCategories |->
       IF s \in SubCategoriesOf(ids) THEN None ELSE subCategories[s]]
  /\ Untagged(ids, {})
  /\ UNCHANGED <<places, media, saved>>

(* remove and bulkAction "delete": ON DELETE CASCADE takes along the       *)
(* sub-categories and the tags of both on every talent; "still assigned to *)
(* talent and cannot be deleted" never happens.                            *)
CategoryRemove(h, ids) ==
  /\ AtOnce(h, "taxonomy")
  /\ categories' = categories \ ids
  /\ subCategories' = [s \in SubCategories |->
       IF s \in SubCategoriesOf(ids) THEN None ELSE subCategories[s]]
  /\ Untagged(ids, SubCategoriesOf(ids))
  /\ UNCHANGED <<places, media, saved>>

SubCategoryCreate(h, s, c) ==
  /\ AtOnce(h, "taxonomy")
  /\ subCategories[s] = None /\ ~ Mentioned(s)
  /\ c \in categories
  /\ subCategories' = [subCategories EXCEPT ![s] = c]
  /\ UNCHANGED <<places, categories, talents, media, saved>>

(* A sub-category may move to another category under its talents.          *)
SubCategoryUpdate(h, s, c) ==
  /\ AtOnce(h, "taxonomy")
  /\ subCategories[s] # None
  /\ c \in categories
  /\ subCategories' = [subCategories EXCEPT ![s] = c]
  /\ UNCHANGED <<places, categories, talents, media, saved>>

(* remove and bulkAction "delete", with the tags by ON DELETE CASCADE.     *)
SubCategoryRemove(h, ids) ==
  /\ AtOnce(h, "taxonomy")
  /\ subCategories' = [s \in SubCategories |->
       IF s \in ids THEN None ELSE subCategories[s]]
  /\ Untagged({}, ids)
  /\ UNCHANGED <<places, categories, media, saved>>

LookupsNext ==
  \E h \in Slots :
    \/ \E c \in Cities : \/ CityCreate(h, c)
                         \/ \E l \in Locations : \/ LocationCreate(h, l, c)
                                                 \/ LocationUpdate(h, l, c)
    \/ \E ids \in SUBSET Cities : CityRemove(h, ids)
    \/ \E ids \in SUBSET Locations : LocationRemove(h, ids)
    \/ \E c \in Categories : \/ CategoryCreate(h, c)
                             \/ \E s \in SubCategories :
                                  \/ SubCategoryCreate(h, s, c)
                                  \/ SubCategoryUpdate(h, s, c)
    \/ \E ids \in SUBSET Categories : CategoryRemove(h, ids)
    \/ \E ids \in SUBSET SubCategories : SubCategoryRemove(h, ids)
=============================================================================
