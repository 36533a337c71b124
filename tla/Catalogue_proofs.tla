-------------------------- MODULE Catalogue_proofs --------------------------
(***************************************************************************)
(* Proofs about Catalogue, for any places, tags, talents, folders, images  *)
(* and concurrent requests.  A talent's row never goes, so the row that an *)
(* update found is still there when it commits; what the row refers to may *)
(* have gone, and is checked then.  For the cap, the talents in flight to  *)
(* be featured count with those that are; in sequence, what the one        *)
(* request in flight has read still holds when it commits.                 *)
(***************************************************************************)
EXTENDS Catalogue, FiniteSetTheorems, TLAPS

TablesOK ==
  /\ cities \subseteq Cities
  /\ locations \in [Locations -> Cities \cup {None}]
  /\ categories \subseteq Categories
  /\ subCategories \in [SubCategories -> Categories \cup {None}]
  /\ talents \in [Talents -> {NoTalent} \cup TalentRow]
  /\ folders \in [Folders -> Folders \cup {Root, None}]
  /\ assets \in [Assets -> Folders \cup {Root, None}]

SavedOK == saved \in [Talents -> [categories : SUBSET Categories,
                                  subCategories : SUBSET SubCategories]]

RequestsOK == DOMAIN req = Slots /\ \A h \in Slots : ReqOK(req[h])

RequestKnows(r) ==
  /\ r.op = "create" => r.patch \in Details
  /\ r.op \in {"update", "clear", "commit"} => HasTalent(r.talent)

RequestsKnow == \A h \in Slots : RequestKnows(req[h])

PlacesExist == \A l \in LocationIds : locations[l] \in cities
ParentsExist == \A s \in SubCategoryIds : subCategories[s] \in categories
RowHolds(row) ==
  /\ row.city \in cities
  /\ row.location \in LocationIds \cup {None}
  /\ row.categories \subseteq categories
  /\ row.subCategories \subseteq SubCategoryIds
TalentsHold == \A t \in Talents : HasTalent(t) => RowHolds(talents[t])
FoldersHold ==
  /\ \A f \in FolderIds : Found(folders[f])
  /\ \A a \in Assets : assets[a] \in FolderIds \cup {Root, None}

IInv == TypeOK /\ RequestsKnow /\ ReferencesExist

LEMMA TypeParts ==
  TypeOK <=> /\ TablesOK /\ SavedOK /\ RequestsOK
             /\ workload \in Workloads /\ overlapped \in BOOLEAN
  BY DEF TypeOK, TablesOK, SavedOK, RequestsOK

LEMMA ReferenceParts ==
  ReferencesExist <=> PlacesExist /\ ParentsExist /\ TalentsHold /\ FoldersHold
  BY DEF ReferencesExist, PlacesExist, ParentsExist, TalentsHold, RowHolds,
         FoldersHold

LEMMA Rows ==
  ASSUME TablesOK
  PROVE  /\ \A t \in Talents : HasTalent(t) => talents[t] \in TalentRow
         /\ NoTalent \notin TalentRow
         /\ \A row \in TalentRow : row # NoTalent
  BY NoneAssumption DEF TablesOK, HasTalent, NoTalent, TalentRow

LEMMA RowEdited ==
  ASSUME NEW row \in TalentRow
  PROVE  /\ row.city \in Cities /\ row.location \in Locations \cup {None}
         /\ row.categories \subseteq Categories
         /\ row.subCategories \subseteq SubCategories
         /\ LET new == [row EXCEPT !.location = None] IN
              /\ new \in TalentRow
              /\ new.city = row.city /\ new.location = None
              /\ new.categories = row.categories
              /\ new.subCategories = row.subCategories
         /\ LET new == [row EXCEPT !.deleted = TRUE] IN
              /\ new \in TalentRow
              /\ new.city = row.city /\ new.location = row.location
              /\ new.categories = row.categories
              /\ new.subCategories = row.subCategories
  BY DEF TalentRow

-----------------------------------------------------------------------------
(***************************************************************************)
(* Requests.                                                               *)
(***************************************************************************)
LEMMA IdleIsOK == ReqOK(Idle) /\ RequestKnows(Idle) /\ RequestKnows(Idle)'
  BY DEF ReqOK, Idle, RequestKnows

LEMMA ReqTypes ==
  ASSUME NEW r, ReqOK(r)
  PROVE  /\ r.op \in {"create", "update", "clear", "commit"} =>
              /\ r.talent \in Talents /\ IsPatch(r.patch)
              /\ r.seen \subseteq Categories \cup SubCategories
  BY DEF ReqOK, Idle

KeepsTalents == \A t \in Talents : HasTalent(t) => talents'[t] # NoTalent

(* Slot h goes on with r, the others with what they had.                   *)
LEMMA RequestsStep ==
  ASSUME IInv, NEW h \in Slots, NEW r, ReqOK(r), req' = [req EXCEPT ![h] = r],
         RequestKnows(r)', KeepsTalents
  PROVE  RequestsOK' /\ RequestsKnow'
<1>1. DOMAIN req = Slots /\ \A k \in Slots : ReqOK(req[k]) /\ RequestKnows(req[k])
  BY TypeParts DEF IInv, RequestsOK, RequestsKnow
<1>2. DOMAIN req' = Slots /\ req'[h] = r /\ \A k \in Slots : k # h => req'[k] = req[k]
  BY <1>1
<1>3. RequestsOK'
  <2> SUFFICES ASSUME NEW k \in Slots PROVE ReqOK(req'[k])
    BY <1>2 DEF RequestsOK, ReqOK, IsPatch
  <2>1. CASE k = h BY <1>2, <2>1
  <2>2. CASE k # h BY <1>1, <1>2, <2>2
  <2>3. QED BY <2>1, <2>2
<1>4. RequestsKnow'
  <2> SUFFICES ASSUME NEW k \in Slots PROVE RequestKnows(req[k])'
    BY DEF RequestsKnow
  <2>1. CASE k = h
    BY <1>2, <2>1 DEF RequestKnows, HasTalent
  <2>2. CASE k # h
    <3>1. PICK q : q = req[k] /\ q = req'[k] /\ ReqOK(q) /\ RequestKnows(q)
      BY <1>1, <1>2, <2>2
    <3>2. RequestKnows(q)'
      BY <3>1, ReqTypes DEF RequestKnows, KeepsTalents, HasTalent
    <3>3. QED BY <3>1, <3>2 DEF RequestKnows, HasTalent
  <2>3. QED BY <2>1, <2>2
<1>5. QED BY <1>3, <1>4

(* A request that is one step: what it does to the tables is all there is. *)
LEMMA AtOnceStep ==
  ASSUME IInv, NEW h \in Slots, NEW operation, AtOnce(h, operation),
         TablesOK', KeepsTalents, saved' = saved, ReferencesExist'
  PROVE  IInv'
<1>1. /\ req' = [req EXCEPT ![h] = Idle] /\ workload' = workload
      /\ overlapped' \in BOOLEAN
  BY TypeParts DEF AtOnce, Begin, IInv
<1>2. RequestsOK' /\ RequestsKnow'
  BY <1>1, IdleIsOK, RequestsStep
<1>3. SavedOK' /\ workload' \in Workloads
  BY <1>1, TypeParts DEF IInv, SavedOK
<1>4. TypeOK'
  BY <1>1, <1>2, <1>3 DEF TypeOK, TablesOK, SavedOK, RequestsOK
<1>5. QED BY <1>2, <1>4 DEF IInv

(* A request that reads and goes on.                                       *)
LEMMA ReadStep ==
  ASSUME IInv, NEW h \in Slots, NEW r, ReqOK(r), RequestKnows(r),
         req' = [req EXCEPT ![h] = r], workload' = workload,
         overlapped' \in BOOLEAN,
         UNCHANGED <<places, taxonomy, talents, media, saved>>
  PROVE  IInv'
<1>1. RequestKnows(r)' /\ KeepsTalents
  BY DEF RequestKnows, HasTalent, KeepsTalents
<1>2. RequestsOK' /\ RequestsKnow'
  BY <1>1, RequestsStep
<1>3. TablesOK' /\ SavedOK'
  BY TypeParts DEF IInv, TablesOK, SavedOK, places, taxonomy, media
<1>4. workload' \in Workloads
  BY TypeParts DEF IInv
<1>5. TypeOK'
  BY <1>2, <1>3, <1>4 DEF TypeOK, TablesOK, SavedOK, RequestsOK
<1>6. ReferencesExist'
  BY DEF IInv, ReferencesExist, LocationIds, SubCategoryIds, HasTalent,
         FolderIds, Found, places, taxonomy, media
<1>7. QED BY <1>2, <1>5, <1>6 DEF IInv

-----------------------------------------------------------------------------
(***************************************************************************)
(* The lookup services.                                                    *)
(***************************************************************************)
LEMMA OneNewCity ==
  ASSUME IInv, NEW h \in Slots, NEW c \in Cities, CityCreate(h, c)
  PROVE  IInv'
<1>1. /\ AtOnce(h, "places") /\ cities' = cities \cup {c}
      /\ UNCHANGED <<locations, categories, subCategories, talents, folders,
                     assets, saved>>
  BY DEF CityCreate, taxonomy, media
<1>2. TablesOK' /\ KeepsTalents
  BY <1>1, TypeParts DEF IInv, TablesOK, KeepsTalents, HasTalent
<1>3. ReferencesExist'
  BY <1>1 DEF IInv, ReferencesExist, LocationIds, SubCategoryIds, HasTalent,
             FolderIds, Found
<1>4. QED BY <1>1, <1>2, <1>3, AtOnceStep

LEMMA CitiesGo ==
  ASSUME IInv, NEW h \in Slots, NEW ids \in SUBSET Cities, CityRemove(h, ids)
  PROVE  IInv'
<1>1. /\ AtOnce(h, "places") /\ cities' = cities \ ids
      /\ \A c \in ids : ~ CityInUse(c)
      /\ UNCHANGED <<locations, categories, subCategories, talents, folders,
                     assets, saved>>
  BY DEF CityRemove, taxonomy, media
<1>2. TablesOK' /\ KeepsTalents
  BY <1>1, TypeParts DEF IInv, TablesOK, KeepsTalents, HasTalent
<1>3. PlacesExist' /\ TalentsHold'
  BY <1>1 DEF IInv, ReferencesExist, PlacesExist, TalentsHold, RowHolds,
             CityInUse, LocationIds, SubCategoryIds, HasTalent
<1>4. ReferencesExist'
  BY <1>1, <1>3 DEF IInv, ReferencesExist, PlacesExist, TalentsHold, RowHolds,
                    LocationIds, SubCategoryIds, HasTalent, FolderIds, Found
<1>5. QED BY <1>1, <1>2, <1>4, AtOnceStep

LEMMA LocationIsPut ==
  ASSUME IInv, NEW h \in Slots, NEW l \in Locations, NEW c \in Cities,
         LocationCreate(h, l, c) \/ LocationUpdate(h, l, c)
  PROVE  IInv'
<1>1. /\ AtOnce(h, "places") /\ c \in cities
      /\ locations' = [locations EXCEPT ![l] = c]
      /\ UNCHANGED <<cities, categories, subCategories, talents, folders,
                     assets, saved>>
  BY DEF LocationCreate, LocationUpdate, taxonomy, media
<1>2. TablesOK' /\ KeepsTalents
  BY <1>1, TypeParts DEF IInv, TablesOK, KeepsTalents, HasTalent
<1>3. LocationIds \subseteq LocationIds' /\ PlacesExist'
  BY <1>1, TypeParts, NoneAssumption
     DEF IInv, TablesOK, ReferencesExist, PlacesExist, LocationIds
<1>4. ReferencesExist'
  BY <1>1, <1>3 DEF IInv, ReferencesExist, PlacesExist, SubCategoryIds,
                    HasTalent, FolderIds, Found
<1>5. QED BY <1>1, <1>2, <1>4, AtOnceStep

LEMMA LocationsGo ==
  ASSUME IInv, NEW h \in Slots, NEW ids \in SUBSET Locations,
         LocationRemove(h, ids)
  PROVE  IInv'
<1>1. /\ AtOnce(h, "places")
      /\ locations' = [l \in Locations |-> IF l \in ids THEN None ELSE locations[l]]
      /\ talents' = Unlocated(ids)
      /\ UNCHANGED <<cities, categories, subCategories, folders, assets, saved>>
  BY DEF LocationRemove, taxonomy, media
<1>2. TablesOK /\ ReferencesExist
  BY TypeParts DEF IInv
<1>3. ASSUME NEW t \in Talents, HasTalent(t)
      PROVE  /\ talents'[t] \in TalentRow /\ talents'[t] # NoTalent
             /\ talents'[t].city = talents[t].city
             /\ \/ talents'[t].location = None
                \/ talents'[t].location = talents[t].location
                     /\ talents[t].location \notin ids
             /\ talents'[t].categories = talents[t].categories
             /\ talents'[t].subCategories = talents[t].subCategories
  <2>1. PICK row : row = talents[t] /\ row \in TalentRow
    BY <1>2, <1>3, Rows
  <2>2. PICK new : new = [row EXCEPT !.location = None]
    OBVIOUS
  <2>3. /\ new \in TalentRow /\ new.city = row.city /\ new.location = None
        /\ new.categories = row.categories
        /\ new.subCategories = row.subCategories
    BY <2>1, <2>2, RowEdited
  <2>4. talents'[t] = IF row.location \in ids THEN new ELSE row
    BY <1>1, <1>3, <2>1, <2>2 DEF Unlocated
  <2>5. QED BY <1>2, <2>1, <2>3, <2>4, Rows
<1>4. ASSUME NEW t \in Talents, ~ HasTalent(t) PROVE talents'[t] = NoTalent
  BY <1>1, <1>4 DEF Unlocated, HasTalent
<1>5. TablesOK' /\ KeepsTalents
  <2>1. \A t \in Talents : talents'[t] \in {NoTalent} \cup TalentRow
    BY <1>3, <1>4
  <2>2. talents' \in [Talents -> {NoTalent} \cup TalentRow]
    BY <1>1, <2>1 DEF Unlocated
  <2>3. QED BY <1>1, <1>2, <1>3, <2>2 DEF TablesOK, KeepsTalents
<1>6. /\ \A l \in Locations : locations'[l] = IF l \in ids THEN None ELSE locations[l]
      /\ LocationIds' = LocationIds \ ids
  BY <1>1 DEF LocationIds
<1>7. TalentsHold'
  <2> SUFFICES ASSUME NEW t \in Talents, HasTalent(t)' PROVE RowHolds(talents[t])'
    BY DEF TalentsHold
  <2>1. HasTalent(t)
    BY <1>4 DEF HasTalent
  <2>2. RowHolds(talents[t])
    BY <1>2, <2>1, ReferenceParts DEF TalentsHold
  <2>3. QED BY <1>1, <1>3, <1>6, <2>1, <2>2 DEF RowHolds, SubCategoryIds
<1>8. PlacesExist'
  BY <1>1, <1>2, <1>6 DEF PlacesExist, ReferencesExist, LocationIds
<1>9. ReferencesExist'
  BY <1>1, <1>2, <1>7, <1>8
     DEF ReferencesExist, PlacesExist, TalentsHold, RowHolds, SubCategoryIds,
         FolderIds, Found
<1>10. QED BY <1>1, <1>5, <1>9, AtOnceStep

LEMMA OneNewCategory ==
  ASSUME IInv, NEW h \in Slots, NEW c \in Categories, CategoryCreate(h, c)
  PROVE  IInv'
<1>1. /\ AtOnce(h, "taxonomy") /\ categories' = categories \cup {c}
      /\ UNCHANGED <<cities, locations, subCategories, talents, folders,
                     assets, saved>>
  BY DEF CategoryCreate, places, media
<1>2. TablesOK' /\ KeepsTalents
  BY <1>1, TypeParts DEF IInv, TablesOK, KeepsTalents, HasTalent
<1>3. ParentsExist' /\ TalentsHold'
  BY <1>1 DEF IInv, ReferencesExist, ParentsExist, TalentsHold, RowHolds,
              LocationIds, SubCategoryIds, HasTalent
<1>4. ReferencesExist'
  BY <1>1, <1>3 DEF IInv, ReferencesExist, ParentsExist, TalentsHold, RowHolds,
                    LocationIds, SubCategoryIds, HasTalent, FolderIds, Found
<1>5. QED BY <1>1, <1>2, <1>4, AtOnceStep

LEMMA SubCategoryIsPut ==
  ASSUME IInv, NEW h \in Slots, NEW s \in SubCategories, NEW c \in Categories,
         SubCategoryCreate(h, s, c) \/ SubCategoryUpdate(h, s, c)
  PROVE  IInv'
<1>1. /\ AtOnce(h, "taxonomy") /\ c \in categories
      /\ subCategories' = [subCategories EXCEPT ![s] = c]
      /\ UNCHANGED <<cities, locations, categories, talents, folders, assets,
                     saved>>
  BY DEF SubCategoryCreate, SubCategoryUpdate, places, media
<1>2. TablesOK' /\ KeepsTalents
  BY <1>1, TypeParts DEF IInv, TablesOK, KeepsTalents, HasTalent
<1>3. SubCategoryIds \subseteq SubCategoryIds' /\ ParentsExist'
  BY <1>1, TypeParts, NoneAssumption
     DEF IInv, TablesOK, ReferencesExist, ParentsExist, SubCategoryIds
<1>4. TalentsHold'
  BY <1>1, <1>3 DEF IInv, ReferencesExist, TalentsHold, RowHolds, LocationIds,
                    HasTalent
<1>5. ReferencesExist'
  BY <1>1, <1>3, <1>4
     DEF IInv, ReferencesExist, ParentsExist, TalentsHold, RowHolds, LocationIds,
         SubCategoryIds, HasTalent, FolderIds, Found
<1>6. QED BY <1>1, <1>2, <1>5, AtOnceStep

(* Tags go with their rows, on every talent.                               *)
LEMMA TagsGo ==
  ASSUME IInv, NEW h \in Slots, AtOnce(h, "taxonomy"),
         NEW cats \in SUBSET Categories, NEW subs \in SUBSET SubCategories,
         categories' = categories \ cats,
         subCategories' = [s \in SubCategories |->
           IF s \in subs THEN None ELSE subCategories[s]],
         \A s \in SubCategories : subCategories[s] \in cats => s \in subs,
         Untagged(cats, subs),
         UNCHANGED <<cities, locations, folders, assets, saved>>
  PROVE  IInv'
<1>1. TablesOK /\ ReferencesExist
  BY TypeParts DEF IInv
<1>2. ASSUME NEW t \in Talents, HasTalent(t)
      PROVE  /\ talents'[t] \in TalentRow /\ talents'[t] # NoTalent
             /\ talents'[t].city = talents[t].city
             /\ talents'[t].location = talents[t].location
             /\ talents'[t].categories = talents[t].categories \ cats
             /\ talents'[t].subCategories = talents[t].subCategories \ subs
  <2>1. PICK row : row = talents[t] /\ row \in TalentRow
    BY <1>1, <1>2, Rows
  <2>2. PICK new : new = [row EXCEPT !.categories = @ \ cats,
                                     !.subCategories = @ \ subs]
    OBVIOUS
  <2>3. /\ new \in TalentRow /\ new.city = row.city
        /\ new.location = row.location
        /\ new.categories = row.categories \ cats
        /\ new.subCategories = row.subCategories \ subs
    BY <2>1, <2>2 DEF TalentRow
  <2>4. talents'[t] = new
    BY <1>2, <2>1, <2>2 DEF Untagged
  <2>5. QED BY <1>1, <2>1, <2>3, <2>4, Rows
<1>3. ASSUME NEW t \in Talents, ~ HasTalent(t) PROVE talents'[t] = NoTalent
  BY <1>3 DEF Untagged
<1>4. TablesOK' /\ KeepsTalents
  <2>1. \A t \in Talents : talents'[t] \in {NoTalent} \cup TalentRow
    BY <1>2, <1>3
  <2>2. talents' \in [Talents -> {NoTalent} \cup TalentRow]
    BY <2>1 DEF Untagged
  <2>3. QED BY <1>1, <1>2, <2>2 DEF TablesOK, KeepsTalents
<1>5. SubCategoryIds' = SubCategoryIds \ subs
  BY DEF SubCategoryIds
<1>6. TalentsHold'
  <2> SUFFICES ASSUME NEW t \in Talents, HasTalent(t)' PROVE RowHolds(talents[t])'
    BY DEF TalentsHold
  <2>1. HasTalent(t)
    BY <1>3 DEF HasTalent
  <2>2. RowHolds(talents[t])
    BY <1>1, <2>1, ReferenceParts DEF TalentsHold
  <2>3. QED BY <1>2, <1>5, <2>1, <2>2 DEF RowHolds, LocationIds
<1>7. ParentsExist'
  BY <1>1, <1>5 DEF ParentsExist, ReferencesExist, SubCategoryIds
<1>8. ReferencesExist'
  BY <1>1, <1>6, <1>7
     DEF ReferencesExist, ParentsExist, TalentsHold, RowHolds, LocationIds,
         FolderIds, Found
<1>9. QED BY <1>4, <1>8, AtOnceStep

LEMMA CategoriesGo ==
  ASSUME IInv, NEW h \in Slots, NEW ids \in SUBSET Categories,
         CategoryRemove(h, ids)
  PROVE  IInv'
<1>1. /\ SubCategoriesOf(ids) \in SUBSET SubCategories
      /\ \A s \in SubCategories : subCategories[s] \in ids => s \in SubCategoriesOf(ids)
  BY DEF SubCategoriesOf
<1>2. PICK subs \in SUBSET SubCategories : subs = SubCategoriesOf(ids)
  BY <1>1
<1>3. /\ AtOnce(h, "taxonomy") /\ categories' = categories \ ids
      /\ subCategories' = [s \in SubCategories |->
           IF s \in subs THEN None ELSE subCategories[s]]
      /\ Untagged(ids, subs)
      /\ UNCHANGED <<cities, locations, folders, assets, saved>>
  BY <1>2 DEF CategoryRemove, places, media
<1>4. QED BY <1>1, <1>2, <1>3, TagsGo

LEMMA SubCategoriesGo ==
  ASSUME IInv, NEW h \in Slots, NEW ids \in SUBSET SubCategories,
         SubCategoryRemove(h, ids)
  PROVE  IInv'
<1>1. /\ AtOnce(h, "taxonomy") /\ categories' = categories \ {}
      /\ subCategories' = [s \in SubCategories |->
           IF s \in ids THEN None ELSE subCategories[s]]
      /\ Untagged({}, ids)
      /\ UNCHANGED <<cities, locations, folders, assets, saved>>
  BY DEF SubCategoryRemove, places, media
<1>2. QED BY <1>1, TagsGo

LEMMA LookupsKeep ==
  ASSUME IInv, LookupsNext
  PROVE  IInv'
BY OneNewCity, CitiesGo, LocationIsPut, LocationsGo, OneNewCategory,
   SubCategoryIsPut, CategoriesGo, SubCategoriesGo DEF LookupsNext

-----------------------------------------------------------------------------
(***************************************************************************)
(* TalentService.                                                          *)
(***************************************************************************)
LEMMA BodiesAreDetails == Bodies \subseteq Details
  BY DEF Bodies

LEMMA DetailsArePatches ==
  ASSUME NEW body \in Details
  PROVE  /\ IsPatch(body)
         /\ \A fields \in SUBSET TalentFields : IsPatch([f \in fields |-> body[f]])
  BY DEF Details, IsPatch, TalentFields

LEMMA CreateIsChecked ==
  ASSUME IInv, NEW h \in Slots, NEW t \in Talents, TalentCreateCheck(h, t)
  PROVE  IInv'
<1>1. PICK body \in Details :
        Begin(h, "talents",
              [op |-> "create", talent |-> t, patch |-> body, seen |-> {}])
  BY BodiesAreDetails DEF TalentCreateCheck
<1>2. PICK r : r = [op |-> "create", talent |-> t, patch |-> body, seen |-> {}]
  OBVIOUS
<1>3. ReqOK(r) /\ RequestKnows(r)
  BY <1>2, DetailsArePatches DEF ReqOK, RequestKnows
<1>4. /\ req' = [req EXCEPT ![h] = r] /\ workload' = workload
      /\ overlapped' \in BOOLEAN
      /\ UNCHANGED <<places, taxonomy, talents, media, saved>>
  BY <1>1, <1>2, TypeParts DEF Begin, IInv, TalentCreateCheck
<1>5. QED BY <1>3, <1>4, ReadStep

LEMMA UpdateIsChecked ==
  ASSUME IInv, NEW h \in Slots, NEW t \in Talents, TalentUpdateCheck(h, t)
  PROVE  IInv'
<1>0. workload.fields \subseteq TalentFields
  BY TypeParts, FieldsAssumption DEF IInv
<1>1. PICK body \in Details, fields \in SUBSET workload.fields :
        Begin(h, "talents",
              [op |-> "update", talent |-> t,
               patch |-> [f \in fields |-> body[f]], seen |-> {}])
  BY BodiesAreDetails DEF TalentUpdateCheck
<1>2. PICK r : r = [op |-> "update", talent |-> t,
                    patch |-> [f \in fields |-> body[f]], seen |-> {}]
  OBVIOUS
<1>3. IsPatch([f \in fields |-> body[f]])
  BY <1>0, DetailsArePatches
<1>4. ReqOK(r) /\ RequestKnows(r)
  BY <1>2, <1>3 DEF ReqOK, RequestKnows, TalentUpdateCheck, LiveTalent
<1>5. /\ req' = [req EXCEPT ![h] = r] /\ workload' = workload
      /\ overlapped' \in BOOLEAN
      /\ UNCHANGED <<places, taxonomy, talents, media, saved>>
  BY <1>1, <1>2, TypeParts DEF Begin, IInv, TalentUpdateCheck
<1>6. QED BY <1>4, <1>5, ReadStep

(* What a request is and knows, at its slot.                               *)
LEMMA RequestAt ==
  ASSUME IInv, NEW h \in Slots
  PROVE  ReqOK(req[h]) /\ RequestKnows(req[h])
  BY TypeParts DEF IInv, RequestsOK, RequestsKnow

LEMMA RosterReads ==
  ASSUME IInv, NEW h \in Slots, TalentUpdateClear(h) \/ TalentUpdateClearSub(h)
  PROVE  IInv'
<1>1. PICK q : q = req[h] /\ ReqOK(q) /\ RequestKnows(q)
  BY RequestAt
<1>2. /\ q.op \in {"update", "clear"} /\ HasTalent(q.talent)
      /\ q.talent \in Talents /\ IsPatch(q.patch)
      /\ q.seen \subseteq Categories \cup SubCategories
  BY <1>1, ReqTypes DEF TalentUpdateClear, TalentUpdateClearSub, RequestKnows
<1>3. talents[q.talent] \in TalentRow
  BY <1>2, TypeParts, Rows DEF IInv
<1>4. /\ talents[q.talent].categories \subseteq Categories
      /\ talents[q.talent].subCategories \subseteq SubCategories
  BY <1>3, RowEdited
<1>5. PICK seen : /\ seen \subseteq Categories \cup SubCategories
                  /\ \/ req' = [req EXCEPT ![h] = [q EXCEPT !.op = "clear",
                                                            !.seen = seen]]
                     \/ req' = [req EXCEPT ![h] = [q EXCEPT !.op = "commit",
                                                            !.seen = seen]]
  <2>1. CASE TalentUpdateClear(h)
    <3>1. PICK seen : seen = IF "categories" \in DOMAIN q.patch
                             THEN talents[q.talent].categories ELSE {}
      OBVIOUS
    <3>2. req' = [req EXCEPT ![h] = [q EXCEPT !.op = "clear", !.seen = seen]]
      BY <1>1, <2>1, <3>1 DEF TalentUpdateClear, Proceed
    <3>3. QED BY <1>4, <3>1, <3>2
  <2>2. CASE TalentUpdateClearSub(h)
    <3>1. PICK seen : seen = q.seen \cup IF "subCategories" \in DOMAIN q.patch
                                         THEN talents[q.talent].subCategories
                                         ELSE {}
      OBVIOUS
    <3>2. req' = [req EXCEPT ![h] = [q EXCEPT !.op = "commit", !.seen = seen]]
      BY <1>1, <1>2, <2>2, <3>1 DEF TalentUpdateClearSub, Proceed
    <3>3. QED BY <1>2, <1>4, <3>1, <3>2
  <2>3. QED BY <2>1, <2>2
<1>6. DOMAIN q = {"op", "talent", "patch", "seen"}
  BY <1>1, <1>2 DEF ReqOK, Idle
<1>7. PICK r : /\ req' = [req EXCEPT ![h] = r]
               /\ \/ r = [q EXCEPT !.op = "clear", !.seen = seen]
                  \/ r = [q EXCEPT !.op = "commit", !.seen = seen]
  BY <1>5
<1>8. /\ DOMAIN r = {"op", "talent", "patch", "seen"}
      /\ r.op \in {"clear", "commit"} /\ r.talent = q.talent
      /\ r.patch = q.patch /\ r.seen = seen
  BY <1>6, <1>7
<1>9. ReqOK(r) /\ RequestKnows(r)
  BY <1>2, <1>5, <1>8 DEF ReqOK, RequestKnows
<1>10. /\ workload' = workload /\ overlapped' \in BOOLEAN
       /\ UNCHANGED <<places, taxonomy, talents, media, saved>>
  BY TypeParts DEF IInv, TalentUpdateClear, TalentUpdateClearSub, Proceed
<1>11. QED BY <1>7, <1>9, <1>10, ReadStep

(* One row of talents, all of whose references hold, is written.           *)
LEMMA RowWritten ==
  ASSUME IInv, NEW t \in Talents, NEW row \in TalentRow, RowHolds(row),
         talents' = [talents EXCEPT ![t] = row],
         UNCHANGED <<places, taxonomy, media>>
  PROVE  TablesOK' /\ KeepsTalents /\ ReferencesExist'
<1>1. TablesOK /\ ReferencesExist /\ row # NoTalent
  BY TypeParts, Rows DEF IInv
<1>2. TablesOK' /\ KeepsTalents
  BY <1>1 DEF TablesOK, KeepsTalents, HasTalent, places, taxonomy, media
<1>3. /\ cities' = cities /\ locations' = locations /\ categories' = categories
      /\ subCategories' = subCategories /\ folders' = folders
      /\ assets' = assets
  BY DEF places, taxonomy, media
<1>4. TalentsHold'
  <2> SUFFICES ASSUME NEW u \in Talents, HasTalent(u)' PROVE RowHolds(talents[u])'
    BY DEF TalentsHold
  <2>1. CASE u = t
    BY <1>1, <1>3, <2>1 DEF TablesOK, RowHolds, LocationIds, SubCategoryIds
  <2>2. CASE u # t
    <3>1. talents'[u] = talents[u] /\ RowHolds(talents[u])
      BY <1>1, <2>2, ReferenceParts DEF TablesOK, TalentsHold, HasTalent
    <3>2. QED BY <1>3, <3>1 DEF RowHolds, LocationIds, SubCategoryIds
  <2>3. QED BY <2>1, <2>2
<1>5. ReferencesExist'
  BY <1>1, <1>3, <1>4
     DEF ReferencesExist, TalentsHold, RowHolds, LocationIds, SubCategoryIds,
         FolderIds, Found
<1>6. QED BY <1>2, <1>5

LEMMA CreateCommits ==
  ASSUME IInv, NEW h \in Slots, TalentCreateCommit(h)
  PROVE  IInv'
<1>1. PICK q : q = req[h] /\ ReqOK(q) /\ RequestKnows(q)
  BY RequestAt
<1>2. /\ q.op = "create" /\ q.talent \in Talents /\ q.patch \in Details
      /\ req' = [req EXCEPT ![h] = Idle] /\ workload' = workload
      /\ overlapped' = overlapped
      /\ UNCHANGED <<places, taxonomy, media>>
  BY <1>1, ReqTypes DEF TalentCreateCommit, RequestKnows, Finish, Proceed
<1>3. TablesOK' /\ KeepsTalents /\ ReferencesExist' /\ SavedOK'
  <2>1. CASE ReferencesHold(q.patch)
    <3>1. PICK row : row = [f \in {"deleted"} \cup DOMAIN q.patch |->
                              IF f = "deleted" THEN FALSE ELSE q.patch[f]]
      OBVIOUS
    <3>2. /\ row \in TalentRow /\ row.city = q.patch.city
          /\ row.location = q.patch.location
          /\ row.categories = q.patch.categories
          /\ row.subCategories = q.patch.subCategories
      BY <1>2, <3>1 DEF Details, TalentRow
    <3>3. RowHolds(row)
      BY <1>2, <2>1, <3>2 DEF ReferencesHold, RowHolds, Details
    <3>4. /\ talents' = [talents EXCEPT ![q.talent] = row]
          /\ saved' = [saved EXCEPT ![q.talent] = Tags(row)]
      BY <1>1, <2>1, <3>1 DEF TalentCreateCommit
    <3>5. SavedOK'
      BY <3>2, <3>4, TypeParts DEF IInv, SavedOK, Tags, TalentRow
    <3>6. QED BY <1>2, <3>2, <3>3, <3>4, <3>5, RowWritten
  <2>2. CASE ~ ReferencesHold(q.patch)
    <3>1. talents' = talents /\ saved' = saved
      BY <1>1, <2>2 DEF TalentCreateCommit
    <3>2. QED
      BY <1>2, <3>1, TypeParts
         DEF IInv, TablesOK, SavedOK, KeepsTalents, HasTalent, ReferencesExist,
             LocationIds, SubCategoryIds, FolderIds, Found, places, taxonomy,
             media
  <2>3. QED BY <2>1, <2>2
<1>4. RequestsOK' /\ RequestsKnow'
  BY <1>2, <1>3, IdleIsOK, RequestsStep
<1>5. TypeOK'
  BY <1>2, <1>3, <1>4, TypeParts DEF IInv, TypeOK, TablesOK, SavedOK, RequestsOK
<1>6. QED BY <1>3, <1>4, <1>5 DEF IInv

LEMMA TalentsGo ==
  ASSUME IInv, NEW h \in Slots, NEW ids \in SUBSET Talents, TalentRemove(h, ids)
  PROVE  IInv'
<1>1. /\ AtOnce(h, "talents")
      /\ talents' = [t \in Talents |->
           IF t \in ids /\ LiveTalent(t)
           THEN [talents[t] EXCEPT !.deleted = TRUE] ELSE talents[t]]
      /\ UNCHANGED <<cities, locations, categories, subCategories, folders,
                     assets, saved>>
  BY DEF TalentRemove, places, taxonomy, media
<1>2. TablesOK /\ ReferencesExist
  BY TypeParts DEF IInv
<1>3. ASSUME NEW t \in Talents, HasTalent(t)
      PROVE  /\ talents'[t] \in TalentRow /\ talents'[t] # NoTalent
             /\ talents'[t].city = talents[t].city
             /\ talents'[t].location = talents[t].location
             /\ talents'[t].categories = talents[t].categories
             /\ talents'[t].subCategories = talents[t].subCategories
  <2>1. PICK row : row = talents[t] /\ row \in TalentRow
    BY <1>2, <1>3, Rows
  <2>2. PICK new : new = [row EXCEPT !.deleted = TRUE]
    OBVIOUS
  <2>3. /\ new \in TalentRow /\ new.city = row.city
        /\ new.location = row.location
        /\ new.categories = row.categories
        /\ new.subCategories = row.subCategories
    BY <2>1, <2>2, RowEdited
  <2>4. talents'[t] \in {new, row}
    BY <1>1, <2>1, <2>2
  <2>5. QED BY <1>2, <2>1, <2>3, <2>4, Rows
<1>4. ASSUME NEW t \in Talents, ~ HasTalent(t) PROVE talents'[t] = NoTalent
  BY <1>1, <1>4 DEF LiveTalent, HasTalent
<1>5. TablesOK' /\ KeepsTalents
  <2>1. \A t \in Talents : talents'[t] \in {NoTalent} \cup TalentRow
    BY <1>3, <1>4
  <2>2. talents' \in [Talents -> {NoTalent} \cup TalentRow]
    BY <1>1, <2>1
  <2>3. QED BY <1>1, <1>2, <1>3, <2>2 DEF TablesOK, KeepsTalents
<1>6. TalentsHold'
  <2> SUFFICES ASSUME NEW t \in Talents, HasTalent(t)' PROVE RowHolds(talents[t])'
    BY DEF TalentsHold
  <2>1. HasTalent(t)
    BY <1>4 DEF HasTalent
  <2>2. RowHolds(talents[t])
    BY <1>2, <2>1, ReferenceParts DEF TalentsHold
  <2>3. QED BY <1>1, <1>3, <2>1, <2>2 DEF RowHolds, LocationIds, SubCategoryIds
<1>7. ReferencesExist'
  BY <1>1, <1>2, <1>6
     DEF ReferencesExist, TalentsHold, RowHolds, LocationIds, SubCategoryIds,
         FolderIds, Found
<1>8. QED BY <1>1, <1>5, <1>7, AtOnceStep

(* What the commit of an update leaves in the row has references that hold:*)
(* those it sets by the foreign keys, those it leaves by the invariant.    *)
LEMMA UpdatedRow ==
  ASSUME IInv, NEW q, ReqOK(q), q.op = "commit", HasTalent(q.talent),
         ReferencesHold(q.patch),
         NEW row, row = Updated(q, talents[q.talent])
  PROVE  row \in TalentRow /\ RowHolds(row)
<1>1. q.talent \in Talents /\ IsPatch(q.patch)
  BY ReqTypes
<1>2. PICK old : old = talents[q.talent] /\ old \in TalentRow /\ RowHolds(old)
  BY <1>1, TypeParts, Rows, ReferenceParts DEF IInv, TalentsHold
<1>3. row = [f \in DOMAIN old |->
               IF f \notin DOMAIN q.patch THEN old[f]
               ELSE IF f \in {"categories", "subCategories"}
                    THEN (old[f] \ q.seen) \cup q.patch[f]
                    ELSE q.patch[f]]
  BY <1>2 DEF Updated, Left
<1>4. DOMAIN old = {"deleted", "isFeatured", "city", "location", "categories",
                    "subCategories", "preferredCities"}
  BY <1>2 DEF TalentRow
<1>5. /\ row.deleted = old.deleted
      /\ row.isFeatured = IF "isFeatured" \in DOMAIN q.patch
                          THEN q.patch.isFeatured ELSE old.isFeatured
      /\ row.city = IF "city" \in DOMAIN q.patch THEN q.patch.city ELSE old.city
      /\ row.location = IF "location" \in DOMAIN q.patch
                        THEN q.patch.location ELSE old.location
      /\ row.preferredCities = IF "preferredCities" \in DOMAIN q.patch
                THEN q.patch.preferredCities ELSE old.preferredCities
  BY <1>1, <1>3, <1>4 DEF IsPatch, TalentFields
<1>6. /\ row.categories = IF "categories" \in DOMAIN q.patch
                          THEN (old.categories \ q.seen) \cup q.patch.categories
                          ELSE old.categories
      /\ row.subCategories = IF "subCategories" \in DOMAIN q.patch
                THEN (old.subCategories \ q.seen) \cup q.patch.subCategories
                ELSE old.subCategories
  BY <1>3, <1>4
<1>7. row \in TalentRow
  <2>1. /\ row.deleted \in BOOLEAN /\ row.isFeatured \in BOOLEAN
        /\ row.city \in Cities /\ row.location \in Locations \cup {None}
        /\ row.preferredCities \subseteq Cities
    BY <1>1, <1>2, <1>5 DEF IsPatch, TalentRow
  <2>2. /\ row.categories \subseteq Categories
        /\ row.subCategories \subseteq SubCategories
    BY <1>1, <1>2, <1>6 DEF IsPatch, TalentRow
  <2>3. QED BY <1>3, <1>4, <2>1, <2>2 DEF TalentRow
<1>8. RowHolds(row)
  BY <1>2, <1>5, <1>6 DEF RowHolds, ReferencesHold
<1>9. QED BY <1>7, <1>8

LEMMA UpdateCommits ==
  ASSUME IInv, NEW h \in Slots, TalentUpdateCommit(h)
  PROVE  IInv'
<1>1. PICK q : q = req[h] /\ ReqOK(q) /\ RequestKnows(q)
  BY RequestAt
<1>2. /\ q.op = "commit" /\ q.talent \in Talents /\ IsPatch(q.patch)
      /\ HasTalent(q.talent)
      /\ UNCHANGED <<places, taxonomy, media>>
  BY <1>1, ReqTypes DEF TalentUpdateCommit, RequestKnows
<1>3. CASE ReferencesHold(q.patch) /\ PrimaryKeysHold(q)
  <2>1. PICK row : row = Updated(q, talents[q.talent])
    OBVIOUS
  <2>2. /\ talents' = [talents EXCEPT ![q.talent] = row]
        /\ saved' = [saved EXCEPT ![q.talent] =
             [f \in DOMAIN @ |-> IF f \in DOMAIN q.patch THEN q.patch[f] ELSE @[f]]]
        /\ req' = [k \in Slots |->
             IF k = h THEN Idle
             ELSE IF req[k].op \in {"clear", "commit"} /\ req[k].talent = q.talent
             THEN [req[k] EXCEPT !.seen = @ \ q.seen] ELSE req[k]]
        /\ workload' = workload /\ overlapped' = overlapped
    BY <1>1, <1>3, <2>1 DEF TalentUpdateCommit
  <2>3. TablesOK' /\ KeepsTalents /\ ReferencesExist'
    BY <1>1, <1>2, <1>3, <2>1, <2>2, UpdatedRow, RowWritten
  <2>4. SavedOK'
    BY <1>2, <2>2, TypeParts DEF IInv, SavedOK, IsPatch
  <2>5. ASSUME NEW k \in Slots PROVE ReqOK(req'[k]) /\ RequestKnows(req[k])'
    <3>1. PICK p : p = req[k] /\ ReqOK(p) /\ RequestKnows(p)
      BY RequestAt
    <3>2. CASE k = h
      BY <2>2, <3>2 DEF ReqOK, RequestKnows, Idle
    <3>3. CASE k # h /\ p.op \in {"clear", "commit"} /\ p.talent = q.talent
      <4>1. DOMAIN p = {"op", "talent", "patch", "seen"}
        BY <3>1, <3>3 DEF ReqOK, Idle
      <4>2. PICK r : r = [p EXCEPT !.seen = @ \ q.seen] /\ r = req'[k]
        BY <2>2, <3>1, <3>3
      <4>3. /\ DOMAIN r = {"op", "talent", "patch", "seen"}
            /\ r.op = p.op /\ r.talent = p.talent /\ r.patch = p.patch
            /\ r.seen = p.seen \ q.seen
        BY <4>1, <4>2
      <4>4. /\ p.talent \in Talents /\ IsPatch(p.patch)
            /\ p.seen \subseteq Categories \cup SubCategories
            /\ HasTalent(p.talent)
        BY <3>1, <3>3, ReqTypes DEF RequestKnows
      <4>5. ReqOK(r)
        BY <3>3, <4>3, <4>4 DEF ReqOK
      <4>6. RequestKnows(r)'
        BY <2>3, <3>3, <4>3, <4>4 DEF RequestKnows, KeepsTalents, HasTalent
      <4>7. QED BY <4>2, <4>5, <4>6 DEF RequestKnows, HasTalent
    <3>4. CASE k # h /\ ~ (p.op \in {"clear", "commit"} /\ p.talent = q.talent)
      <4>1. req'[k] = p
        BY <2>2, <3>1, <3>4
      <4>2. RequestKnows(p)'
        BY <2>3, <3>1, ReqTypes DEF RequestKnows, KeepsTalents, HasTalent
      <4>3. QED BY <3>1, <4>1, <4>2 DEF RequestKnows, HasTalent
    <3>5. QED BY <3>2, <3>3, <3>4
  <2>6. RequestsOK' /\ RequestsKnow'
    BY <2>2, <2>5 DEF RequestsOK, RequestsKnow
  <2>7. TypeOK'
    BY <2>2, <2>3, <2>4, <2>6, TypeParts
       DEF IInv, TypeOK, TablesOK, SavedOK, RequestsOK
  <2>8. QED BY <2>3, <2>6, <2>7 DEF IInv
<1>4. CASE ~ (ReferencesHold(q.patch) /\ PrimaryKeysHold(q))
  <2>1. /\ req' = [req EXCEPT ![h] = Idle] /\ workload' = workload
        /\ overlapped' \in BOOLEAN
        /\ UNCHANGED <<places, taxonomy, talents, media, saved>>
    BY <1>1, <1>2, <1>4, TypeParts DEF IInv, TalentUpdateCommit, Finish, Proceed
  <2>2. QED BY <2>1, IdleIsOK, ReadStep
<1>5. QED BY <1>3, <1>4

LEMMA RosterKeeps ==
  ASSUME IInv, RosterNext
  PROVE  IInv'
BY CreateIsChecked, UpdateIsChecked, CreateCommits, RosterReads, UpdateCommits,
   TalentsGo DEF RosterNext

-----------------------------------------------------------------------------
(***************************************************************************)
(* The media folders.  The find before a write is only a courtesy: the     *)
(* foreign keys check again what it found, and a removal unfiles what it   *)
(* did not count.                                                          *)
(***************************************************************************)
LEMMA FoldersStep ==
  ASSUME IInv, NEW h \in Slots, req' = [req EXCEPT ![h] = Idle],
         folders' \in [Folders -> Folders \cup {Root, None}],
         assets' \in [Assets -> Folders \cup {Root, None}],
         FoldersHold',
         UNCHANGED <<places, taxonomy, talents, workload, saved, overlapped>>
  PROVE  IInv'
<1>1. KeepsTalents
  BY DEF KeepsTalents, HasTalent
<1>2. RequestsOK' /\ RequestsKnow'
  BY <1>1, IdleIsOK, RequestsStep
<1>3. TypeOK'
  BY <1>2, TypeParts
     DEF IInv, TypeOK, TablesOK, SavedOK, RequestsOK, places, taxonomy
<1>4. ReferencesExist'
  BY DEF IInv, ReferencesExist, LocationIds, SubCategoryIds, HasTalent,
         FoldersHold, places, taxonomy
<1>5. QED BY <1>2, <1>3, <1>4 DEF IInv

LEMMA FolderReads ==
  ASSUME IInv, NEW h \in Slots, NEW dest \in Folders \cup {Root},
         \/ FolderCreateFind(h, dest)
         \/ \E f \in Folders : FolderUpdateFind(h, f, dest) \/ FolderRemoveFind(h, f)
         \/ \E ids \in SUBSET Assets : FileFind(h, dest, ids)
  PROVE  IInv'
<1>1. PICK r : Begin(h, "folders", r) /\ ReqOK(r) /\ RequestKnows(r)
  <2>1. CASE FolderCreateFind(h, dest)
    BY <2>1 DEF FolderCreateFind, ReqOK, RequestKnows
  <2>2. ASSUME NEW f \in Folders, FolderUpdateFind(h, f, dest)
        PROVE  \E r : Begin(h, "folders", r) /\ ReqOK(r) /\ RequestKnows(r)
    BY <2>2 DEF FolderUpdateFind, ReqOK, RequestKnows
  <2>3. ASSUME NEW f \in Folders, FolderRemoveFind(h, f)
        PROVE  \E r : Begin(h, "folders", r) /\ ReqOK(r) /\ RequestKnows(r)
    BY <2>3 DEF FolderRemoveFind, ReqOK, RequestKnows
  <2>4. ASSUME NEW ids \in SUBSET Assets, FileFind(h, dest, ids)
        PROVE  \E r : Begin(h, "folders", r) /\ ReqOK(r) /\ RequestKnows(r)
    BY <2>4 DEF FileFind, ReqOK, RequestKnows
  <2>5. QED BY <2>1, <2>2, <2>3, <2>4
<1>2. /\ req' = [req EXCEPT ![h] = r] /\ workload' = workload
      /\ overlapped' \in BOOLEAN
      /\ UNCHANGED <<places, taxonomy, talents, media, saved>>
  BY <1>1, TypeParts
     DEF IInv, Begin, FolderCreateFind, FolderUpdateFind, FolderRemoveFind,
         FileFind
<1>3. QED BY <1>1, <1>2, ReadStep

LEMMA FolderCounts ==
  ASSUME IInv, NEW h \in Slots, FolderCountAssets(h) \/ FolderCountFolders(h)
  PROVE  IInv'
<1>1. PICK q : q = req[h] /\ ReqOK(q) /\ RequestKnows(q)
  BY RequestAt
<1>2. q \in [op : {"rmdir"}, folder : Folders, counted : SUBSET {"assets", "folders"}]
  BY <1>1 DEF ReqOK, Idle, FolderCountAssets, FolderCountFolders
<1>3. PICK count \in {"assets", "folders"} :
        req' = [req EXCEPT ![h] = [q EXCEPT !.counted = @ \cup {count}]]
  BY <1>1 DEF FolderCountAssets, FolderCountFolders, Proceed
<1>4. PICK r : r = [q EXCEPT !.counted = @ \cup {count}]
  OBVIOUS
<1>5. r \in [op : {"rmdir"}, folder : Folders, counted : SUBSET {"assets", "folders"}]
  BY <1>2, <1>4
<1>6. ReqOK(r) /\ RequestKnows(r)
  BY <1>5 DEF ReqOK, RequestKnows
<1>7. /\ workload' = workload /\ overlapped' \in BOOLEAN
      /\ UNCHANGED <<places, taxonomy, talents, media, saved>>
  BY TypeParts DEF IInv, FolderCountAssets, FolderCountFolders, Proceed
<1>8. QED BY <1>3, <1>4, <1>6, <1>7, ReadStep

LEMMA FolderIsPut ==
  ASSUME IInv, NEW h \in Slots, FolderCreate(h) \/ FolderUpdate(h)
  PROVE  IInv'
<1>1. PICK q : q = req[h] /\ ReqOK(q)
  BY RequestAt
<1>2. TablesOK /\ FoldersHold
  BY TypeParts, ReferenceParts DEF IInv
<1>3. PICK f \in Folders, parent \in Folders \cup {Root} :
        Found(parent) /\ folders' = [folders EXCEPT ![f] = parent]
  BY <1>1 DEF FolderCreate, FolderUpdate, ReqOK, Idle
<1>4. /\ folders' \in [Folders -> Folders \cup {Root, None}]
      /\ assets' \in [Assets -> Folders \cup {Root, None}]
      /\ assets' = assets
  BY <1>2, <1>3 DEF TablesOK, FolderCreate, FolderUpdate
<1>5. parent # None
  BY <1>3, NoneAssumption DEF Root, None
<1>6. FolderIds' = FolderIds \cup {f}
  BY <1>2, <1>3, <1>5 DEF FolderIds, TablesOK
<1>7. FoldersHold'
  BY <1>2, <1>3, <1>4, <1>6 DEF FoldersHold, TablesOK, Found
<1>8. /\ req' = [req EXCEPT ![h] = Idle]
      /\ UNCHANGED <<places, taxonomy, talents, workload, saved, overlapped>>
  BY DEF FolderCreate, FolderUpdate, Finish, Proceed
<1>9. QED BY <1>4, <1>7, <1>8, FoldersStep

LEMMA FolderGoes ==
  ASSUME IInv, NEW h \in Slots, FolderRemove(h)
  PROVE  IInv'
<1>1. PICK q : q = req[h] /\ ReqOK(q)
  BY RequestAt
<1>2. TablesOK /\ FoldersHold
  BY TypeParts, ReferenceParts DEF IInv
<1>3. q.folder \in Folders
  BY <1>1 DEF FolderRemove, ReqOK, Idle
<1>4. /\ folders' = [f \in Folders |->
           IF f = q.folder THEN None
           ELSE IF folders[f] = q.folder THEN Root ELSE folders[f]]
      /\ assets' = [a \in Assets |->
           IF assets[a] = q.folder THEN Root ELSE assets[a]]
  BY <1>1 DEF FolderRemove
<1>5. FolderIds' = FolderIds \ {q.folder}
  BY <1>3, <1>4, NoneAssumption DEF FolderIds, Root, None
<1>6. FoldersHold'
  BY <1>2, <1>4, <1>5 DEF FoldersHold, Found, FolderIds
<1>7. /\ req' = [req EXCEPT ![h] = Idle]
      /\ UNCHANGED <<places, taxonomy, talents, workload, saved, overlapped>>
  BY DEF FolderRemove, Finish, Proceed
<1>8. /\ folders' \in [Folders -> Folders \cup {Root, None}]
      /\ assets' \in [Assets -> Folders \cup {Root, None}]
  BY <1>2, <1>4 DEF TablesOK
<1>9. QED BY <1>6, <1>7, <1>8, FoldersStep

LEMMA AssetsAreFiled ==
  ASSUME IInv, NEW h \in Slots, FileAssets(h)
  PROVE  IInv'
<1>1. PICK q : q = req[h] /\ ReqOK(q)
  BY RequestAt
<1>2. TablesOK /\ FoldersHold
  BY TypeParts, ReferenceParts DEF IInv
<1>3. q.folder \in Folders \cup {Root} /\ Found(q.folder)
  BY <1>1 DEF FileAssets, ReqOK, Idle
<1>4. /\ assets' = [a \in Assets |-> IF a \in q.assets THEN q.folder ELSE assets[a]]
      /\ folders' = folders
      /\ req' = [req EXCEPT ![h] = Idle]
      /\ UNCHANGED <<places, taxonomy, talents, workload, saved, overlapped>>
  BY <1>1 DEF FileAssets, Finish, Proceed
<1>5. /\ folders' \in [Folders -> Folders \cup {Root, None}]
      /\ assets' \in [Assets -> Folders \cup {Root, None}]
  BY <1>2, <1>3, <1>4 DEF TablesOK
<1>6. FoldersHold'
  BY <1>2, <1>3, <1>4 DEF FoldersHold, Found, FolderIds
<1>7. QED BY <1>4, <1>5, <1>6, FoldersStep

-----------------------------------------------------------------------------
LEMMA InitKeeps == Init => IInv
<1> SUFFICES ASSUME Init PROVE IInv
  OBVIOUS
<1>1. TypeOK
  BY IdleIsOK DEF Init, TypeOK, NoTags
<1>2. RequestsKnow
  BY DEF Init, RequestsKnow, RequestKnows, Idle
<1>3. ReferencesExist
  BY DEF Init, ReferencesExist, LocationIds, SubCategoryIds, HasTalent,
         FolderIds, Found
<1>4. QED BY <1>1, <1>2, <1>3 DEF IInv

LEMMA StepKeeps ==
  ASSUME IInv, [Next]_catalogueVars
  PROVE  IInv'
<1>1. CASE LookupsNext
  BY <1>1, LookupsKeep
<1>2. CASE RosterNext
  BY <1>2, RosterKeeps
<1>3. CASE FoldersNext
  BY <1>3, FolderReads, FolderCounts, FolderIsPut, FolderGoes, AssetsAreFiled
     DEF FoldersNext
<1>4. ASSUME NEW h \in Slots, Abort(h) PROVE IInv'
  <2>1. /\ req' = [req EXCEPT ![h] = Idle] /\ workload' = workload
        /\ overlapped' \in BOOLEAN
        /\ UNCHANGED <<places, taxonomy, talents, media, saved>>
    BY <1>4, TypeParts DEF IInv, Abort, Finish, Proceed
  <2>2. QED BY <2>1, IdleIsOK, ReadStep
<1>5. CASE UNCHANGED catalogueVars
  BY <1>5
     DEF IInv, TypeOK, RequestsKnow, RequestKnows, ReferencesExist, LocationIds,
         SubCategoryIds, HasTalent, FolderIds, Found, catalogueVars, places,
         taxonomy, media
<1>6. QED BY <1>1, <1>2, <1>3, <1>4, <1>5 DEF Next

(* Every reachable state satisfies the inductive invariant: the tables are *)
(* typed, every update in flight is of a talent whose row is there, and    *)
(* every reference is to a row that exists.                                *)
THEOREM Invariance == Spec => []IInv
<1>1. IInv /\ [Next]_catalogueVars => IInv'
  BY StepKeeps
<1>2. QED BY InitKeeps, <1>1, PTL DEF Spec

(* The tables of catalogue and media and the requests in flight are typed. *)
THEOREM TypeCorrect == Spec => []TypeOK
<1>1. IInv => TypeOK
  BY DEF IInv
<1>2. QED BY <1>1, Invariance, PTL

(* However removals race with the writes of talents, places, tags and      *)
(* images, no reference that has a foreign key is to a row that is gone;   *)
(* it says nothing of the cities a talent prefers, which have none.        *)
THEOREM NothingDangles == Spec => []ReferencesExist
<1>1. IInv => ReferencesExist
  BY DEF IInv
<1>2. QED BY <1>1, Invariance, PTL

-----------------------------------------------------------------------------
(***************************************************************************)
(* The cap.  A talent is a candidate while it is featured or a request in  *)
(* flight will make it so; a request checked the others when it arrived.   *)
(***************************************************************************)
Asks(r) == r.op \in {"create", "update", "clear", "commit"} /\ Wants(r.patch)
Asking == {h \in Slots : Asks(req[h])}
Candidates == Featured \cup {req[h].talent : h \in Asking}

Room ==
  MAX_FEATURED_TALENTS + (IF overlapped THEN Cardinality(Slots) - 1 ELSE 0)

CandidatesFit == IsFiniteSet(Candidates) /\ Cardinality(Candidates) <= Room

(* With a request in flight in slot h: what it leaves.                     *)
Moves(h, r) ==
  /\ req' = [req EXCEPT ![h] = r]
  /\ \/ req[h] = Idle /\ overlapped' = (overlapped \/ \E k \in Slots : req[k] # Idle)
     \/ req[h] # Idle /\ overlapped' = overlapped

LEMMA BeginMoves ==
  ASSUME NEW h \in Slots, NEW operation, NEW r, Begin(h, operation, r)
  PROVE  Moves(h, r)
  BY DEF Begin, Moves

LEMMA ProceedMoves ==
  ASSUME NEW h \in Slots, NEW r, req[h] # Idle, Proceed(h, r)
  PROVE  Moves(h, r)
  BY DEF Proceed, Moves

(* A request asks for a place, in one of its four states.                  *)
LEMMA AskersAreTyped ==
  ASSUME IInv, NEW h \in Slots, Asks(req[h])
  PROVE  req[h].talent \in Talents
  BY RequestAt, ReqTypes DEF Asks

LEMMA IdleAsksNothing == ~ Asks(Idle)
  BY DEF Asks, Idle

(***************************************************************************)
(* How many candidates there is room for.                                  *)
(***************************************************************************)
LEMMA OthersCounted ==
  ASSUME NEW h \in Slots
  PROVE  /\ IsFiniteSet(Slots \ {h})
         /\ Cardinality(Slots \ {h}) = Cardinality(Slots) - 1
         /\ Cardinality(Slots \ {h}) \in Nat /\ Cardinality(Slots) \in Nat
<1>1. IsFiniteSet(Slots \ {h}) /\ Cardinality(Slots \ {h}) = Cardinality(Slots) - 1
  BY SlotsAssumption, FS_RemoveElement
<1>2. QED BY <1>1, SlotsAssumption, FS_CardinalityType

LEMMA RoomGrows ==
  ASSUME IInv, NEW h \in Slots, overlapped' \in BOOLEAN, overlapped => overlapped'
  PROVE  Room \in Nat /\ Room' \in Nat /\ Room <= Room'
<1>1. MAX_FEATURED_TALENTS \in Nat /\ Cardinality(Slots) - 1 \in Nat
  BY CapAssumption, OthersCounted
<1>2. QED BY <1>1 DEF Room

(* Fewer candidates fit as well.                                           *)
LEMMA FewerFit ==
  ASSUME IInv, CandidatesFit, NEW h \in Slots,
         overlapped' \in BOOLEAN, overlapped => overlapped',
         Candidates' \subseteq Candidates
  PROVE  CandidatesFit'
<1>1. IsFiniteSet(Candidates') /\ Cardinality(Candidates') <= Cardinality(Candidates)
  BY FS_Subset DEF CandidatesFit
<1>2. Cardinality(Candidates) \in Nat /\ Cardinality(Candidates') \in Nat
  BY <1>1, FS_CardinalityType DEF CandidatesFit
<1>3. QED BY <1>1, <1>2, RoomGrows DEF CandidatesFit

LEMMA MovesOverlap ==
  ASSUME IInv, NEW h \in Slots, NEW r, Moves(h, r)
  PROVE  overlapped' \in BOOLEAN /\ (overlapped => overlapped')
  BY TypeParts DEF IInv, Moves

(* A request goes on, and asks for nothing it did not ask for before.      *)
LEMMA NothingMoreAsked ==
  ASSUME IInv, CandidatesFit, NEW h \in Slots, NEW r, Moves(h, r),
         Asks(r) => Asks(req[h]) /\ r.talent = req[h].talent,
         Featured' \subseteq Candidates
  PROVE  CandidatesFit'
<1>1. \A k \in Slots : req'[k] = IF k = h THEN r ELSE req[k]
  BY TypeParts DEF IInv, RequestsOK, Moves
<1>2. \A k \in Slots : Asks(req'[k]) => Asks(req[k]) /\ req'[k].talent = req[k].talent
  BY <1>1
<1>3. Candidates' = Featured' \cup {req'[k].talent : k \in {g \in Slots : Asks(req'[g])}}
  BY DEF Candidates, Asking, Asks
<1>4. Candidates' \subseteq Candidates
  BY <1>2, <1>3 DEF Candidates, Asking
<1>5. QED BY <1>4, MovesOverlap, FewerFit

(* Cardinalities of what follows, of any finite sets.                      *)
LEMMA OneMore ==
  ASSUME NEW S, IsFiniteSet(S), NEW n \in Nat, Cardinality(S) < n, NEW x
  PROVE  /\ IsFiniteSet(S \cup {x})
         /\ Cardinality(S \cup {x}) \in Nat
         /\ Cardinality(S \cup {x}) <= n
<1>1. Cardinality(S) \in Nat
  BY FS_CardinalityType
<1>2. /\ IsFiniteSet(S \cup {x})
      /\ Cardinality(S \cup {x}) =
           IF x \in S THEN Cardinality(S) ELSE Cardinality(S) + 1
  BY FS_AddElement
<1>3. QED BY <1>1, <1>2

LEMMA TwoTogether ==
  ASSUME NEW S, IsFiniteSet(S), NEW T, IsFiniteSet(T),
         NEW U, U \subseteq S \cup T
  PROVE  /\ IsFiniteSet(U)
         /\ Cardinality(U) \in Nat
         /\ Cardinality(U) <= Cardinality(S) + Cardinality(T)
<1>1. /\ Cardinality(S) \in Nat /\ Cardinality(T) \in Nat
      /\ IsFiniteSet(S \cup T)
      /\ Cardinality(S \cup T) =
           Cardinality(S) + Cardinality(T) - Cardinality(S \cap T)
  BY FS_Union, FS_CardinalityType
<1>2. IsFiniteSet(S \cap T)
  <2>1. S \cap T \in SUBSET S
    OBVIOUS
  <2>2. QED BY <2>1, FS_Subset
<1>3. Cardinality(S \cap T) \in Nat
  BY <1>2, FS_CardinalityType
<1>4. IsFiniteSet(U) /\ Cardinality(U) <= Cardinality(S \cup T)
  BY <1>1, FS_Subset
<1>5. Cardinality(U) \in Nat
  BY <1>4, FS_CardinalityType
<1>6. QED BY <1>1, <1>3, <1>4, <1>5

(* A request asks for a place it found free.                               *)
LEMMA PlaceAsked ==
  ASSUME IInv, CandidatesFit, NEW h \in Slots, NEW t \in Talents, NEW r, NEW operation,
         Begin(h, operation, r), r.talent = t, FeaturedSlotAvailable(t),
         talents' = talents
  PROVE  CandidatesFit'
<1> DEFINE Rest == Featured \ {t}
           OtherAsking == {k \in Slots \ {h} : Asks(req[k])}
           Asked == {req[k].talent : k \in OtherAsking}
<1>1. \A k \in Slots : req'[k] = IF k = h THEN r ELSE req[k]
  BY TypeParts DEF IInv, RequestsOK, Begin
<1>2. Featured' = Featured
  BY DEF Featured, LiveTalent, HasTalent
<1>3. Candidates' = Featured' \cup {req'[k].talent : k \in {g \in Slots : Asks(req'[g])}}
  BY DEF Candidates, Asking, Asks
<1>4. Candidates' \subseteq (Rest \cup {t}) \cup Asked
  BY <1>1, <1>2, <1>3
<1>5. IsFiniteSet(Rest) /\ Cardinality(Rest) \in Nat
      /\ Cardinality(Rest) < MAX_FEATURED_TALENTS
  <2>1. IsFiniteSet(Rest)
    BY FS_Subset DEF CandidatesFit, Candidates
  <2>2. QED BY <2>1, FS_CardinalityType DEF FeaturedSlotAvailable
<1>6. /\ IsFiniteSet(Rest \cup {t})
      /\ Cardinality(Rest \cup {t}) \in Nat
      /\ Cardinality(Rest \cup {t}) <= MAX_FEATURED_TALENTS
  BY <1>5, CapAssumption, OneMore
<1>7. IsFiniteSet(OtherAsking) /\ Cardinality(OtherAsking) <= Cardinality(Slots) - 1
      /\ Cardinality(OtherAsking) \in Nat
  <2>1. OtherAsking \in SUBSET (Slots \ {h})
    OBVIOUS
  <2>2. IsFiniteSet(OtherAsking)
        /\ Cardinality(OtherAsking) <= Cardinality(Slots \ {h})
    BY <2>1, OthersCounted, FS_Subset
  <2>3. QED BY <2>2, OthersCounted, FS_CardinalityType
<1>8. IsFiniteSet(Asked) /\ Cardinality(Asked) <= Cardinality(OtherAsking)
      /\ Cardinality(Asked) \in Nat
  <2>1. PICK f : f = [k \in OtherAsking |-> req[k].talent]
    OBVIOUS
  <2>2. f \in Surjection(OtherAsking, Asked)
    BY <2>1 DEF Surjection
  <2>3. QED BY <1>7, <2>2, FS_Surjection, FS_CardinalityType
<1>9. overlapped' \in BOOLEAN /\ Room' \in Nat
  BY BeginMoves, MovesOverlap, RoomGrows
<1>10. /\ IsFiniteSet(Candidates') /\ Cardinality(Candidates') \in Nat
       /\ Cardinality(Candidates')
            <= Cardinality(Rest \cup {t}) + Cardinality(Asked)
  BY <1>4, <1>6, <1>8, TwoTogether
<1>11. CASE overlapped'
  <2>1. Cardinality(Candidates') <= MAX_FEATURED_TALENTS + (Cardinality(Slots) - 1)
    <3>1. PICK all \in Nat : all = Cardinality(Slots)
      BY OthersCounted
    <3>2. PICK o \in Nat : o = Cardinality(OtherAsking) /\ o <= all - 1
      BY <1>7, <3>1
    <3>3. PICK n \in Nat : n = Cardinality(Asked) /\ n <= o
      BY <1>8, <3>2
    <3>4. PICK m \in Nat : m = Cardinality(Rest \cup {t}) /\ m <= MAX_FEATURED_TALENTS
      BY <1>6
    <3>5. QED BY <1>10, <3>1, <3>2, <3>3, <3>4, CapAssumption
  <2>2. QED BY <1>10, <1>11, <2>1 DEF CandidatesFit, Room
<1>12. CASE ~ overlapped'
  <2>1. \A k \in Slots : req[k] = Idle
    BY <1>12, TypeParts DEF IInv, Begin
  <2>2. Asked = {}
    BY <2>1, IdleAsksNothing
  <2>3. Candidates' \subseteq Rest \cup {t}
    BY <1>4, <2>2
  <2>4. Cardinality(Candidates') <= Cardinality(Rest \cup {t})
    BY <1>6, <2>3, FS_Subset
  <2>5. Cardinality(Candidates') <= MAX_FEATURED_TALENTS
    BY <1>6, <1>10, <2>4, CapAssumption
  <2>6. QED BY <1>10, <1>12, <2>5, CapAssumption DEF CandidatesFit, Room
<1>13. QED BY <1>9, <1>11, <1>12

-----------------------------------------------------------------------------
(***************************************************************************)
(* The cap, step by step.                                                  *)
(***************************************************************************)
(* A row keeps its flag, or goes.                                          *)
LEMMA FeaturedShrinks ==
  ASSUME \A t \in Talents : LiveTalent(t)' /\ talents'[t].isFeatured =>
           LiveTalent(t) /\ talents[t].isFeatured
  PROVE  Featured' \subseteq Candidates
  BY DEF Featured, Candidates

LEMMA SameTalentsShrink ==
  ASSUME talents' = talents PROVE Featured' \subseteq Candidates
<1>1. \A t \in Talents : LiveTalent(t)' /\ talents'[t].isFeatured =>
        LiveTalent(t) /\ talents[t].isFeatured
  BY DEF LiveTalent, HasTalent
<1>2. QED BY <1>1, FeaturedShrinks

LEMMA LocationsGoFit ==
  ASSUME IInv, CandidatesFit, NEW h \in Slots, NEW ids \in SUBSET Locations,
         LocationRemove(h, ids)
  PROVE  CandidatesFit'
<1>1. Moves(h, Idle) /\ talents' = Unlocated(ids)
  BY BeginMoves DEF LocationRemove, AtOnce
<1>2. ASSUME NEW t \in Talents, LiveTalent(t)', talents'[t].isFeatured
      PROVE  LiveTalent(t) /\ talents[t].isFeatured
  <2>1. HasTalent(t)
    BY <1>1, <1>2 DEF Unlocated, LiveTalent, HasTalent
  <2>2. PICK row : row = talents[t] /\ row \in TalentRow
    BY <2>1, TypeParts, Rows DEF IInv
  <2>3. PICK new : new = [row EXCEPT !.location = None]
    OBVIOUS
  <2>4. new.deleted = row.deleted /\ new.isFeatured = row.isFeatured
    BY <2>2, <2>3 DEF TalentRow
  <2>5. talents'[t] \in {new, row}
    BY <1>1, <2>2, <2>3 DEF Unlocated
  <2>6. ~ row.deleted /\ row.isFeatured
    BY <1>2, <2>4, <2>5 DEF LiveTalent
  <2>7. QED BY <2>1, <2>2, <2>6 DEF LiveTalent
<1>3. QED BY <1>1, <1>2, FeaturedShrinks, NothingMoreAsked, IdleAsksNothing

LEMMA TagsGoFit ==
  ASSUME IInv, CandidatesFit, NEW h \in Slots, NEW cats, NEW subs,
         Moves(h, Idle), Untagged(cats, subs)
  PROVE  CandidatesFit'
<1>2. ASSUME NEW t \in Talents, LiveTalent(t)', talents'[t].isFeatured
      PROVE  LiveTalent(t) /\ talents[t].isFeatured
  <2>1. HasTalent(t)
    BY <1>2 DEF Untagged, LiveTalent, HasTalent
  <2>2. PICK row : row = talents[t] /\ row \in TalentRow
    BY <2>1, TypeParts, Rows DEF IInv
  <2>3. PICK new : new = [row EXCEPT !.categories = @ \ cats,
                                     !.subCategories = @ \ subs]
    OBVIOUS
  <2>4. new.deleted = row.deleted /\ new.isFeatured = row.isFeatured
    BY <2>2, <2>3 DEF TalentRow
  <2>5. talents'[t] = new
    BY <2>1, <2>2, <2>3 DEF Untagged
  <2>6. ~ row.deleted /\ row.isFeatured
    BY <1>2, <2>4, <2>5 DEF LiveTalent
  <2>7. QED BY <2>1, <2>2, <2>6 DEF LiveTalent
<1>3. QED BY <1>2, FeaturedShrinks, NothingMoreAsked, IdleAsksNothing

LEMMA TalentsGoFit ==
  ASSUME IInv, CandidatesFit, NEW h \in Slots, NEW ids \in SUBSET Talents,
         TalentRemove(h, ids)
  PROVE  CandidatesFit'
<1>1. /\ Moves(h, Idle)
      /\ talents' = [t \in Talents |->
           IF t \in ids /\ LiveTalent(t)
           THEN [talents[t] EXCEPT !.deleted = TRUE] ELSE talents[t]]
  BY BeginMoves DEF TalentRemove, AtOnce
<1>2. ASSUME NEW t \in Talents, LiveTalent(t)', talents'[t].isFeatured
      PROVE  LiveTalent(t) /\ talents[t].isFeatured
  <2>1. CASE t \in ids /\ LiveTalent(t)
    <3>1. PICK row : row = talents[t] /\ row \in TalentRow
      BY <2>1, TypeParts, Rows DEF IInv, LiveTalent
    <3>2. talents'[t] = [row EXCEPT !.deleted = TRUE]
      BY <1>1, <2>1, <3>1
    <3>3. talents'[t].deleted
      BY <3>1, <3>2 DEF TalentRow
    <3>4. QED BY <1>2, <3>3 DEF LiveTalent
  <2>2. CASE ~ (t \in ids /\ LiveTalent(t))
    <3>1. talents'[t] = talents[t]
      BY <1>1, <2>2
    <3>2. QED BY <1>2, <3>1 DEF LiveTalent, HasTalent
  <2>3. QED BY <2>1, <2>2
<1>3. QED BY <1>1, <1>2, FeaturedShrinks, NothingMoreAsked, IdleAsksNothing

LEMMA LookupsFit ==
  ASSUME IInv, CandidatesFit, LookupsNext
  PROVE  CandidatesFit'
<1>1. ASSUME NEW h \in Slots, NEW operation, AtOnce(h, operation), talents' = talents
      PROVE  CandidatesFit'
  BY <1>1, BeginMoves, SameTalentsShrink, NothingMoreAsked, IdleAsksNothing DEF AtOnce
<1>2. ASSUME NEW h \in Slots, NEW c \in Cities, NEW l \in Locations,
             CityCreate(h, c) \/ LocationCreate(h, l, c) \/ LocationUpdate(h, l, c)
      PROVE  CandidatesFit'
  BY <1>1, <1>2 DEF CityCreate, LocationCreate, LocationUpdate
<1>3. ASSUME NEW h \in Slots, NEW ids \in SUBSET Cities, CityRemove(h, ids)
      PROVE  CandidatesFit'
  BY <1>1, <1>3 DEF CityRemove
<1>4. ASSUME NEW h \in Slots, NEW c \in Categories, NEW s \in SubCategories,
             \/ CategoryCreate(h, c) \/ SubCategoryCreate(h, s, c)
             \/ SubCategoryUpdate(h, s, c)
      PROVE  CandidatesFit'
  BY <1>1, <1>4 DEF CategoryCreate, SubCategoryCreate, SubCategoryUpdate
<1>5. ASSUME NEW h \in Slots, NEW c \in Cities, CityCreate(h, c)
      PROVE  CandidatesFit'
  BY <1>1, <1>5 DEF CityCreate
<1>6. ASSUME NEW h \in Slots, NEW c \in Categories, CategoryCreate(h, c)
      PROVE  CandidatesFit'
  BY <1>1, <1>6 DEF CategoryCreate
<1>7. ASSUME NEW h \in Slots, NEW ids \in SUBSET Categories, CategoryRemove(h, ids)
      PROVE  CandidatesFit'
  BY <1>7, BeginMoves, TagsGoFit DEF CategoryRemove, AtOnce
<1>8. ASSUME NEW h \in Slots, NEW ids \in SUBSET SubCategories,
             SubCategoryRemove(h, ids)
      PROVE  CandidatesFit'
  BY <1>8, BeginMoves, TagsGoFit DEF SubCategoryRemove, AtOnce
<1>9. QED BY <1>2, <1>3, <1>4, <1>5, <1>6, <1>7, <1>8, LocationsGoFit DEF LookupsNext

LEMMA CreateCheckFits ==
  ASSUME IInv, CandidatesFit, NEW h \in Slots, NEW t \in Talents,
         TalentCreateCheck(h, t)
  PROVE  CandidatesFit'
<1>1. PICK body \in Details :
        /\ body.isFeatured => FeaturedSlotAvailable(t)
        /\ Begin(h, "talents",
                 [op |-> "create", talent |-> t, patch |-> body, seen |-> {}])
  BY BodiesAreDetails DEF TalentCreateCheck
<1>2. PICK r : r = [op |-> "create", talent |-> t, patch |-> body, seen |-> {}]
  OBVIOUS
<1>3. r.talent = t /\ (Asks(r) => body.isFeatured) /\ talents' = talents
  BY <1>2 DEF Asks, Wants, TalentCreateCheck
<1>4. CASE body.isFeatured
  BY <1>1, <1>2, <1>3, <1>4, PlaceAsked
<1>5. CASE ~ body.isFeatured
  BY <1>1, <1>2, <1>3, <1>5, BeginMoves, SameTalentsShrink, NothingMoreAsked
<1>6. QED BY <1>4, <1>5

LEMMA UpdateCheckFits ==
  ASSUME IInv, CandidatesFit, NEW h \in Slots, NEW t \in Talents,
         TalentUpdateCheck(h, t)
  PROVE  CandidatesFit'
<1>1. PICK patch :
        /\ Wants(patch) => FeaturedSlotAvailable(t)
        /\ Begin(h, "talents",
                 [op |-> "update", talent |-> t, patch |-> patch, seen |-> {}])
  BY DEF TalentUpdateCheck
<1>2. PICK r : r = [op |-> "update", talent |-> t, patch |-> patch, seen |-> {}]
  OBVIOUS
<1>3. r.talent = t /\ (Asks(r) => Wants(patch)) /\ talents' = talents
  BY <1>2 DEF Asks, TalentUpdateCheck
<1>4. CASE Wants(patch)
  BY <1>1, <1>2, <1>3, <1>4, PlaceAsked
<1>5. CASE ~ Wants(patch)
  BY <1>1, <1>2, <1>3, <1>5, BeginMoves, SameTalentsShrink, NothingMoreAsked
<1>6. QED BY <1>4, <1>5

LEMMA RosterReadsFit ==
  ASSUME IInv, CandidatesFit, NEW h \in Slots,
         TalentUpdateClear(h) \/ TalentUpdateClearSub(h)
  PROVE  CandidatesFit'
<1>1. PICK q : q = req[h] /\ ReqOK(q)
  BY RequestAt
<1>2. q.op \in {"update", "clear"} /\ q # Idle
  BY <1>1 DEF TalentUpdateClear, TalentUpdateClearSub, Idle
<1>3. DOMAIN q = {"op", "talent", "patch", "seen"}
  BY <1>1, <1>2 DEF ReqOK, Idle
<1>4. PICK r, seen : /\ Proceed(h, r) /\ talents' = talents
                     /\ \/ r = [q EXCEPT !.op = "clear", !.seen = seen]
                        \/ r = [q EXCEPT !.op = "commit", !.seen = seen]
  <2>1. CASE TalentUpdateClear(h)
    <3>1. PICK seen : seen = IF "categories" \in DOMAIN q.patch
                             THEN talents[q.talent].categories ELSE {}
      OBVIOUS
    <3>2. Proceed(h, [q EXCEPT !.op = "clear", !.seen = seen]) /\ talents' = talents
      BY <1>1, <2>1, <3>1 DEF TalentUpdateClear
    <3>3. QED BY <3>2
  <2>2. CASE TalentUpdateClearSub(h)
    <3>1. PICK seen : seen = q.seen \cup IF "subCategories" \in DOMAIN q.patch
                                         THEN talents[q.talent].subCategories
                                         ELSE {}
      OBVIOUS
    <3>2. Proceed(h, [q EXCEPT !.op = "commit", !.seen = seen]) /\ talents' = talents
      BY <1>1, <1>3, <2>2, <3>1 DEF TalentUpdateClearSub
    <3>3. QED BY <3>2
  <2>3. QED BY <2>1, <2>2
<1>5. r.talent = q.talent /\ r.patch = q.patch
  BY <1>3, <1>4
<1>6. Asks(r) => Asks(q)
  BY <1>2, <1>5 DEF Asks
<1>7. Moves(h, r)
  BY <1>1, <1>2, <1>4, ProceedMoves
<1>8. QED BY <1>1, <1>4, <1>5, <1>6, <1>7, SameTalentsShrink, NothingMoreAsked

(* A commit features only the talent it asked a place for.                 *)
LEMMA RowWrittenFits ==
  ASSUME IInv, NEW h \in Slots, NEW t \in Talents, NEW row,
         talents' = [talents EXCEPT ![t] = row],
         row.isFeatured /\ ~ row.deleted =>
           \/ t \in Featured
           \/ Asks(req[h]) /\ t = req[h].talent
  PROVE  Featured' \subseteq Candidates
<1> SUFFICES ASSUME NEW u \in Talents, LiveTalent(u)', talents'[u].isFeatured
             PROVE  u \in Candidates
  BY DEF Featured
<1>1. CASE u = t
  <2>1. talents'[u] = row
    BY <1>1, TypeParts DEF IInv, TablesOK
  <2>2. row.isFeatured /\ ~ row.deleted
    BY <2>1 DEF LiveTalent
  <2>3. QED BY <1>1, <2>2 DEF Candidates, Asking
<1>2. CASE u # t
  <2>1. talents'[u] = talents[u]
    BY <1>2, TypeParts DEF IInv, TablesOK
  <2>2. LiveTalent(u) /\ talents[u].isFeatured
    BY <2>1 DEF LiveTalent, HasTalent
  <2>3. QED BY <2>2 DEF Candidates, Featured
<1>3. QED BY <1>1, <1>2

LEMMA CreateCommitFits ==
  ASSUME IInv, CandidatesFit, NEW h \in Slots, TalentCreateCommit(h)
  PROVE  CandidatesFit'
<1>1. PICK q : q = req[h] /\ ReqOK(q) /\ RequestKnows(q)
  BY RequestAt
<1>2. /\ q.op = "create" /\ q.talent \in Talents /\ q.patch \in Details
      /\ Proceed(h, Idle) /\ q # Idle
  BY <1>1, ReqTypes DEF TalentCreateCommit, RequestKnows, Finish, Idle
<1>3. Moves(h, Idle)
  BY <1>1, <1>2, ProceedMoves
<1>4. Featured' \subseteq Candidates
  <2>1. CASE ReferencesHold(q.patch)
    <3>1. PICK row : row = [f \in {"deleted"} \cup DOMAIN q.patch |->
                              IF f = "deleted" THEN FALSE ELSE q.patch[f]]
      OBVIOUS
    <3>2. talents' = [talents EXCEPT ![q.talent] = row]
      BY <1>1, <2>1, <3>1 DEF TalentCreateCommit
    <3>3. row.isFeatured = q.patch.isFeatured
      BY <1>2, <3>1 DEF Details
    <3>4. row.isFeatured => Asks(q)
      BY <1>2, <3>3 DEF Asks, Wants, Details
    <3>5. QED BY <1>1, <1>2, <3>2, <3>4, RowWrittenFits
  <2>2. CASE ~ ReferencesHold(q.patch)
    BY <1>1, <2>2, SameTalentsShrink DEF TalentCreateCommit
  <2>3. QED BY <2>1, <2>2
<1>5. QED BY <1>3, <1>4, NothingMoreAsked, IdleAsksNothing

LEMMA UpdateCommitFits ==
  ASSUME IInv, CandidatesFit, NEW h \in Slots, TalentUpdateCommit(h)
  PROVE  CandidatesFit'
<1>1. PICK q : q = req[h] /\ ReqOK(q) /\ RequestKnows(q)
  BY RequestAt
<1>2. /\ q.op = "commit" /\ q.talent \in Talents /\ IsPatch(q.patch)
      /\ HasTalent(q.talent) /\ q # Idle
  BY <1>1, ReqTypes DEF TalentUpdateCommit, RequestKnows, Idle
<1>3. CASE ReferencesHold(q.patch) /\ PrimaryKeysHold(q)
  <2>1. PICK old : old = talents[q.talent] /\ old \in TalentRow
    BY <1>2, TypeParts, Rows DEF IInv
  <2>2. PICK row : row = Updated(q, talents[q.talent])
    OBVIOUS
  <2>3. /\ talents' = [talents EXCEPT ![q.talent] = row]
        /\ req' = [k \in Slots |->
             IF k = h THEN Idle
             ELSE IF req[k].op \in {"clear", "commit"} /\ req[k].talent = q.talent
             THEN [req[k] EXCEPT !.seen = @ \ q.seen] ELSE req[k]]
        /\ overlapped' = overlapped
    BY <1>1, <1>3, <2>2 DEF TalentUpdateCommit
  <2>4. /\ row.deleted = old.deleted
        /\ row.isFeatured = IF "isFeatured" \in DOMAIN q.patch
                            THEN q.patch.isFeatured ELSE old.isFeatured
    BY <1>2, <2>1, <2>2 DEF Updated, TalentRow, IsPatch, TalentFields
  <2>5. row.isFeatured /\ ~ row.deleted => q.talent \in Featured \/ Asks(q)
    BY <1>2, <2>1, <2>4 DEF Featured, LiveTalent, Asks, Wants
  <2>6. Featured' \subseteq Candidates
    BY <1>1, <1>2, <2>3, <2>5, RowWrittenFits
  <2>7. ASSUME NEW k \in Slots, Asks(req'[k])
        PROVE  Asks(req[k]) /\ req'[k].talent = req[k].talent
    <3>1. PICK p : p = req[k] /\ ReqOK(p)
      BY RequestAt
    <3>2. k # h
      BY <2>3, <2>7, IdleAsksNothing
    <3>3. CASE p.op \in {"clear", "commit"} /\ p.talent = q.talent
      <4>1. DOMAIN p = {"op", "talent", "patch", "seen"}
        BY <3>1, <3>3 DEF ReqOK, Idle
      <4>2. PICK r : r = [p EXCEPT !.seen = @ \ q.seen] /\ r = req'[k]
        BY <2>3, <3>1, <3>2, <3>3
      <4>3. r.op = p.op /\ r.talent = p.talent /\ r.patch = p.patch
        BY <4>1, <4>2
      <4>4. QED BY <2>7, <3>1, <4>2, <4>3 DEF Asks
    <3>4. CASE ~ (p.op \in {"clear", "commit"} /\ p.talent = q.talent)
      BY <2>3, <2>7, <3>1, <3>2, <3>4
    <3>5. QED BY <3>3, <3>4
  <2>8. Candidates' = Featured' \cup {req'[k].talent : k \in {g \in Slots : Asks(req'[g])}}
    BY DEF Candidates, Asking, Asks
  <2>9. Candidates' \subseteq Candidates
    BY <2>6, <2>7, <2>8 DEF Candidates, Asking
  <2>10. overlapped' \in BOOLEAN /\ (overlapped => overlapped')
    BY <2>3, TypeParts DEF IInv
  <2>11. QED BY <2>9, <2>10, FewerFit
<1>4. CASE ~ (ReferencesHold(q.patch) /\ PrimaryKeysHold(q))
  <2>1. talents' = talents /\ Proceed(h, Idle)
    BY <1>1, <1>4 DEF TalentUpdateCommit, Finish
  <2>2. QED
    BY <1>1, <1>2, <2>1, ProceedMoves, SameTalentsShrink, NothingMoreAsked,
       IdleAsksNothing
<1>5. QED BY <1>3, <1>4

LEMMA RosterFits ==
  ASSUME IInv, CandidatesFit, RosterNext
  PROVE  CandidatesFit'
BY CreateCheckFits, UpdateCheckFits, CreateCommitFits, RosterReadsFit,
   UpdateCommitFits, TalentsGoFit DEF RosterNext

(* A request of the folders' asks for no place.                            *)
LEMMA FoldersMove ==
  ASSUME FoldersNext
  PROVE  /\ talents' = talents
         /\ \E h \in Slots : \E r : Moves(h, r) /\ ~ Asks(r)
<1>1. ASSUME NEW h \in Slots, NEW r, Begin(h, "folders", r) \/ Proceed(h, r),
             req[h] # Idle \/ Begin(h, "folders", r),
             r.op \notin {"create", "update", "clear", "commit"}
      PROVE  \E g \in Slots : \E p : Moves(g, p) /\ ~ Asks(p)
  BY <1>1, BeginMoves, ProceedMoves DEF Asks
<1>2. ASSUME NEW h \in Slots, NEW dest, FolderCreateFind(h, dest)
      PROVE  talents' = talents /\ \E g \in Slots : \E p : Moves(g, p) /\ ~ Asks(p)
  BY <1>1, <1>2 DEF FolderCreateFind
<1>3. ASSUME NEW h \in Slots, NEW f, NEW dest, FolderUpdateFind(h, f, dest)
      PROVE  talents' = talents /\ \E g \in Slots : \E p : Moves(g, p) /\ ~ Asks(p)
  BY <1>1, <1>3 DEF FolderUpdateFind
<1>4. ASSUME NEW h \in Slots, NEW ids, NEW dest, FileFind(h, dest, ids)
      PROVE  talents' = talents /\ \E g \in Slots : \E p : Moves(g, p) /\ ~ Asks(p)
  BY <1>1, <1>4 DEF FileFind
<1>5. ASSUME NEW h \in Slots, NEW f, FolderRemoveFind(h, f)
      PROVE  talents' = talents /\ \E g \in Slots : \E p : Moves(g, p) /\ ~ Asks(p)
  BY <1>1, <1>5 DEF FolderRemoveFind
<1>6. ASSUME NEW h \in Slots,
             FolderCreate(h) \/ FolderUpdate(h) \/ FolderRemove(h) \/ FileAssets(h)
      PROVE  talents' = talents /\ \E g \in Slots : \E p : Moves(g, p) /\ ~ Asks(p)
  <2>1. talents' = talents /\ Proceed(h, Idle) /\ req[h] # Idle
    BY <1>6 DEF FolderCreate, FolderUpdate, FolderRemove, FileAssets, Finish, Idle
  <2>2. QED BY <1>1, <2>1 DEF Idle
<1>7. ASSUME NEW h \in Slots, FolderCountAssets(h) \/ FolderCountFolders(h)
      PROVE  talents' = talents /\ \E g \in Slots : \E p : Moves(g, p) /\ ~ Asks(p)
  <2>1. PICK q : q = req[h] /\ q.op = "rmdir"
    BY <1>7 DEF FolderCountAssets, FolderCountFolders
  <2>2. PICK count : Proceed(h, [q EXCEPT !.counted = @ \cup {count}])
    BY <1>7, <2>1 DEF FolderCountAssets, FolderCountFolders
  <2>3. PICK r : r = [q EXCEPT !.counted = @ \cup {count}]
    OBVIOUS
  <2>4. r.op = "rmdir" /\ Proceed(h, r) /\ q # Idle
    BY <2>1, <2>2, <2>3 DEF Idle
  <2>5. QED BY <1>1, <1>7, <2>1, <2>4 DEF FolderCountAssets, FolderCountFolders
<1>8. QED BY <1>2, <1>3, <1>4, <1>5, <1>6, <1>7 DEF FoldersNext

LEMMA CapStep ==
  ASSUME IInv, CandidatesFit, [Next]_catalogueVars
  PROVE  CandidatesFit'
<1>1. CASE LookupsNext
  BY <1>1, LookupsFit
<1>2. CASE RosterNext
  BY <1>2, RosterFits
<1>3. CASE FoldersNext
  BY <1>3, FoldersMove, SameTalentsShrink, NothingMoreAsked
<1>4. ASSUME NEW h \in Slots, Abort(h) PROVE CandidatesFit'
  <2>1. Moves(h, Idle) /\ talents' = talents
    BY <1>4, ProceedMoves DEF Abort, Finish
  <2>2. QED BY <2>1, SameTalentsShrink, NothingMoreAsked, IdleAsksNothing
<1>5. CASE UNCHANGED catalogueVars
  BY <1>5
     DEF CandidatesFit, Candidates, Asking, Asks, Room, Featured, LiveTalent,
         HasTalent, catalogueVars
<1>6. QED BY <1>1, <1>2, <1>3, <1>4, <1>5 DEF Next

LEMMA CapInit == Init => CandidatesFit
<1> SUFFICES ASSUME Init PROVE CandidatesFit
  OBVIOUS
<1>1. Asking = {}
  BY IdleAsksNothing DEF Init, Asking
<1>2. Featured = {}
  BY DEF Init, Featured, LiveTalent, HasTalent
<1>3. Candidates = {}
  BY <1>1, <1>2 DEF Candidates
<1>4. QED BY <1>3, FS_EmptySet, CapAssumption DEF CandidatesFit, Room, Init

(* As long as no two requests overlapped, no more talents are featured than*)
(* the home page's row shows; however many requests race past the check,   *)
(* the cap is exceeded by no more than the requests there are at once.     *)
THEOREM CapHolds == Spec => []FeaturedCap
<1>1. IInv /\ CandidatesFit /\ [Next]_catalogueVars => CandidatesFit'
  BY CapStep
<1>2. IInv /\ CandidatesFit => FeaturedCap
  <2> SUFFICES ASSUME IInv, CandidatesFit PROVE FeaturedCap
    OBVIOUS
  <2>1. IsFiniteSet(Featured) /\ Cardinality(Featured) <= Cardinality(Candidates)
    BY FS_Subset DEF CandidatesFit, Candidates
  <2>2. PICK n \in Nat : n = Cardinality(Featured)
    BY <2>1, FS_CardinalityType
  <2>3. PICK m \in Nat : m = Cardinality(Candidates)
    BY FS_CardinalityType DEF CandidatesFit
  <2>4. Cardinality(Slots) \in Nat
    BY SlotsAssumption, FS_CardinalityType
  <2>5. QED BY <2>1, <2>2, <2>3, <2>4, CapAssumption
        DEF CandidatesFit, Room, FeaturedCap
<1>3. QED BY CapInit, <1>1, <1>2, Invariance, PTL DEF Spec

-----------------------------------------------------------------------------
(***************************************************************************)
(* In sequence.  A request in flight is alone, so what it has read holds   *)
(* until it commits.                                                       *)
(***************************************************************************)
OneAtATime == \A h, k \in Slots : req[h] # Idle /\ req[k] # Idle => h = k

(* What a request that is alone has read and still holds. *)
Current(r) ==
  /\ r.op \in {"clear", "commit"} /\ "categories" \in DOMAIN r.patch =>
       talents[r.talent].categories \subseteq r.seen
  /\ r.op = "commit" /\ "subCategories" \in DOMAIN r.patch =>
       talents[r.talent].subCategories \subseteq r.seen
  /\ r.op = "rmdir" /\ "assets" \in r.counted =>
       \A a \in Assets : assets[a] # r.folder
  /\ r.op = "rmdir" /\ "folders" \in r.counted =>
       \A f \in Folders : folders[f] # r.folder

TagsSaved ==
  \A t \in Talents : HasTalent(t) =>
    /\ talents[t].categories = saved[t].categories \cap categories
    /\ talents[t].subCategories = saved[t].subCategories \cap SubCategoryIds

SequenceSound == OneAtATime /\ TagsSaved /\ \A h \in Slots : Current(req[h])
InSequence == ~ overlapped => SequenceSound

LEMMA Alone ==
  ASSUME IInv, InSequence, NEW h \in Slots, NEW r, Moves(h, r), ~ overlapped'
  PROVE  /\ ~ overlapped /\ OneAtATime /\ TagsSaved /\ Current(req[h])
         /\ req'[h] = r
         /\ \A k \in Slots \ {h} : req'[k] = Idle
<1>1. ~ overlapped /\ SequenceSound
  <2>1. ~ overlapped
    BY TypeParts DEF IInv, Moves
  <2>2. QED BY <2>1 DEF InSequence
<1>2. DOMAIN req = Slots
  BY TypeParts DEF IInv, RequestsOK
<1>3. \A k \in Slots \ {h} : req[k] = Idle
  <2>1. CASE req[h] = Idle
    <3>1. ~ \E k \in Slots : req[k] # Idle
      BY <2>1, TypeParts DEF IInv, Moves
    <3>2. QED BY <3>1
  <2>2. CASE req[h] # Idle
    BY <1>1, <2>2 DEF SequenceSound, OneAtATime
  <2>3. QED BY <2>1, <2>2
<1>4. req'[h] = r /\ \A k \in Slots \ {h} : req'[k] = req[k]
  BY <1>2 DEF Moves
<1>5. QED BY <1>1, <1>3, <1>4 DEF SequenceSound

LEMMA IdleIsCurrent == Current(Idle)'
  BY DEF Current, Idle

LEMMA OneGoesOn ==
  ASSUME NEW h \in Slots, NEW r, req'[h] = r,
         \A k \in Slots \ {h} : req'[k] = Idle,
         Current(r)', TagsSaved'
  PROVE  InSequence'
<1>1. OneAtATime'
  BY DEF OneAtATime
<1>2. ASSUME NEW k \in Slots PROVE Current(req[k])'
  <2>1. CASE k = h
    BY <2>1 DEF Current
  <2>2. CASE k # h
    BY <2>2, IdleIsCurrent DEF Current
  <2>3. QED BY <2>1, <2>2
<1>3. QED BY <1>1, <1>2 DEF InSequence, SequenceSound

(* Only what can happen without overlap matters.                           *)
LEMMA SequenceGoesOn ==
  ASSUME IInv, InSequence, NEW h \in Slots, NEW r, Moves(h, r),
         TagsSaved /\ Current(req[h]) /\ ~ overlapped' => TagsSaved' /\ Current(r)'
  PROVE  InSequence'
<1>1. CASE overlapped'
  BY <1>1 DEF InSequence
<1>2. CASE ~ overlapped'
  BY <1>2, Alone, OneGoesOn
<1>3. QED BY <1>1, <1>2

(***************************************************************************)
(* The tags.                                                               *)
(***************************************************************************)

LEMMA TagsStay ==
  ASSUME TagsSaved, UNCHANGED <<taxonomy, talents, saved>>
  PROVE  TagsSaved'
  BY DEF TagsSaved, HasTalent, SubCategoryIds, taxonomy

LEMMA TagsStayOnRows ==
  ASSUME TagsSaved, UNCHANGED <<taxonomy, saved>>,
         \A t \in Talents : HasTalent(t)' =>
           /\ HasTalent(t)
           /\ talents'[t].categories = talents[t].categories
           /\ talents'[t].subCategories = talents[t].subCategories
  PROVE  TagsSaved'
  BY DEF TagsSaved, SubCategoryIds, taxonomy

LEMMA PlacesInSequence ==
  ASSUME IInv, InSequence, NEW h \in Slots, AtOnce(h, "places"),
         UNCHANGED <<taxonomy, talents, saved>>
  PROVE  InSequence'
  BY BeginMoves, TagsStay, IdleIsCurrent, SequenceGoesOn DEF AtOnce

LEMMA LocationsGoInSequence ==
  ASSUME IInv, InSequence, NEW h \in Slots, NEW ids \in SUBSET Locations,
         LocationRemove(h, ids)
  PROVE  InSequence'
<1>1. Moves(h, Idle) /\ talents' = Unlocated(ids) /\ UNCHANGED <<taxonomy, saved>>
  BY BeginMoves DEF LocationRemove, AtOnce
<1>2. ASSUME NEW t \in Talents, HasTalent(t)'
      PROVE  /\ HasTalent(t)
             /\ talents'[t].categories = talents[t].categories
             /\ talents'[t].subCategories = talents[t].subCategories
  <2>1. HasTalent(t)
    BY <1>1, <1>2 DEF Unlocated, HasTalent
  <2>2. PICK row : row = talents[t] /\ row \in TalentRow
    BY <2>1, TypeParts, Rows DEF IInv
  <2>3. PICK new : new = [row EXCEPT !.location = None]
    OBVIOUS
  <2>4. new.categories = row.categories /\ new.subCategories = row.subCategories
    BY <2>2, <2>3, RowEdited
  <2>5. talents'[t] \in {new, row}
    BY <1>1, <2>2, <2>3 DEF Unlocated
  <2>6. QED BY <2>1, <2>2, <2>4, <2>5
<1>3. TagsSaved => TagsSaved'
  BY <1>1, <1>2, TagsStayOnRows
<1>4. QED BY <1>1, <1>3, IdleIsCurrent, SequenceGoesOn

LEMMA TalentsGoInSequence ==
  ASSUME IInv, InSequence, NEW h \in Slots, NEW ids \in SUBSET Talents,
         TalentRemove(h, ids)
  PROVE  InSequence'
<1>1. /\ Moves(h, Idle) /\ UNCHANGED <<taxonomy, saved>>
      /\ talents' = [t \in Talents |->
           IF t \in ids /\ LiveTalent(t)
           THEN [talents[t] EXCEPT !.deleted = TRUE] ELSE talents[t]]
  BY BeginMoves DEF TalentRemove, AtOnce
<1>2. ASSUME NEW t \in Talents, HasTalent(t)'
      PROVE  /\ HasTalent(t)
             /\ talents'[t].categories = talents[t].categories
             /\ talents'[t].subCategories = talents[t].subCategories
  <2>1. HasTalent(t)
    BY <1>1, <1>2 DEF LiveTalent, HasTalent
  <2>2. PICK row : row = talents[t] /\ row \in TalentRow
    BY <2>1, TypeParts, Rows DEF IInv
  <2>3. PICK new : new = [row EXCEPT !.deleted = TRUE]
    OBVIOUS
  <2>4. new.categories = row.categories /\ new.subCategories = row.subCategories
    BY <2>2, <2>3, RowEdited
  <2>5. talents'[t] \in {new, row}
    BY <1>1, <2>2, <2>3
  <2>6. QED BY <2>1, <2>2, <2>4, <2>5
<1>3. TagsSaved => TagsSaved'
  BY <1>1, <1>2, TagsStayOnRows
<1>4. QED BY <1>1, <1>3, IdleIsCurrent, SequenceGoesOn

LEMMA CategoryComesInSequence ==
  ASSUME IInv, InSequence, NEW h \in Slots, NEW c \in Categories,
         CategoryCreate(h, c)
  PROVE  InSequence'
<1>1. /\ Moves(h, Idle) /\ ~ Mentioned(c) /\ categories' = categories \cup {c}
      /\ UNCHANGED <<subCategories, talents, saved>>
  BY BeginMoves DEF CategoryCreate, AtOnce
<1>2. \A t \in Talents : c \notin saved[t].categories
  BY <1>1 DEF Mentioned
<1>3. TagsSaved => TagsSaved'
  BY <1>1, <1>2 DEF TagsSaved, HasTalent, SubCategoryIds
<1>4. QED BY <1>1, <1>3, IdleIsCurrent, SequenceGoesOn

LEMMA SubCategoryComesInSequence ==
  ASSUME IInv, InSequence, NEW h \in Slots, NEW s \in SubCategories,
         NEW c \in Categories,
         SubCategoryCreate(h, s, c) \/ SubCategoryUpdate(h, s, c)
  PROVE  InSequence'
<1>1. /\ Moves(h, Idle) /\ c \in categories
      /\ \/ ~ Mentioned(s)
         \/ subCategories[s] # None
      /\ subCategories' = [subCategories EXCEPT ![s] = c]
      /\ UNCHANGED <<categories, talents, saved>>
  BY BeginMoves DEF SubCategoryCreate, SubCategoryUpdate, AtOnce
<1>2. TablesOK
  BY TypeParts DEF IInv
<1>3. SubCategoryIds' = SubCategoryIds \cup {s}
  BY <1>1, <1>2, NoneAssumption DEF SubCategoryIds, TablesOK
<1>4. \A t \in Talents : s \in saved[t].subCategories => s \in SubCategoryIds
  BY <1>1 DEF Mentioned, SubCategoryIds
<1>5. TagsSaved => TagsSaved'
  BY <1>1, <1>3, <1>4 DEF TagsSaved, HasTalent
<1>6. QED BY <1>1, <1>5, IdleIsCurrent, SequenceGoesOn

LEMMA TagsGoInSequence ==
  ASSUME IInv, InSequence, NEW h \in Slots, NEW cats, NEW subs, Moves(h, Idle),
         categories' = categories \ cats,
         subCategories' = [s \in SubCategories |->
           IF s \in subs THEN None ELSE subCategories[s]],
         Untagged(cats, subs), saved' = saved
  PROVE  InSequence'
<1>1. SubCategoryIds' = SubCategoryIds \ subs
  BY DEF SubCategoryIds
<1>2. ASSUME NEW t \in Talents, HasTalent(t)'
      PROVE  /\ HasTalent(t)
             /\ talents'[t].categories = talents[t].categories \ cats
             /\ talents'[t].subCategories = talents[t].subCategories \ subs
  <2>1. HasTalent(t)
    BY <1>2 DEF Untagged, HasTalent
  <2>2. PICK row : row = talents[t] /\ row \in TalentRow
    BY <2>1, TypeParts, Rows DEF IInv
  <2>3. PICK new : new = [row EXCEPT !.categories = @ \ cats,
                                     !.subCategories = @ \ subs]
    OBVIOUS
  <2>4. /\ new.categories = row.categories \ cats
        /\ new.subCategories = row.subCategories \ subs
    BY <2>2, <2>3 DEF TalentRow
  <2>5. talents'[t] = new
    BY <2>1, <2>2, <2>3 DEF Untagged
  <2>6. QED BY <2>1, <2>2, <2>4, <2>5
<1>3. TagsSaved => TagsSaved'
  BY <1>1, <1>2 DEF TagsSaved
<1>4. QED BY <1>3, IdleIsCurrent, SequenceGoesOn

LEMMA CategoriesGoInSequence ==
  ASSUME IInv, InSequence, NEW h \in Slots, NEW ids \in SUBSET Categories,
         CategoryRemove(h, ids)
  PROVE  InSequence'
<1>1. PICK subs : subs = SubCategoriesOf(ids)
  OBVIOUS
<1>2. /\ Moves(h, Idle) /\ categories' = categories \ ids
      /\ subCategories' = [s \in SubCategories |->
           IF s \in subs THEN None ELSE subCategories[s]]
      /\ Untagged(ids, subs) /\ saved' = saved
  BY <1>1, BeginMoves DEF CategoryRemove, AtOnce
<1>3. QED BY <1>2, TagsGoInSequence

LEMMA SubCategoriesGoInSequence ==
  ASSUME IInv, InSequence, NEW h \in Slots, NEW ids \in SUBSET SubCategories,
         SubCategoryRemove(h, ids)
  PROVE  InSequence'
<1>1. /\ Moves(h, Idle) /\ categories' = categories \ {}
      /\ subCategories' = [s \in SubCategories |->
           IF s \in ids THEN None ELSE subCategories[s]]
      /\ Untagged({}, ids) /\ saved' = saved
  BY BeginMoves DEF SubCategoryRemove, AtOnce
<1>2. QED BY <1>1, TagsGoInSequence

LEMMA LookupsInSequence ==
  ASSUME IInv, InSequence, LookupsNext
  PROVE  InSequence'
<1>1. ASSUME NEW h \in Slots, NEW c \in Cities,
             \/ CityCreate(h, c)
             \/ \E l \in Locations : LocationCreate(h, l, c) \/ LocationUpdate(h, l, c)
      PROVE  InSequence'
  BY <1>1, PlacesInSequence DEF CityCreate, LocationCreate, LocationUpdate
<1>2. ASSUME NEW h \in Slots, NEW ids \in SUBSET Cities, CityRemove(h, ids)
      PROVE  InSequence'
  BY <1>2, PlacesInSequence DEF CityRemove
<1>3. QED
  BY <1>1, <1>2, LocationsGoInSequence, CategoryComesInSequence,
     SubCategoryComesInSequence, CategoriesGoInSequence, SubCategoriesGoInSequence
     DEF LookupsNext

(* A request begins, and has read nothing that could go stale.             *)
LEMMA ChecksInSequence ==
  ASSUME IInv, InSequence, NEW h \in Slots, NEW t \in Talents,
         TalentCreateCheck(h, t) \/ TalentUpdateCheck(h, t)
  PROVE  InSequence'
<1>1. PICK r : /\ Moves(h, r) /\ r.op \in {"create", "update"}
               /\ UNCHANGED <<taxonomy, talents, saved>>
  <2>1. CASE TalentCreateCheck(h, t)
    BY <2>1, BeginMoves DEF TalentCreateCheck
  <2>2. CASE TalentUpdateCheck(h, t)
    BY <2>2, BeginMoves DEF TalentUpdateCheck
  <2>3. QED BY <2>1, <2>2
<1>2. Current(r)'
  BY <1>1 DEF Current
<1>3. QED BY <1>1, <1>2, TagsStay, SequenceGoesOn

LEMMA RosterReadsInSequence ==
  ASSUME IInv, InSequence, NEW h \in Slots,
         TalentUpdateClear(h) \/ TalentUpdateClearSub(h)
  PROVE  InSequence'
<1>1. PICK q : q = req[h] /\ ReqOK(q)
  BY RequestAt
<1>2. /\ q.op \in {"update", "clear"} /\ q # Idle
      /\ UNCHANGED <<taxonomy, talents, saved>>
  BY <1>1 DEF TalentUpdateClear, TalentUpdateClearSub, Idle
<1>3. DOMAIN q = {"op", "talent", "patch", "seen"}
  BY <1>1, <1>2 DEF ReqOK, Idle
<1>4. CASE TalentUpdateClear(h)
  <2>1. PICK seen : seen = IF "categories" \in DOMAIN q.patch
                           THEN talents[q.talent].categories ELSE {}
    OBVIOUS
  <2>2. PICK r : r = [q EXCEPT !.op = "clear", !.seen = seen]
    OBVIOUS
  <2>3. Proceed(h, r)
    BY <1>1, <1>4, <2>1, <2>2 DEF TalentUpdateClear
  <2>4. r.op = "clear" /\ r.talent = q.talent /\ r.patch = q.patch /\ r.seen = seen
    BY <1>3, <2>2
  <2>5. Current(r)'
    BY <1>2, <2>1, <2>4 DEF Current
  <2>6. QED BY <1>1, <1>2, <2>3, <2>5, ProceedMoves, TagsStay, SequenceGoesOn
<1>5. CASE TalentUpdateClearSub(h)
  <2>1. PICK seen : seen = q.seen \cup IF "subCategories" \in DOMAIN q.patch
                                       THEN talents[q.talent].subCategories
                                       ELSE {}
    OBVIOUS
  <2>2. PICK r : r = [q EXCEPT !.op = "commit", !.seen = seen]
    OBVIOUS
  <2>3. Proceed(h, r) /\ q.op = "clear"
    BY <1>1, <1>3, <1>5, <2>1, <2>2 DEF TalentUpdateClearSub
  <2>4. r.op = "commit" /\ r.talent = q.talent /\ r.patch = q.patch /\ r.seen = seen
    BY <1>3, <2>2
  <2>5. Current(q) => Current(r)'
    BY <1>2, <2>1, <2>3, <2>4 DEF Current
  <2>6. QED BY <1>1, <1>2, <2>3, <2>5, ProceedMoves, TagsStay, SequenceGoesOn
<1>6. QED BY <1>4, <1>5

(* A row and what is remembered of it are written.                         *)
LEMMA TagsWritten ==
  ASSUME IInv, TagsSaved, NEW t \in Talents, NEW row, NEW was,
         talents' = [talents EXCEPT ![t] = row],
         saved' = [saved EXCEPT ![t] = was],
         row.categories = was.categories \cap categories,
         row.subCategories = was.subCategories \cap SubCategoryIds,
         UNCHANGED taxonomy
  PROVE  TagsSaved'
<1>1. /\ \A u \in Talents : talents'[u] = IF u = t THEN row ELSE talents[u]
      /\ \A u \in Talents : saved'[u] = IF u = t THEN was ELSE saved[u]
  BY TypeParts DEF IInv, TablesOK, SavedOK
<1>2. categories' = categories /\ SubCategoryIds' = SubCategoryIds
  BY DEF taxonomy, SubCategoryIds
<1>3. ASSUME NEW u \in Talents, HasTalent(u)'
      PROVE  /\ talents'[u].categories = saved'[u].categories \cap categories'
             /\ talents'[u].subCategories
                  = saved'[u].subCategories \cap SubCategoryIds'
  <2>1. CASE u = t BY <1>1, <1>2, <2>1
  <2>2. CASE u # t BY <1>1, <1>2, <1>3, <2>2 DEF TagsSaved, HasTalent
  <2>3. QED BY <2>1, <2>2
<1>4. QED BY <1>3 DEF TagsSaved

LEMMA CreateCommitInSequence ==
  ASSUME IInv, InSequence, NEW h \in Slots, TalentCreateCommit(h)
  PROVE  InSequence'
<1>1. PICK q : q = req[h] /\ ReqOK(q) /\ RequestKnows(q)
  BY RequestAt
<1>2. /\ q.op = "create" /\ q.talent \in Talents /\ q.patch \in Details
      /\ Proceed(h, Idle) /\ q # Idle /\ UNCHANGED taxonomy
  BY <1>1, ReqTypes DEF TalentCreateCommit, RequestKnows, Finish, Idle
<1>3. CASE ReferencesHold(q.patch)
  <2>1. PICK row : row = [f \in {"deleted"} \cup DOMAIN q.patch |->
                            IF f = "deleted" THEN FALSE ELSE q.patch[f]]
    OBVIOUS
  <2>2. PICK was : was = Tags(row)
    OBVIOUS
  <2>3. /\ talents' = [talents EXCEPT ![q.talent] = row]
        /\ saved' = [saved EXCEPT ![q.talent] = was]
    BY <1>1, <1>3, <2>1, <2>2 DEF TalentCreateCommit
  <2>4. /\ row.categories = q.patch.categories
        /\ row.subCategories = q.patch.subCategories
    BY <1>2, <2>1 DEF Details
  <2>5. /\ q.patch.categories \subseteq categories
        /\ q.patch.subCategories \subseteq SubCategoryIds
    BY <1>2, <1>3 DEF ReferencesHold, Details
  <2>6. /\ row.categories = was.categories \cap categories
        /\ row.subCategories = was.subCategories \cap SubCategoryIds
    BY <2>2, <2>4, <2>5 DEF Tags
  <2>7. TagsSaved => TagsSaved'
    BY <1>2, <2>3, <2>6, TagsWritten
  <2>8. QED BY <1>1, <1>2, <2>7, ProceedMoves, IdleIsCurrent, SequenceGoesOn
<1>4. CASE ~ ReferencesHold(q.patch)
  <2>1. talents' = talents /\ saved' = saved
    BY <1>1, <1>4 DEF TalentCreateCommit
  <2>2. QED
    BY <1>1, <1>2, <2>1, ProceedMoves, TagsStay, IdleIsCurrent, SequenceGoesOn
<1>5. QED BY <1>3, <1>4

LEMMA UpdateCommitInSequence ==
  ASSUME IInv, InSequence, NEW h \in Slots, TalentUpdateCommit(h)
  PROVE  InSequence'
<1>1. PICK q : q = req[h] /\ ReqOK(q) /\ RequestKnows(q)
  BY RequestAt
<1>2. /\ q.op = "commit" /\ q.talent \in Talents /\ IsPatch(q.patch)
      /\ HasTalent(q.talent) /\ q # Idle /\ UNCHANGED taxonomy
  BY <1>1, ReqTypes DEF TalentUpdateCommit, RequestKnows, Idle
<1>3. CASE ReferencesHold(q.patch) /\ PrimaryKeysHold(q) /\ ~ overlapped
  <2>1. SequenceSound
    BY <1>3 DEF InSequence
  <2>2. Current(q) /\ TagsSaved
    BY <1>1, <2>1 DEF SequenceSound
  <2>3. PICK old : old = talents[q.talent] /\ old \in TalentRow
    BY <1>2, TypeParts, Rows DEF IInv
  <2>4. PICK row : row = Updated(q, talents[q.talent])
    OBVIOUS
  <2>5. PICK was : was = saved[q.talent]
                     /\ was \in [categories : SUBSET Categories,
                                 subCategories : SUBSET SubCategories]
    BY <1>2, TypeParts DEF IInv, SavedOK
  <2>6. PICK now : now = [f \in DOMAIN was |->
                            IF f \in DOMAIN q.patch THEN q.patch[f] ELSE was[f]]
    OBVIOUS
  <2>7. /\ talents' = [talents EXCEPT ![q.talent] = row]
        /\ saved' = [saved EXCEPT ![q.talent] =
             [f \in DOMAIN @ |-> IF f \in DOMAIN q.patch THEN q.patch[f] ELSE @[f]]]
        /\ req' = [k \in Slots |->
             IF k = h THEN Idle
             ELSE IF req[k].op \in {"clear", "commit"} /\ req[k].talent = q.talent
             THEN [req[k] EXCEPT !.seen = @ \ q.seen] ELSE req[k]]
    BY <1>1, <1>3, <2>4 DEF TalentUpdateCommit
  <2>8. saved' = [saved EXCEPT ![q.talent] = now]
    BY <2>5, <2>6, <2>7
  <2>9. row = [f \in DOMAIN old |->
                 IF f \notin DOMAIN q.patch THEN old[f]
                 ELSE IF f \in {"categories", "subCategories"}
                      THEN (old[f] \ q.seen) \cup q.patch[f]
                      ELSE q.patch[f]]
    BY <2>3, <2>4 DEF Updated, Left
  <2>10. DOMAIN old = {"deleted", "isFeatured", "city", "location", "categories",
                       "subCategories", "preferredCities"}
    BY <2>3 DEF TalentRow
  <2>11. /\ row.categories = IF "categories" \in DOMAIN q.patch
                             THEN (old.categories \ q.seen) \cup q.patch.categories
                             ELSE old.categories
         /\ row.subCategories = IF "subCategories" \in DOMAIN q.patch
                   THEN (old.subCategories \ q.seen) \cup q.patch.subCategories
                   ELSE old.subCategories
    BY <2>9, <2>10
  <2>12. /\ "categories" \in DOMAIN q.patch => old.categories \subseteq q.seen
         /\ "subCategories" \in DOMAIN q.patch => old.subCategories \subseteq q.seen
    BY <1>2, <2>2, <2>3 DEF Current
  <2>13. /\ now.categories = IF "categories" \in DOMAIN q.patch
                             THEN q.patch.categories ELSE was.categories
         /\ now.subCategories = IF "subCategories" \in DOMAIN q.patch
                                THEN q.patch.subCategories ELSE was.subCategories
    BY <2>5, <2>6
  <2>14. /\ old.categories = was.categories \cap categories
         /\ old.subCategories = was.subCategories \cap SubCategoryIds
    BY <1>2, <2>2, <2>3, <2>5 DEF TagsSaved
  <2>15. /\ "categories" \in DOMAIN q.patch => q.patch.categories \subseteq categories
         /\ "subCategories" \in DOMAIN q.patch =>
              q.patch.subCategories \subseteq SubCategoryIds
    BY <1>3 DEF ReferencesHold
  <2>16. /\ row.categories = now.categories \cap categories
         /\ row.subCategories = now.subCategories \cap SubCategoryIds
    BY <2>11, <2>12, <2>13, <2>14, <2>15
  <2>17. TagsSaved'
    BY <1>2, <2>2, <2>7, <2>8, <2>16, TagsWritten
  <2>18. req'[h] = Idle /\ \A k \in Slots \ {h} : req'[k] = Idle
    <3> SUFFICES ASSUME NEW k \in Slots, k # h PROVE req'[k] = Idle
      BY <2>7
    <3>1. req[k] = Idle
      BY <1>1, <1>2, <2>1 DEF SequenceSound, OneAtATime
    <3>2. req[k].op \notin {"clear", "commit"}
      BY <3>1 DEF Idle
    <3>3. QED BY <2>7, <3>1, <3>2
  <2>19. QED BY <2>17, <2>18, IdleIsCurrent, OneGoesOn
<1>4. CASE ReferencesHold(q.patch) /\ PrimaryKeysHold(q) /\ overlapped
  BY <1>1, <1>4 DEF TalentUpdateCommit, InSequence
<1>5. CASE ~ (ReferencesHold(q.patch) /\ PrimaryKeysHold(q))
  <2>1. talents' = talents /\ saved' = saved /\ Proceed(h, Idle)
    BY <1>1, <1>5 DEF TalentUpdateCommit, Finish
  <2>2. QED
    BY <1>1, <1>2, <2>1, ProceedMoves, TagsStay, IdleIsCurrent, SequenceGoesOn
<1>6. QED BY <1>3, <1>4, <1>5

LEMMA RosterInSequence ==
  ASSUME IInv, InSequence, RosterNext
  PROVE  InSequence'
BY ChecksInSequence, RosterReadsInSequence, CreateCommitInSequence,
   UpdateCommitInSequence, TalentsGoInSequence DEF RosterNext

(***************************************************************************)
(* The folders.                                                            *)
(***************************************************************************)
LEMMA FinishInSequence ==
  ASSUME IInv, InSequence, NEW h \in Slots, req[h] # Idle, Finish(h),
         UNCHANGED <<taxonomy, talents, saved>>
  PROVE  InSequence'
  BY ProceedMoves, TagsStay, IdleIsCurrent, SequenceGoesOn DEF Finish

CountedNothing(r) ==
  \/ r.op \in {"mkdir", "mvdir", "file"}
  \/ r.op = "rmdir" /\ r.counted = {}

LEMMA FolderFindsInSequence ==
  ASSUME IInv, InSequence, NEW h \in Slots, NEW r, Begin(h, "folders", r),
         CountedNothing(r),
         UNCHANGED <<taxonomy, talents, saved>>
  PROVE  InSequence'
<1>1. Current(r)'
  BY DEF Current, CountedNothing
<1>2. QED BY <1>1, BeginMoves, TagsStay, SequenceGoesOn

LEMMA FolderCountsInSequence ==
  ASSUME IInv, InSequence, NEW h \in Slots,
         FolderCountAssets(h) \/ FolderCountFolders(h)
  PROVE  InSequence'
<1>1. PICK q : q = req[h] /\ ReqOK(q)
  BY RequestAt
<1>2. /\ q \in [op : {"rmdir"}, folder : Folders, counted : SUBSET {"assets", "folders"}]
      /\ q.op = "rmdir" /\ q # Idle
      /\ UNCHANGED <<taxonomy, talents, media, saved>>
  BY <1>1 DEF ReqOK, Idle, FolderCountAssets, FolderCountFolders
<1>3. ASSUME NEW count, Proceed(h, [q EXCEPT !.counted = @ \cup {count}]),
             \/ count = "assets" /\ \A a \in Assets : assets[a] # q.folder
             \/ count = "folders" /\ \A f \in Folders : folders[f] # q.folder
      PROVE  InSequence'
  <2>1. PICK r : r = [q EXCEPT !.counted = @ \cup {count}]
    OBVIOUS
  <2>2. r.op = "rmdir" /\ r.folder = q.folder /\ r.counted = q.counted \cup {count}
    BY <1>2, <2>1
  <2>3. Current(q) => Current(r)'
    BY <1>2, <1>3, <2>2 DEF Current, media
  <2>4. QED BY <1>1, <1>2, <1>3, <2>1, <2>3, ProceedMoves, TagsStay, SequenceGoesOn
<1>4. CASE FolderCountAssets(h)
  BY <1>1, <1>3, <1>4 DEF FolderCountAssets
<1>5. CASE FolderCountFolders(h)
  BY <1>1, <1>3, <1>5 DEF FolderCountFolders
<1>6. QED BY <1>4, <1>5

LEMMA FoldersInSequence ==
  ASSUME IInv, InSequence, FoldersNext
  PROVE  InSequence'
<1>1. ASSUME NEW h \in Slots, NEW dest, FolderCreateFind(h, dest)
      PROVE  InSequence'
  <2>1. PICK r : r = [op |-> "mkdir", parent |-> dest]
    OBVIOUS
  <2>2. /\ Begin(h, "folders", r) /\ CountedNothing(r)
        /\ UNCHANGED <<taxonomy, talents, saved>>
    BY <1>1, <2>1 DEF FolderCreateFind, CountedNothing
  <2>3. QED BY <2>2, FolderFindsInSequence
<1>2. ASSUME NEW h \in Slots, NEW f, NEW dest, FolderUpdateFind(h, f, dest)
      PROVE  InSequence'
  <2>1. PICK r : r = [op |-> "mvdir", folder |-> f, parent |-> dest]
    OBVIOUS
  <2>2. /\ Begin(h, "folders", r) /\ CountedNothing(r)
        /\ UNCHANGED <<taxonomy, talents, saved>>
    BY <1>2, <2>1 DEF FolderUpdateFind, CountedNothing
  <2>3. QED BY <2>2, FolderFindsInSequence
<1>3. ASSUME NEW h \in Slots, NEW ids, NEW dest, FileFind(h, dest, ids)
      PROVE  InSequence'
  <2>1. PICK r : r = [op |-> "file", folder |-> dest, assets |-> ids]
    OBVIOUS
  <2>2. /\ Begin(h, "folders", r) /\ CountedNothing(r)
        /\ UNCHANGED <<taxonomy, talents, saved>>
    BY <1>3, <2>1 DEF FileFind, CountedNothing
  <2>3. QED BY <2>2, FolderFindsInSequence
<1>4. ASSUME NEW h \in Slots, NEW f, FolderRemoveFind(h, f)
      PROVE  InSequence'
  <2>1. PICK r : r = [op |-> "rmdir", folder |-> f, counted |-> {}]
    OBVIOUS
  <2>2. /\ Begin(h, "folders", r) /\ CountedNothing(r)
        /\ UNCHANGED <<taxonomy, talents, saved>>
    BY <1>4, <2>1 DEF FolderRemoveFind, CountedNothing
  <2>3. QED BY <2>2, FolderFindsInSequence
<1>5. ASSUME NEW h \in Slots,
             FolderCreate(h) \/ FolderUpdate(h) \/ FolderRemove(h) \/ FileAssets(h)
      PROVE  InSequence'
  <2>1. /\ Finish(h) /\ req[h] # Idle /\ UNCHANGED <<taxonomy, talents, saved>>
    BY <1>5 DEF FolderCreate, FolderUpdate, FolderRemove, FileAssets, Idle
  <2>2. QED BY <2>1, FinishInSequence
<1>6. QED BY <1>1, <1>2, <1>3, <1>4, <1>5, FolderCountsInSequence DEF FoldersNext

-----------------------------------------------------------------------------
LEMMA InitInSequence == Init => InSequence
<1> SUFFICES ASSUME Init PROVE SequenceSound
  BY DEF InSequence
<1>1. \A h \in Slots : req[h] = Idle
  BY DEF Init
<1>2. OneAtATime /\ \A h \in Slots : Current(req[h])
  BY <1>1 DEF OneAtATime, Current, Idle
<1>3. TagsSaved
  BY DEF Init, TagsSaved, HasTalent
<1>4. QED BY <1>2, <1>3 DEF SequenceSound

LEMMA SequenceStep ==
  ASSUME IInv, InSequence, [Next]_catalogueVars
  PROVE  InSequence'
<1>1. ASSUME NEW h \in Slots, Abort(h) PROVE InSequence'
  BY <1>1, FinishInSequence DEF Abort
<1>2. CASE UNCHANGED catalogueVars
  BY <1>2
     DEF InSequence, SequenceSound, OneAtATime, TagsSaved, Current, HasTalent,
         SubCategoryIds, catalogueVars, places, taxonomy, media
<1>3. QED BY <1>1, <1>2, LookupsInSequence, RosterInSequence, FoldersInSequence
      DEF Next

(* What is so as long as no two requests overlap.                          *)
THEOREM Sequence == Spec => [](IInv /\ InSequence)
<1>1. IInv /\ InSequence /\ [Next]_catalogueVars => InSequence'
  BY SequenceStep
<1>2. QED BY InitInSequence, <1>1, Invariance, PTL DEF Spec

(* In sequence a talent's tags are the ones last saved for it, of those    *)
(* that still exist.                                                       *)
THEOREM TagsAreTheSaved == Spec => []TagsAsSaved
<1>1. IInv /\ InSequence => TagsAsSaved
  BY DEF InSequence, SequenceSound, TagsSaved, TagsAsSaved
<1>2. QED BY <1>1, Sequence, PTL

(* Only its removal takes a folder's row, and only once both counts found  *)
(* nothing in it.                                                          *)
LEMMA FoldersGo ==
  ASSUME IInv, InSequence, NEW h \in Slots, FolderRemove(h), ~ overlapped',
         NEW f \in FolderIds, folders'[f] = None
  PROVE  assets' = assets /\ \A g \in Folders \ {f} : folders'[g] = folders[g]
<1>1. PICK q : q = req[h] /\ ReqOK(q)
  BY RequestAt
<1>2. /\ q.op = "rmdir" /\ q.counted = {"assets", "folders"} /\ ~ overlapped
      /\ folders' = [g \in Folders |->
           IF g = q.folder THEN None
           ELSE IF folders[g] = q.folder THEN Root ELSE folders[g]]
      /\ assets' = [a \in Assets |->
           IF assets[a] = q.folder THEN Root ELSE assets[a]]
  BY <1>1 DEF FolderRemove, Finish, Proceed
<1>3. Current(q)
  BY <1>1, <1>2 DEF InSequence, SequenceSound
<1>4. /\ \A a \in Assets : assets[a] # q.folder
      /\ \A g \in Folders : folders[g] # q.folder
  BY <1>2, <1>3 DEF Current
<1>5. f \in Folders /\ folders[f] # None
  BY DEF FolderIds
<1>6. f = q.folder
  BY <1>2, <1>4, <1>5
<1>7. assets' = assets
  BY <1>2, <1>4, TypeParts DEF IInv, TablesOK
<1>8. QED BY <1>2, <1>4, <1>6, <1>7

LEMMA FoldersStay ==
  ASSUME IInv, NEW h \in Slots, FolderCreate(h) \/ FolderUpdate(h), NEW f \in FolderIds
  PROVE  folders'[f] # None
<1>1. PICK q : q = req[h] /\ ReqOK(q)
  BY RequestAt
<1>2. PICK g \in Folders, parent \in Folders \cup {Root} :
        Found(parent) /\ folders' = [folders EXCEPT ![g] = parent]
  BY <1>1 DEF FolderCreate, FolderUpdate, ReqOK, Idle
<1>3. parent # None
  BY <1>2, NoneAssumption DEF Found, FolderIds, Root, None
<1>4. f \in Folders /\ folders[f] # None
  BY DEF FolderIds
<1>5. QED BY <1>2, <1>3, <1>4, TypeParts DEF IInv, TablesOK

LEMMA RemovalStep ==
  ASSUME IInv, InSequence, [Next]_catalogueVars, ~ overlapped',
         NEW f \in FolderIds, folders'[f] = None
  PROVE  assets' = assets /\ \A g \in Folders \ {f} : folders'[g] = folders[g]
<1>1. folders[f] # None
  BY DEF FolderIds
<1>2. CASE folders' = folders
  BY <1>1, <1>2
<1>3. CASE LookupsNext
  <2>1. folders' = folders
    BY <1>3
       DEF LookupsNext, CityCreate, CityRemove, LocationCreate, LocationUpdate,
           LocationRemove, CategoryCreate, CategoryRemove, SubCategoryCreate,
           SubCategoryUpdate, SubCategoryRemove, media
  <2>2. QED BY <1>2, <2>1
<1>4. CASE RosterNext
  <2>1. folders' = folders
    BY <1>4
       DEF RosterNext, TalentCreateCheck, TalentUpdateCheck, TalentCreateCommit,
           TalentUpdateClear, TalentUpdateClearSub, TalentUpdateCommit,
           TalentRemove, media
  <2>2. QED BY <1>2, <2>1
<1>5. CASE FoldersNext
  <2>1. \/ folders' = folders
        \/ \E h \in Slots : FolderCreate(h) \/ FolderUpdate(h) \/ FolderRemove(h)
    BY <1>5
       DEF FoldersNext, FolderCreateFind, FolderUpdateFind, FileFind,
           FolderRemoveFind, FolderCountAssets, FolderCountFolders, FileAssets,
           media
  <2>2. QED BY <1>2, <2>1, FoldersStay, FoldersGo
<1>6. ASSUME NEW h \in Slots, Abort(h) PROVE folders' = folders
  BY <1>6 DEF Abort, media
<1>7. CASE UNCHANGED catalogueVars
  BY <1>2, <1>7 DEF catalogueVars, media
<1>8. QED BY <1>2, <1>3, <1>4, <1>5, <1>6, <1>7 DEF Next

(* In sequence, removing a folder leaves every image and every other       *)
(* folder where it was.                                                    *)
THEOREM RemovalsUnfileNothing == Spec => RemovalUnfilesNothing
<1>1. IInv /\ InSequence /\ [Next]_catalogueVars =>
        [~ overlapped' =>
           \A f \in FolderIds : folders'[f] = None =>
             /\ assets' = assets
             /\ \A g \in Folders \ {f} : folders'[g] = folders[g]]_catalogueVars
  BY RemovalStep
<1>2. QED BY <1>1, Sequence, PTL DEF Spec, RemovalUnfilesNothing
=============================================================================
