--------------------------- MODULE CatalogueStore ---------------------------
(***************************************************************************)
(* The tables of apps/api/prisma/schema.prisma behind the talent           *)
(* catalogue: places, taxonomy and talents; and the media folders with the *)
(* folder of each asset.  talent_category_map and talent_subcategory_map   *)
(* are the sets of ids in a talent's row, and preferred_city_ids is an     *)
(* array in it that no foreign key guards.  Names, slugs and isActive are   *)
(* left out: nothing below depends on them, and a request that breaks a    *)
(* unique index changes nothing.                                           *)
(*                                                                         *)
(* An id that no row, no request and no history holds may be used again:   *)
(* the database would draw a new one, which nobody could tell from it.     *)
(***************************************************************************)
EXTENDS Naturals, FiniteSets

CONSTANTS
  Cities, Locations, Categories, SubCategories, Talents,  \* ids of rows
  Folders,              \* ids of media_folders rows
  Assets,               \* ids of media_assets rows
  Slots,                \* requests in flight at once
  MAX_FEATURED_TALENTS,
  Workloads             \* bound: operations one behaviour may use, fields of
                        \* a talent it may set, talents it may insert

ASSUME CapAssumption == MAX_FEATURED_TALENTS \in Nat
ASSUME SlotsAssumption == IsFiniteSet(Slots)

VARIABLES
  cities,         \* cities: the ids of its rows
  locations,      \* locations: id -> city, or None without a row
  categories,     \* talent_categories: the ids of its rows
  subCategories,  \* talent_subcategories: id -> category, or None
  talents,        \* talents with their two maps
  folders,        \* media_folders: id -> parent, or None
  assets,         \* media_assets: id -> folder, or None
  req,            \* what the request in each slot will do next
  workload,       \* one of Workloads
  saved,          \* history: the tags last saved for each talent
  overlapped      \* history: two requests have been in flight at once

places == <<cities, locations>>
taxonomy == <<categories, subCategories>>
media == <<folders, assets>>
catalogueVars ==
  <<places, taxonomy, talents, media, req, workload, saved, overlapped>>

None == "none"       \* no row, and null
Root == "root"       \* no folder, and a folder without a parent
Idle == [op |-> "idle"]
NoTalent == [city |-> None]

ASSUME NoneAssumption == None \notin Cities \cup Categories \cup Folders

TalentRow == [deleted : BOOLEAN, isFeatured : BOOLEAN,
              city : Cities, location : Locations \cup {None},
              categories : SUBSET Categories,
              subCategories : SUBSET SubCategories,
              preferredCities : SUBSET Cities]

HasTalent(t) == talents[t] # NoTalent
LiveTalent(t) == HasTalent(t) /\ ~ talents[t].deleted

(* The ids of rows. *)
LocationIds == {l \in Locations : locations[l] # None}
SubCategoryIds == {s \in SubCategories : subCategories[s] # None}

(* What assertFeaturedSlotAvailable counts. *)
Featured == {t \in Talents : LiveTalent(t) /\ talents[t].isFeatured}

(* Some request in flight holds the id x in the fields it will write, or   *)
(* the history does, or an array that no foreign key guards.               *)
Mentioned(x) ==
  \/ \E t \in Talents : x \in saved[t].categories \cup saved[t].subCategories
  \/ \E t \in Talents : HasTalent(t) /\ x \in talents[t].preferredCities
  \/ \E k \in Slots : "patch" \in DOMAIN req[k] /\
    LET patch == req[k].patch IN
      \/ \E f \in DOMAIN patch \cap {"city", "location"} : patch[f] = x
      \/ \E f \in DOMAIN patch \cap {"categories", "subCategories", "preferredCities"} :
           x \in patch[f]
      \/ x \in req[k].seen

-----------------------------------------------------------------------------
(* A request of the given operation arrives in slot h, and its first await *)
(* leaves it with r.                                                       *)
Begin(h, operation, r) ==
  /\ operation \in workload.ops
  /\ req[h] = Idle
  /\ req' = [req EXCEPT ![h] = r]
  /\ overlapped' = (overlapped \/ \E k \in Slots : req[k] # Idle)
  /\ UNCHANGED workload

(* One whose writes are a single step. *)
AtOnce(h, operation) == Begin(h, operation, Idle)

Proceed(h, r) ==
  /\ req' = [req EXCEPT ![h] = r]
  /\ UNCHANGED <<workload, overlapped>>

Finish(h) == Proceed(h, Idle)

(* The process stops, or the database refuses: what was committed stays.   *)
Abort(h) ==
  /\ req[h] # Idle
  /\ Finish(h)
  /\ UNCHANGED <<places, taxonomy, talents, media, saved>>
=============================================================================
