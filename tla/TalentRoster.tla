---------------------------- MODULE TalentRoster ----------------------------
(***************************************************************************)
(* apps/api/src/talent/talent.service.ts but for the galleries: creating,  *)
(* updating and soft-deleting talents.  A request's patch has the fields   *)
(* its body has; the others stay as they are.                              *)
(***************************************************************************)
EXTENDS CatalogueStore

Details ==
  [isFeatured : BOOLEAN, city : Cities, location : Locations \cup {None},
   categories : SUBSET Categories, subCategories : SUBSET SubCategories,
   preferredCities : SUBSET Cities]

TalentFields == {"isFeatured", "city", "location", "categories", "subCategories",
                 "preferredCities"}

ASSUME FieldsAssumption == \A w \in Workloads : w.fields \subseteq TalentFields

(* A body whose fields the workload varies. *)
Bodies ==
  {d \in Details :
     /\ "isFeatured" \in workload.fields \/ ~ d.isFeatured
     /\ "city" \in workload.fields \/ d.city = CHOOSE c \in Cities : TRUE
     /\ "location" \in workload.fields \/ d.location = None
     /\ "categories" \in workload.fields \/ d.categories = {}
     /\ "subCategories" \in workload.fields \/ d.subCategories = {}
     /\ "preferredCities" \in workload.fields \/ d.preferredCities = {}}

(* Another request is not about to insert the same row. *)
FreshTalent(t) ==
  /\ ~ HasTalent(t)
  /\ \A k \in Slots : "talent" \in DOMAIN req[k] => req[k].talent # t

(* Mutant: the talents featured may be as many already. *)
FeaturedSlotTooMany(t) ==
  Cardinality(Featured \ {t}) <= MAX_FEATURED_TALENTS

(* assertFeaturedSlotAvailable: the talent being updated is not counted.   *)
FeaturedSlotAvailable(t) == Cardinality(Featured \ {t}) < MAX_FEATURED_TALENTS

Wants(patch) == "isFeatured" \in DOMAIN patch /\ patch.isFeatured

(* create, its check. *)
TalentCreateCheck(h, t) ==
  /\ FreshTalent(t)
  /\ Cardinality({u \in Talents : HasTalent(u)}) < workload.talents
  /\ \E body \in Bodies :
       /\ body.isFeatured => FeaturedSlotAvailable(t)
       /\ Begin(h, "talents",
                [op |-> "create", talent |-> t, patch |-> body, seen |-> {}])
  /\ UNCHANGED <<places, taxonomy, talents, media, saved>>

(* The foreign keys of what a patch sets hold.  None speaks of the cities  *)
(* preferred, which may be any ids.                                        *)
ReferencesHold(patch) ==
  /\ "city" \in DOMAIN patch => patch.city \in cities
  /\ "location" \in DOMAIN patch => patch.location \in LocationIds \cup {None}
  /\ "categories" \in DOMAIN patch => patch.categories \subseteq categories
  /\ "subCategories" \in DOMAIN patch => patch.subCategories \subseteq SubCategoryIds

Tags(row) == [categories |-> row.categories, subCategories |-> row.subCategories]

(* Mutant: the row has what the body says, and no default. *)
TalentCreateBodyOnly(h) ==
  LET r == req[h] IN
  /\ r.op = "create"
  /\ IF ReferencesHold(r.patch)
     THEN /\ talents' = [talents EXCEPT ![r.talent] = r.patch]
          /\ saved' = [saved EXCEPT ![r.talent] = Tags(r.patch)]
     ELSE UNCHANGED <<talents, saved>>
  /\ Finish(h)
  /\ UNCHANGED <<places, taxonomy, media>>

TalentCreateCommit(h) ==
  LET r == req[h]
      row == [f \in {"deleted"} \cup DOMAIN r.patch |->
                IF f = "deleted" THEN FALSE ELSE r.patch[f]]
  IN
  /\ r.op = "create"
  /\ IF ReferencesHold(r.patch)
     THEN /\ talents' = [talents EXCEPT ![r.talent] = row]
          /\ saved' = [saved EXCEPT ![r.talent] = Tags(row)]
     ELSE UNCHANGED <<talents, saved>>
  /\ Finish(h)
  /\ UNCHANGED <<places, taxonomy, media>>

-----------------------------------------------------------------------------
(* Mutant: only create checks for a featured slot. *)
TalentUpdateUnchecked(h, t) ==
  /\ LiveTalent(t)
  /\ \E body \in Bodies, fields \in SUBSET workload.fields :
       LET patch == [f \in fields |-> body[f]] IN
       /\ Begin(h, "talents",
                [op |-> "update", talent |-> t, patch |-> patch, seen |-> {}])
  /\ UNCHANGED <<places, taxonomy, talents, media, saved>>

(* update, its checks: the talent is not deleted; if it asks to be         *)
(* featured, there is room for it.                                         *)
TalentUpdateCheck(h, t) ==
  /\ LiveTalent(t)
  /\ \E body \in Bodies, fields \in SUBSET workload.fields :
       LET patch == [f \in fields |-> body[f]] IN
       /\ Wants(patch) => FeaturedSlotAvailable(t)
       /\ Begin(h, "talents",
                [op |-> "update", talent |-> t, patch |-> patch, seen |-> {}])
  /\ UNCHANGED <<places, taxonomy, talents, media, saved>>

(* Its transaction deletes the old rows of each map the body replaces, as  *)
(* they are when the statement starts: r.seen.  A statement that meets     *)
(* rows another transaction is deleting waits for that one to end.         *)
TalentUpdateClear(h) ==
  LET r == req[h] IN
  /\ r.op = "update"
  /\ Proceed(h, [r EXCEPT !.op = "clear",
       !.seen = IF "categories" \in DOMAIN r.patch
                THEN talents[r.talent].categories ELSE {}])
  /\ UNCHANGED <<places, taxonomy, talents, media, saved>>

TalentUpdateClearSub(h) ==
  LET r == req[h] IN
  /\ r.op = "clear"
  /\ \A k \in Slots \ {h} : req[k].op = "commit" => req[k].seen \cap r.seen = {}
  /\ Proceed(h, [r EXCEPT !.op = "commit",
       !.seen = @ \cup IF "subCategories" \in DOMAIN r.patch
                       THEN talents[r.talent].subCategories ELSE {}])
  /\ UNCHANGED <<places, taxonomy, talents, media, saved>>

(* What a map holds after the inserts: a row another update inserted since *)
(* the delete stays, unless it is inserted again, which the primary key    *)
(* refuses.                                                                *)
Left(r, f) == talents[r.talent][f] \ r.seen

PrimaryKeysHold(r) ==
  \A f \in DOMAIN r.patch \cap {"categories", "subCategories"} :
    Left(r, f) \cap r.patch[f] = {}

(* Mutant: the old rows of the maps are not deleted. *)
UpdatedOnTop(r, row) ==
  [f \in DOMAIN row |->
     IF f \notin DOMAIN r.patch THEN row[f]
     ELSE IF f \in {"categories", "subCategories"} THEN row[f] \cup r.patch[f]
     ELSE r.patch[f]]

Updated(r, row) ==
  [f \in DOMAIN row |->
     IF f \notin DOMAIN r.patch THEN row[f]
     ELSE IF f \in {"categories", "subCategories"} THEN Left(r, f) \cup r.patch[f]
     ELSE r.patch[f]]

(* Its inserts, the update of the talent's row and the commit.  The rows   *)
(* it deleted are gone for every other transaction waiting to delete them: *)
(* one inserted again under the same key is not the row that one saw.      *)
TalentUpdateCommit(h) ==
  LET r == req[h]
      row == Updated(r, talents[r.talent])
  IN
  /\ r.op = "commit"
  /\ IF ReferencesHold(r.patch) /\ PrimaryKeysHold(r)
     THEN /\ talents' = [talents EXCEPT ![r.talent] = row]
          /\ saved' = [saved EXCEPT ![r.talent] =
               [f \in DOMAIN @ |-> IF f \in DOMAIN r.patch THEN r.patch[f] ELSE @[f]]]
          /\ req' = [k \in Slots |->
               IF k = h THEN Idle
               ELSE IF req[k].op \in {"clear", "commit"} /\ req[k].talent = r.talent
               THEN [req[k] EXCEPT !.seen = @ \ r.seen] ELSE req[k]]
          /\ UNCHANGED <<workload, overlapped>>
     ELSE Finish(h) /\ UNCHANGED <<talents, saved>>
  /\ UNCHANGED <<places, taxonomy, media>>

(* remove of one talent, bulkAction "delete" of several: the row stays.    *)
TalentRemove(h, ids) ==
  /\ AtOnce(h, "talents")
  /\ talents' = [t \in Talents |->
       IF t \in ids /\ LiveTalent(t)
       THEN [talents[t] EXCEPT !.deleted = TRUE] ELSE talents[t]]
  /\ UNCHANGED <<places, taxonomy, media, saved>>

RosterNext ==
  \E h \in Slots :
    \/ \E t \in Talents : TalentCreateCheck(h, t) \/ TalentUpdateCheck(h, t)
    \/ TalentCreateCommit(h)
    \/ TalentUpdateClear(h)
    \/ TalentUpdateClearSub(h)
    \/ TalentUpdateCommit(h)
    \/ \E ids \in SUBSET Talents : TalentRemove(h, ids)
=============================================================================
