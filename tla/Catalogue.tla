----------------------------- MODULE Catalogue -----------------------------
(***************************************************************************)
(* The lookup services, TalentService and the media folders over the       *)
(* tables they share.                                                      *)
(***************************************************************************)
EXTENDS Lookups, TalentRoster, MediaFolders

NoTags == [categories |-> {}, subCategories |-> {}]

(* A catalogue that has its cities and nothing else yet. *)
Init ==
  /\ cities = Cities
  /\ locations = [l \in Locations |-> None]
  /\ categories = {}
  /\ subCategories = [s \in SubCategories |-> None]
  /\ talents = [t \in Talents |-> NoTalent]
  /\ folders = [f \in Folders |-> None]
  /\ assets = [a \in Assets |-> None]
  /\ req = [h \in Slots |-> Idle]
  /\ workload \in Workloads
  /\ saved = [t \in Talents |-> NoTags]
  /\ overlapped = FALSE

Next ==
  \/ LookupsNext
  \/ RosterNext
  \/ FoldersNext
  \/ \E h \in Slots : Abort(h)

Spec == Init /\ [][Next]_catalogueVars
-----------------------------------------------------------------------------
(* The bodies a request may carry: some of the fields of a talent.         *)
IsPatch(patch) ==
  /\ DOMAIN patch \subseteq TalentFields
  /\ "isFeatured" \in DOMAIN patch => patch.isFeatured \in BOOLEAN
  /\ "city" \in DOMAIN patch => patch.city \in Cities
  /\ "location" \in DOMAIN patch => patch.location \in Locations \cup {None}
  /\ "categories" \in DOMAIN patch => patch.categories \subseteq Categories
  /\ "subCategories" \in DOMAIN patch => patch.subCategories \subseteq SubCategories
  /\ "preferredCities" \in DOMAIN patch => patch.preferredCities \subseteq Cities

ReqOK(r) ==
  \/ r = Idle
  \/ /\ DOMAIN r = {"op", "talent", "patch", "seen"}
     /\ r.op \in {"create", "update", "clear", "commit"}
     /\ r.talent \in Talents
     /\ IsPatch(r.patch)
     /\ r.seen \subseteq Categories \cup SubCategories
  \/ r \in [op : {"mkdir"}, parent : Folders \cup {Root}]
  \/ r \in [op : {"mvdir"}, folder : Folders, parent : Folders \cup {Root}]
  \/ r \in [op : {"rmdir"}, folder : Folders, counted : SUBSET {"assets", "folders"}]
  \/ r \in [op : {"file"}, folder : Folders \cup {Root}, assets : SUBSET Assets]

(* The type of every table and of every request in flight. *)
TypeOK ==
  /\ cities \subseteq Cities
  /\ locations \in [Locations -> Cities \cup {None}]
  /\ categories \subseteq Categories
  /\ subCategories \in [SubCategories -> Categories \cup {None}]
  /\ talents \in [Talents -> {NoTalent} \cup TalentRow]
  /\ folders \in [Folders -> Folders \cup {Root, None}]
  /\ assets \in [Assets -> Folders \cup {Root, None}]
  /\ DOMAIN req = Slots /\ \A h \in Slots : ReqOK(req[h])
  /\ workload \in Workloads
  /\ saved \in [Talents -> [categories : SUBSET Categories,
                            subCategories : SUBSET SubCategories]]
  /\ overlapped \in BOOLEAN

(***************************************************************************)
(* Whatever is removed while talents, places, tags or images are being     *)
(* written, every reference that has a foreign key is to a row that        *)
(* exists: a page never shows a talent without a city, a tag nobody can    *)
(* name or an image in a folder that is gone.  The one without is          *)
(* talents.preferred_city_ids, an array of ids that nothing guards         *)
(* (schema.prisma:294): a city may be removed while talents still prefer   *)
(* it, or never have existed, and the public catalogue leaves out the ids  *)
(* it has no name for (talent.response.ts:206-210).                        *)
(***************************************************************************)
ReferencesExist ==
  /\ \A l \in LocationIds : locations[l] \in cities
  /\ \A s \in SubCategoryIds : subCategories[s] \in categories
  /\ \A t \in Talents : HasTalent(t) =>
       /\ talents[t].city \in cities
       /\ talents[t].location \in LocationIds \cup {None}
       /\ talents[t].categories \subseteq categories
       /\ talents[t].subCategories \subseteq SubCategoryIds
  /\ \A f \in FolderIds : Found(folders[f])
  /\ \A a \in Assets : assets[a] \in FolderIds \cup {Root, None}

(***************************************************************************)
(* talent.service.ts:56 "how many talents may be featured": as long as no  *)
(* two requests overlapped, no more are featured than the home page's row  *)
(* shows.  Requests that race past the check exceed the cap, but by no     *)
(* more than the requests there are at once: the overshoot does not add up *)
(* over time.                                                              *)
(***************************************************************************)
FeaturedCap ==
  Cardinality(Featured)
    <= MAX_FEATURED_TALENTS + (IF overlapped THEN Cardinality(Slots) - 1 ELSE 0)

(***************************************************************************)
(* In sequence a talent's tags are the ones last saved for it, of those    *)
(* that still exist: replacing them leaves no old tag behind, and a body   *)
(* without a list leaves that list alone.                                  *)
(***************************************************************************)
TagsAsSaved ==
  ~ overlapped =>
    \A t \in Talents : HasTalent(t) =>
      /\ talents[t].categories = saved[t].categories \cap categories
      /\ talents[t].subCategories = saved[t].subCategories \cap SubCategoryIds

(***************************************************************************)
(* media.service.ts:494 "a delete would silently succeed and orphan them": *)
(* in sequence, removing a folder leaves every image and every other       *)
(* folder where it was.                                                    *)
(***************************************************************************)
RemovalUnfilesNothing ==
  [][~ overlapped' =>
       \A f \in FolderIds : folders'[f] = None =>
         /\ assets' = assets
         /\ \A g \in Folders \ {f} : folders'[g] = folders[g]]_catalogueVars
=============================================================================
