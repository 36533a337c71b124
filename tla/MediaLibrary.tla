---------------------------- MODULE MediaLibrary ----------------------------
(***************************************************************************)
(* MediaService, TalentGallery and HeroService over the tables and the     *)
(* Cloudinary account they share.                                          *)
(***************************************************************************)
EXTENDS MediaService, TalentGallery, HeroService

(* A library no request is working on: uploaded images, and legacy ones    *)
(* (migration 20260722100000), none of them placed or trashed.             *)
QuietLibrary ==
  {rows \in [Assets -> {NoAsset} \cup AssetRow] :
     /\ \A a \in Assets : rows[a] # NoAsset =>
          /\ rows[a].deletedAt = "null"
          /\ rows[a].publicId = None <=> rows[a].contentHash = None
     /\ \A a, b \in Assets :
          (a # b /\ rows[a] # NoAsset /\ rows[b] # NoAsset) =>
             /\ rows[a].publicId = rows[b].publicId => rows[a].publicId = None
             /\ rows[a].contentHash = rows[b].contentHash =>
                  rows[a].contentHash = None}

Init ==
  /\ asset \in QuietLibrary
  /\ remote = [o \in Objects |->
                 IF \E a \in Assets : HasObject(a, o) THEN "upload" ELSE "absent"]
  /\ usages = {}
  /\ gallery = [m \in MediaIds |-> NoMedia]
  /\ heroIds = {}
  /\ retired = {}
  /\ req = [h \in Slots |-> Idle]
  /\ workload \in Workloads
  /\ overlapped = FALSE
  /\ faults = {}

Next ==
  \/ MediaNext
  \/ GalleryNext
  \/ HeroNext
  \/ \E h \in Slots : Abort(h)

Spec == Init /\ [][Next]_mediaVars
-----------------------------------------------------------------------------
MediaReq ==
  {Idle}
  \cup [op : {"upload"}, hash : Hashes]
  \cup [op : {"create"}, hash : Hashes, object : Objects]
  \cup [op : {"destroy"}, object : Objects]
  \cup [op : {"replace"}, asset : Assets, hash : Hashes,
        old : Objects \cup {None}]
  \cup [op : {"repoint"}, asset : Assets, hash : Hashes,
        old : Objects \cup {None}, object : Objects]
  \cup [op : {"count", "trash", "hero"}, assets : SUBSET Assets]
  \cup [op : {"restore"}, asset : Assets]
  \cup [op : {"purge"}, asset : Assets, old : Objects \cup {None}]
  \cup [op : {"add"}, talent : Talents, asset : Assets]
  \cup [op : {"adding"}, talent : Talents, asset : Assets,
        existingCount : 0 .. Cardinality(MediaIds)]
  \cup [op : {"insert"}, talent : Talents, asset : Assets,
        existingCount : 0 .. Cardinality(MediaIds), isPrimary : BOOLEAN,
        locked : SUBSET MediaIds]
  \cup [op : {"unlist"}, media : MediaIds, asset : Assets, talent : Talents,
        isPrimary : BOOLEAN]
  \cup [op : {"primary"}, media : MediaIds, talent : Talents]
  \cup [op : {"promote"}, media : MediaIds, talent : Talents,
        locked : SUBSET MediaIds]
  \cup [op : {"reorder"},
        order : UNION {Orders(rows) : rows \in SUBSET MediaIds}]
  \cup [op : {"save"}, assets : SUBSET Assets, old : SUBSET Usage]

(* The type of every table, of Cloudinary and of every request in flight.  *)
TypeOK ==
  /\ asset \in [Assets -> {NoAsset} \cup AssetRow]
  /\ remote \in [Objects -> {"absent", "upload", "replace"}]
  /\ usages \subseteq Usage
  /\ gallery \in [MediaIds -> {NoMedia} \cup MediaRow]
  /\ heroIds \subseteq Assets
  /\ retired \subseteq Talents
  /\ req \in [Slots -> MediaReq]
  /\ workload \in Workloads
  /\ overlapped \in BOOLEAN
  /\ faults \subseteq {"stop", "reply lost"}

(***************************************************************************)
(* No page shows a broken image: whatever requests race and wherever one   *)
(* is cut short, the image of every row is still at Cloudinary.  (Unless   *)
(* the reply to upload's insert was lost: then its catch block deletes the *)
(* image of a row that exists.)                                            *)
(***************************************************************************)
NoBrokenImage ==
  "reply lost" \notin faults =>
    \A a \in Assets, o \in Objects : HasObject(a, o) => remote[o] # "absent"

(***************************************************************************)
(* A gallery's rows and the usages that protect its images from Trash are  *)
(* the same pairs, and every image in a gallery has its row: galleries and *)
(* permanent deletion may race in any way.                                 *)
(***************************************************************************)
UsageMatchesGallery ==
  /\ \A m \in MediaIds : InGallery(m) => HasRow(gallery[m].asset)
  /\ \A t \in Talents, a \in Assets :
       [asset |-> a, entity |-> t] \in usages
         <=> \E m \in GalleryOf(t) : gallery[m].asset = a

(***************************************************************************)
(* media.service.ts:155 "never leave an orphaned remote asset with no      *)
(* local record": while no request is cut short, what an upload stored is  *)
(* always held by a row or by a request still working on it.  (What        *)
(* replace stores can be orphaned: when the new bytes are another asset's, *)
(* and when two replacements of one asset race.)                           *)
(***************************************************************************)
UploadsNeverOrphaned ==
  faults = {} =>
    \A o \in Objects : remote[o] = "upload" =>
      \/ \E a \in Assets : HasObject(a, o)
      \/ \E h \in Slots : Holds(req[h], "object", o)

(***************************************************************************)
(* remove and bulkDelete only trash what nothing uses: as long as no two   *)
(* requests overlapped, every image placed in a gallery or on the home     *)
(* page is live.                                                           *)
(***************************************************************************)
UsedIsLive ==
  ~ overlapped => \A u \in usages : Live(u.asset)

(***************************************************************************)
(* The home page shows every image the settings list, and the usages are   *)
(* exactly those: in sequence no image of it is trashed, and none stays    *)
(* protected that the settings no longer name.                             *)
(***************************************************************************)
HeroProtected ==
  ~ overlapped => /\ HeroShown = heroIds
                  /\ HeroUsages = [asset : heroIds, entity : {HERO}]

Primaries(t) == {m \in GalleryOf(t) : gallery[m].isPrimary}

(***************************************************************************)
(* A gallery that has a primary image keeps having exactly one until it is *)
(* empty: whichever image is removed, made primary or added, in sequence.  *)
(***************************************************************************)
PrimaryKept ==
  [][~ overlapped' =>
       \A t \in Talents :
         (Primaries(t) # {} /\ GalleryOf(t)' # {}) =>
           Cardinality(Primaries(t)') = 1]_mediaVars
=============================================================================
