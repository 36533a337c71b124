------------------------ MODULE MediaLibrary_proofs ------------------------
(***************************************************************************)
(* Proofs about MediaLibrary, for any number of images, galleries and      *)
(* requests in flight, in three layers: the tables with their foreign keys *)
(* (GInv), what Cloudinary keeps of them (OInv), and what holds besides    *)
(* while requests come one at a time (InSequence).                         *)
(***************************************************************************)
EXTENDS MediaLibrary, FiniteSetTheorems, TLAPS

TablesOK ==
  /\ asset \in [Assets -> {NoAsset} \cup AssetRow]
  /\ usages \subseteq Usage
  /\ gallery \in [MediaIds -> {NoMedia} \cup MediaRow]
  /\ heroIds \subseteq Assets
  /\ retired \subseteq Talents

OthersOK ==
  /\ remote \in [Objects -> {"absent", "upload", "replace"}]
  /\ workload \in Workloads
  /\ overlapped \in BOOLEAN
  /\ faults \subseteq {"stop", "reply lost"}

LEMMA TypeParts == TypeOK <=> TablesOK /\ OthersOK /\ req \in [Slots -> MediaReq]
  BY DEF TypeOK, TablesOK, OthersOK

LEMMA TypePartsNext ==
  ASSUME TablesOK', OthersOK', req' \in [Slots -> MediaReq]
  PROVE  TypeOK'
  BY DEF TypeOK, TablesOK, OthersOK

(* What a request is, by the operation it goes on with.                    *)
LEMMA Requests ==
  ASSUME NEW r \in MediaReq
  PROVE  /\ r.op = "upload" => r \in [op : {"upload"}, hash : Hashes]
         /\ r.op = "create" =>
              r \in [op : {"create"}, hash : Hashes, object : Objects]
         /\ r.op = "destroy" => r \in [op : {"destroy"}, object : Objects]
         /\ r.op = "replace" =>
              r \in [op : {"replace"}, asset : Assets, hash : Hashes,
                     old : Objects \cup {None}]
         /\ r.op = "repoint" =>
              r \in [op : {"repoint"}, asset : Assets, hash : Hashes,
                     old : Objects \cup {None}, object : Objects]
         /\ r.op \in {"count", "trash", "hero"} =>
              r \in [op : {"count", "trash", "hero"}, assets : SUBSET Assets]
         /\ r.op = "restore" => r \in [op : {"restore"}, asset : Assets]
         /\ r.op = "purge" =>
              r \in [op : {"purge"}, asset : Assets, old : Objects \cup {None}]
  BY DEF MediaReq, Idle

LEMMA GalleryRequests ==
  ASSUME NEW r \in MediaReq
  PROVE  /\ r.op = "add" => r \in [op : {"add"}, talent : Talents, asset : Assets]
         /\ r.op = "adding" =>
              r \in [op : {"adding"}, talent : Talents, asset : Assets,
                     existingCount : 0 .. Cardinality(MediaIds)]
         /\ r.op = "insert" =>
              r \in [op : {"insert"}, talent : Talents, asset : Assets,
                     existingCount : 0 .. Cardinality(MediaIds),
                     isPrimary : BOOLEAN, locked : SUBSET MediaIds]
         /\ r.op = "unlist" =>
              r \in [op : {"unlist"}, media : MediaIds, asset : Assets,
                     talent : Talents, isPrimary : BOOLEAN]
         /\ r.op = "primary" =>
              r \in [op : {"primary"}, media : MediaIds, talent : Talents]
         /\ r.op = "promote" =>
              r \in [op : {"promote"}, media : MediaIds, talent : Talents,
                     locked : SUBSET MediaIds]
         /\ r.op = "reorder" =>
              r \in [op : {"reorder"},
                     order : UNION {Orders(rows) : rows \in SUBSET MediaIds}]
         /\ r.op = "save" =>
              r \in [op : {"save"}, assets : SUBSET Assets, old : SUBSET Usage]
  BY DEF MediaReq, Idle

LEMMA MediaRows ==
  ASSUME NEW row \in MediaRow
  PROVE  /\ row # NoMedia /\ row.talent \in Talents /\ row.asset \in Assets
         /\ row.isPrimary \in BOOLEAN
         /\ \A b \in BOOLEAN : LET new == [row EXCEPT !.isPrimary = b] IN
              /\ new \in MediaRow
              /\ new.talent = row.talent /\ new.asset = row.asset
         /\ \A n \in 0 .. Cardinality(MediaIds) :
              LET new == [row EXCEPT !.displayOrder = n] IN
              /\ new \in MediaRow
              /\ new.talent = row.talent /\ new.asset = row.asset
  BY DEF MediaRow, NoMedia

LEMMA AssetRows ==
  ASSUME NEW row \in AssetRow
  PROVE  /\ row # NoAsset /\ row.publicId \in Objects \cup {None}
         /\ row.deletedAt \in {"null", "set"}
<1>1. /\ row.publicId \in Objects \cup {None}
      /\ row.deletedAt \in {"null", "set"}
  BY DEF AssetRow
<1>2. NoAsset.deletedAt = "no row"
  BY DEF NoAsset
<1>3. QED BY <1>1, <1>2

(* How many rows a gallery has, and the places an order gives them.        *)
LEMMA GallerySizes ==
  /\ Cardinality(MediaIds) \in Nat
  /\ \A rows \in SUBSET MediaIds :
       /\ Cardinality(rows) \in 0 .. Cardinality(MediaIds)
       /\ \A order \in Orders(rows) :
            /\ DOMAIN order \in SUBSET rows
            /\ \A m \in DOMAIN order : order[m] \in 0 .. Cardinality(MediaIds)
<1>1. Cardinality(MediaIds) \in Nat
  BY MediaIdsAssumption, FS_CardinalityType
<1>2. \A rows \in SUBSET MediaIds : Cardinality(rows) \in 0 .. Cardinality(MediaIds)
  <2> TAKE rows \in SUBSET MediaIds
  <2>1. IsFiniteSet(rows) /\ Cardinality(rows) <= Cardinality(MediaIds)
    BY MediaIdsAssumption, FS_Subset
  <2>2. QED BY <1>1, <2>1, FS_CardinalityType
<1>3. ASSUME NEW rows \in SUBSET MediaIds, NEW order \in Orders(rows),
             NEW m \in DOMAIN order
      PROVE  DOMAIN order \in SUBSET rows /\ order[m] \in 0 .. Cardinality(MediaIds)
  <2>1. PICK ids \in SUBSET rows : order \in [ids -> 0 .. Cardinality(rows) - 1]
    BY DEF Orders
  <2>2. Cardinality(rows) \in 0 .. Cardinality(MediaIds)
    BY <1>2
  <2>3. order[m] \in 0 .. Cardinality(rows) - 1
    BY <1>3, <2>1
  <2>4. QED BY <1>1, <2>1, <2>2, <2>3
<1>4. ASSUME NEW rows \in SUBSET MediaIds, NEW order \in Orders(rows)
      PROVE  DOMAIN order \in SUBSET rows
  <2>1. PICK ids \in SUBSET rows : order \in [ids -> 0 .. Cardinality(rows) - 1]
    BY DEF Orders
  <2>2. QED BY <2>1
<1>5. QED BY <1>1, <1>2, <1>3, <1>4

-----------------------------------------------------------------------------
(***************************************************************************)
(* The tables and their foreign keys.                                      *)
(***************************************************************************)
GalleryUnique ==
  \A m, n \in MediaIds :
    (/\ InGallery(m) /\ InGallery(n)
     /\ gallery[m].talent = gallery[n].talent
     /\ gallery[m].asset = gallery[n].asset) => m = n

(* What a request has read of a gallery and still relies on.               *)
GalleryKnows(r) ==
  /\ (r.op = "unlist" /\ InGallery(r.media)) =>
       gallery[r.media].asset = r.asset /\ gallery[r.media].talent = r.talent
  /\ (r.op = "primary" /\ InGallery(r.media)) =>
       gallery[r.media].talent = r.talent
  /\ r.op \in {"insert", "promote"} => \A m \in r.locked : InGallery(m)
  /\ r.op = "promote" => r.media \in r.locked
  /\ r.op = "save" => \A u \in r.old : u.entity = HERO

GalleriesKnown == \A h \in Slots : GalleryKnows(req[h])

GInv == TypeOK /\ UsageMatchesGallery /\ GalleryUnique /\ GalleriesKnown

LEMMA RequestAt ==
  ASSUME GInv, NEW h \in Slots
  PROVE  req[h] \in MediaReq /\ GalleryKnows(req[h])
  BY TypeParts DEF GInv, GalleriesKnown

LEMMA IdleIsOK == Idle \in MediaReq /\ GalleryKnows(Idle) /\ GalleryKnows(Idle)'
  BY DEF MediaReq, GalleryKnows, Idle

LEMMA RequestsNext ==
  ASSUME GInv, NEW h \in Slots, NEW r \in MediaReq,
         req' = [req EXCEPT ![h] = r], GalleryKnows(r)',
         \A k \in Slots \ {h} : \A q \in MediaReq :
           q = req[k] => GalleryKnows(q)'
  PROVE  req' \in [Slots -> MediaReq] /\ GalleriesKnown'
<1>1. req \in [Slots -> MediaReq]
  BY TypeParts DEF GInv
<1>2. req' \in [Slots -> MediaReq] /\ req'[h] = r
      /\ \A k \in Slots : k # h => req'[k] = req[k]
  BY <1>1
<1>3. GalleriesKnown'
  <2> SUFFICES ASSUME NEW k \in Slots PROVE GalleryKnows(req[k])'
    BY DEF GalleriesKnown
  <2>1. PICK q \in MediaReq : q = req'[k] /\ (k = h => q = r) /\ (k # h => q = req[k])
    BY <1>1, <1>2
  <2>2. GalleryKnows(q)'
    BY <2>1
  <2>3. QED BY <2>1, <2>2 DEF GalleryKnows, InGallery
<1>4. QED BY <1>2, <1>3

(* The operation, the history and Cloudinary keep their types.             *)
Typed ==
  /\ remote' \in [Objects -> {"absent", "upload", "replace"}]
  /\ workload' = workload
  /\ overlapped' \in BOOLEAN
  /\ faults' \subseteq {"stop", "reply lost"}

(* A step that leaves galleries and usages alone, and removes no row.      *)
LEMMA AssetStep ==
  ASSUME GInv, NEW h \in Slots, NEW r \in MediaReq,
         req' = [req EXCEPT ![h] = r], GalleryKnows(r),
         asset' \in [Assets -> {NoAsset} \cup AssetRow],
         \A a \in Assets : HasRow(a) => asset'[a] # NoAsset,
         UNCHANGED <<usages, gallery, heroIds, retired>>, Typed
  PROVE  GInv'
<1>1. /\ GalleryKnows(r)'
      /\ \A k \in Slots \ {h} : \A q \in MediaReq : q = req[k] => GalleryKnows(q)'
  BY RequestAt DEF GalleryKnows, InGallery
<1>2. req' \in [Slots -> MediaReq] /\ GalleriesKnown'
  BY <1>1, RequestsNext
<1>3. TypeOK'
  BY <1>2, TypeParts DEF GInv, Typed, TypeOK, TablesOK, OthersOK
<1>4. UsageMatchesGallery'
  <2>1. \A m \in MediaIds : InGallery(m) => gallery[m].asset \in Assets
    BY TypeParts, MediaRows DEF GInv, TablesOK, InGallery
  <2>2. QED BY <2>1 DEF GInv, UsageMatchesGallery, HasRow, InGallery, GalleryOf
<1>5. GalleryUnique'
  BY DEF GInv, GalleryUnique, InGallery
<1>6. QED BY <1>2, <1>3, <1>4, <1>5 DEF GInv

(* A request that reads and goes on, or ends.                              *)
LEMMA ReadStep ==
  ASSUME GInv, NEW h \in Slots, NEW r \in MediaReq,
         req' = [req EXCEPT ![h] = r], GalleryKnows(r), UNCHANGED tables, Typed
  PROVE  GInv'
<1>1. /\ asset' \in [Assets -> {NoAsset} \cup AssetRow]
      /\ \A a \in Assets : HasRow(a) => asset'[a] # NoAsset
      /\ UNCHANGED <<usages, gallery, heroIds, retired>>
  BY TypeParts DEF GInv, TablesOK, tables, HasRow
<1>2. QED BY <1>1, AssetStep

LEMMA Frames ==
  ASSUME GInv, NEW h \in Slots, NEW r
  PROVE  /\ \A operation : (Begin(h, operation, r) /\ remote' = remote) =>
              req' = [req EXCEPT ![h] = r] /\ Typed
         /\ (Proceed(h, r) /\ remote' = remote) =>
              req' = [req EXCEPT ![h] = r] /\ Typed
         /\ (Finish(h) /\ remote' = remote) =>
              req' = [req EXCEPT ![h] = Idle] /\ Typed
  BY TypeParts DEF GInv, OthersOK, Begin, Proceed, Finish, Typed

(* The operations that rely on no gallery.                                 *)
Quiet ==
  {"idle", "upload", "create", "destroy", "replace", "repoint", "count", "trash",
   "hero", "restore", "purge", "add", "adding", "reorder"}

LEMMA QuietKnows == \A r : r.op \in Quiet => GalleryKnows(r)
  BY DEF Quiet, GalleryKnows

LEMMA UploadFindStep ==
  ASSUME GInv, NEW h \in Slots, NEW x \in Hashes, UploadFind(h, x)
  PROVE  GInv'
<1>1. PICK r \in MediaReq : Begin(h, "upload", r) /\ r.op \in Quiet
  <2>1. CASE \E b \in Assets : HasHash(b, x)
    <3>1. PICK b \in Assets :
            Begin(h, "upload", [op |-> "restore", asset |-> b])
      BY <2>1 DEF UploadFind
    <3>2. QED BY <3>1 DEF MediaReq, Quiet
  <2>2. CASE ~ \E b \in Assets : HasHash(b, x)
    BY <2>2 DEF UploadFind, MediaReq, Quiet
  <2>3. QED BY <2>1, <2>2
<1>2. UNCHANGED tables /\ remote' = remote
  BY DEF UploadFind
<1>3. req' = [req EXCEPT ![h] = r] /\ Typed
  BY <1>1, <1>2, Frames
<1>4. QED BY <1>1, <1>2, <1>3, QuietKnows, ReadStep

LEMMA MediaFinds ==
  ASSUME GInv, NEW h \in Slots, NEW a \in Assets,
         \/ \E x \in Hashes : ReplaceFind(h, a, x)
         \/ RemoveFind(h, a) \/ RestoreFind(h, a) \/ PermanentDeleteFind(h, a)
  PROVE  GInv'
<1>1. asset[a].publicId \in Objects \cup {None} \/ ~ (Live(a) \/ Trashed(a))
  <2>1. asset[a] \in {NoAsset} \cup AssetRow
    BY TypeParts DEF GInv, TablesOK
  <2>2. NoAsset.deletedAt = "no row"
    BY DEF NoAsset
  <2>3. QED BY <2>1, <2>2, AssetRows DEF Live, Trashed
<1>2. PICK r \in MediaReq, operation \in {"replace", "trash", "restore", "purge"} :
        Begin(h, operation, r) /\ r.op \in Quiet
  <2>1. CASE \E x \in Hashes : ReplaceFind(h, a, x)
    BY <1>1, <2>1 DEF ReplaceFind, MediaReq, Quiet
  <2>2. CASE RemoveFind(h, a)
    BY <2>2 DEF RemoveFind, MediaReq, Quiet
  <2>3. CASE RestoreFind(h, a)
    BY <2>3 DEF RestoreFind, MediaReq, Quiet
  <2>4. CASE PermanentDeleteFind(h, a)
    BY <1>1, <2>4 DEF PermanentDeleteFind, MediaReq, Quiet
  <2>5. QED BY <2>1, <2>2, <2>3, <2>4
<1>3. UNCHANGED tables /\ remote' = remote
  BY DEF ReplaceFind, RemoveFind, RestoreFind, PermanentDeleteFind
<1>4. req' = [req EXCEPT ![h] = r] /\ Typed
  BY <1>2, <1>3, Frames
<1>5. QED BY <1>2, <1>3, <1>4, QuietKnows, ReadStep

LEMMA BulkFinds ==
  ASSUME GInv, NEW h \in Slots, NEW ids \in SUBSET Assets,
         BulkDeleteFind(h, ids) \/ HeroCheck(h, ids)
  PROVE  GInv'
<1>1. PICK r \in MediaReq, operation \in {"trash", "hero"} :
        Begin(h, operation, r) /\ r.op \in Quiet
  <2>1. {a \in ids : Live(a)} \in SUBSET Assets
    OBVIOUS
  <2>2. CASE BulkDeleteFind(h, ids)
    BY <2>1, <2>2 DEF BulkDeleteFind, MediaReq, Quiet
  <2>3. CASE HeroCheck(h, ids)
    BY <2>3 DEF HeroCheck, MediaReq, Quiet
  <2>4. QED BY <2>2, <2>3
<1>2. UNCHANGED tables /\ remote' = remote
  BY DEF BulkDeleteFind, HeroCheck
<1>3. req' = [req EXCEPT ![h] = r] /\ Typed
  BY <1>1, <1>2, Frames
<1>4. QED BY <1>1, <1>2, <1>3, QuietKnows, ReadStep

(* Steps at Cloudinary.                                                    *)
LEMMA RemoteSteps ==
  ASSUME GInv, NEW h \in Slots,
         UploadRemote(h) \/ ReplaceRemote(h) \/ DestroyObject(h)
  PROVE  GInv'
<1>1. PICK q \in MediaReq : q = req[h]
  BY RequestAt
<1>2. remote \in [Objects -> {"absent", "upload", "replace"}]
  BY TypeParts DEF GInv, OthersOK
<1>3. PICK r \in MediaReq : Proceed(h, r) /\ r.op \in Quiet
  <2>1. CASE UploadRemote(h)
    BY <1>1, <2>1, Requests DEF UploadRemote, MediaReq, Quiet
  <2>2. CASE ReplaceRemote(h)
    BY <1>1, <2>2, Requests DEF ReplaceRemote, MediaReq, Quiet
  <2>3. CASE DestroyObject(h)
    BY <2>3 DEF DestroyObject, Finish, MediaReq, Quiet, Idle
  <2>4. QED BY <2>1, <2>2, <2>3
<1>4. UNCHANGED tables
  BY DEF UploadRemote, ReplaceRemote, DestroyObject
<1>5. remote' \in [Objects -> {"absent", "upload", "replace"}]
  BY <1>2 DEF UploadRemote, ReplaceRemote, DestroyObject
<1>6. req' = [req EXCEPT ![h] = r] /\ Typed
  BY <1>3, <1>5, TypeParts DEF GInv, OthersOK, Proceed, Typed
<1>7. QED BY <1>3, <1>4, <1>6, QuietKnows, ReadStep

LEMMA CountUsageStep ==
  ASSUME GInv, NEW h \in Slots, CountUsage(h)
  PROVE  GInv'
<1>1. PICK q \in MediaReq : q = req[h]
  BY RequestAt
<1>2. {a \in q.assets : ~ Used(a)} \in SUBSET Assets
  BY <1>1, Requests DEF CountUsage
<1>3. PICK r \in MediaReq : Proceed(h, r) /\ r.op \in Quiet
  BY <1>1, <1>2 DEF CountUsage, Finish, MediaReq, Quiet, Idle
<1>4. UNCHANGED tables /\ remote' = remote
  BY DEF CountUsage
<1>5. req' = [req EXCEPT ![h] = r] /\ Typed
  BY <1>3, <1>4, Frames
<1>6. QED BY <1>3, <1>4, <1>5, QuietKnows, ReadStep

(* Steps that write media_assets and remove no row.                        *)
LEMMA NewRow ==
  ASSUME NEW o \in Objects, NEW x \in Hashes
  PROVE  [deletedAt |-> "null", publicId |-> o, contentHash |-> x] \in AssetRow
  BY DEF AssetRow

LEMMA UploadCreateStep ==
  ASSUME GInv, NEW h \in Slots, UploadCreate(h) \/ UploadReplyLost(h)
  PROVE  GInv'
<1>1. PICK q \in MediaReq : q = req[h]
  BY RequestAt
<1>2. q.op = "create" /\ q.hash \in Hashes /\ q.object \in Objects
  BY <1>1, Requests DEF UploadCreate, UploadReplyLost
<1>3. asset \in [Assets -> {NoAsset} \cup AssetRow]
  BY TypeParts DEF GInv, TablesOK
<1>4. PICK row \in AssetRow :
        row = [deletedAt |-> "null", publicId |-> q.object, contentHash |-> q.hash]
  BY <1>2, NewRow
<1>5. asset' = asset \/ \E a \in Assets : asset' = [asset EXCEPT ![a] = row]
  BY <1>1, <1>4 DEF UploadCreate, UploadReplyLost
<1>6. /\ asset' \in [Assets -> {NoAsset} \cup AssetRow]
      /\ \A a \in Assets : HasRow(a) => asset'[a] # NoAsset
  BY <1>3, <1>4, <1>5, AssetRows DEF HasRow
<1>7. PICK r \in MediaReq : req' = [req EXCEPT ![h] = r] /\ r.op \in Quiet
  <2>1. /\ Idle \in MediaReq /\ [op |-> "destroy", object |-> q.object] \in MediaReq
        /\ Idle.op \in Quiet
    BY <1>2 DEF MediaReq, Quiet, Idle
  <2>2. \/ req' = [req EXCEPT ![h] = Idle]
        \/ req' = [req EXCEPT ![h] = [op |-> "destroy", object |-> q.object]]
    BY <1>1 DEF UploadCreate, UploadReplyLost, Proceed, Finish
  <2>3. QED BY <2>1, <2>2 DEF Quiet
<1>8. Typed
  BY TypeParts DEF GInv, OthersOK, UploadCreate, UploadReplyLost, Proceed, Finish,
                   Typed
<1>9. UNCHANGED <<usages, gallery, heroIds, retired>>
  BY DEF UploadCreate, UploadReplyLost
<1>10. QED BY <1>6, <1>7, <1>8, <1>9, QuietKnows, AssetStep

LEMMA ReplaceUpdateStep ==
  ASSUME GInv, NEW h \in Slots, ReplaceUpdate(h)
  PROVE  GInv'
<1>1. PICK q \in MediaReq : q = req[h]
  BY RequestAt
<1>2. /\ q.op = "repoint" /\ q.asset \in Assets /\ q.hash \in Hashes
      /\ q.object \in Objects /\ q.old \in Objects \cup {None}
  BY <1>1, Requests DEF ReplaceUpdate
<1>3. asset \in [Assets -> {NoAsset} \cup AssetRow]
  BY TypeParts DEF GInv, TablesOK
<1>4. asset' = asset
      \/ /\ HasRow(q.asset)
         /\ asset' = [asset EXCEPT ![q.asset] =
              [@ EXCEPT !.publicId = q.object, !.contentHash = q.hash]]
  BY <1>1 DEF ReplaceUpdate
<1>5. /\ asset' \in [Assets -> {NoAsset} \cup AssetRow]
      /\ \A a \in Assets : HasRow(a) => asset'[a] # NoAsset
  <2>1. CASE asset' = asset
    BY <1>3, <2>1 DEF HasRow
  <2>2. CASE HasRow(q.asset)
             /\ asset' = [asset EXCEPT ![q.asset] =
                  [@ EXCEPT !.publicId = q.object, !.contentHash = q.hash]]
    <3>1. PICK row \in AssetRow : row = asset[q.asset]
      BY <1>2, <1>3, <2>2 DEF HasRow
    <3>2. PICK new : new = [row EXCEPT !.publicId = q.object,
                                       !.contentHash = q.hash]
      OBVIOUS
    <3>3. new \in AssetRow
      BY <1>2, <3>1, <3>2 DEF AssetRow
    <3>4. asset' = [asset EXCEPT ![q.asset] = new]
      BY <1>2, <1>3, <2>2, <3>1, <3>2
    <3>5. QED BY <1>2, <1>3, <3>3, <3>4, AssetRows DEF HasRow
  <2>3. QED BY <1>4, <2>1, <2>2
<1>6. PICK r \in MediaReq : Proceed(h, r) /\ r.op \in Quiet
  BY <1>1, <1>2 DEF ReplaceUpdate, Finish, MediaReq, Quiet, Idle
<1>7. UNCHANGED <<usages, gallery, heroIds, retired, remote>>
  BY DEF ReplaceUpdate
<1>8. req' = [req EXCEPT ![h] = r] /\ Typed
  BY <1>6, <1>7, Frames
<1>9. QED BY <1>5, <1>6, <1>7, <1>8, QuietKnows, AssetStep

LEMMA TrashStep ==
  ASSUME GInv, NEW h \in Slots, TrashUpdate(h) \/ RestoreUpdate(h)
  PROVE  GInv'
<1>1. PICK q \in MediaReq : q = req[h]
  BY RequestAt
<1>2. asset \in [Assets -> {NoAsset} \cup AssetRow]
  BY TypeParts DEF GInv, TablesOK
<1>3. \A a \in Assets : \A row \in AssetRow :
        /\ [row EXCEPT !.deletedAt = "set"] \in AssetRow
        /\ [row EXCEPT !.deletedAt = "null"] \in AssetRow
  BY DEF AssetRow
<1>4. \A a \in Assets : HasRow(a) => asset[a] \in AssetRow /\ asset[a] # NoAsset
  BY <1>2 DEF HasRow
<1>5. /\ asset' \in [Assets -> {NoAsset} \cup AssetRow]
      /\ \A a \in Assets : HasRow(a) => asset'[a] # NoAsset
  <2>1. CASE TrashUpdate(h)
    <3>1. asset' = [a \in Assets |->
                      IF a \in q.assets /\ HasRow(a)
                      THEN [asset[a] EXCEPT !.deletedAt = "set"] ELSE asset[a]]
      BY <1>1, <2>1 DEF TrashUpdate
    <3>2. \A a \in Assets : /\ asset'[a] \in {NoAsset} \cup AssetRow
                            /\ HasRow(a) => asset'[a] \in AssetRow
      BY <1>2, <1>3, <1>4, <3>1
    <3>3. QED BY <3>1, <3>2, AssetRows
  <2>2. CASE RestoreUpdate(h)
    <3>1. /\ q.op = "restore" /\ q.asset \in Assets
          /\ asset' = IF HasRow(q.asset)
                      THEN [asset EXCEPT ![q.asset].deletedAt = "null"] ELSE asset
      BY <1>1, <2>2, Requests DEF RestoreUpdate
    <3>2. CASE HasRow(q.asset)
      <4>1. PICK row \in AssetRow : row = asset[q.asset]
        BY <1>4, <3>1, <3>2
      <4>2. PICK new \in AssetRow : new = [row EXCEPT !.deletedAt = "null"]
        BY <1>3, <3>1
      <4>3. asset' = [asset EXCEPT ![q.asset] = new]
        BY <1>2, <3>1, <3>2, <4>1, <4>2
      <4>4. QED BY <1>2, <1>4, <3>1, <4>3, AssetRows
    <3>3. CASE ~ HasRow(q.asset)
      BY <1>2, <3>1, <3>3 DEF HasRow
    <3>4. QED BY <3>2, <3>3
  <2>3. QED BY <2>1, <2>2
<1>6. Finish(h) /\ UNCHANGED <<usages, gallery, heroIds, retired, remote>>
  BY DEF TrashUpdate, RestoreUpdate
<1>7. req' = [req EXCEPT ![h] = Idle] /\ Typed
  BY <1>6, Frames
<1>8. QED BY <1>5, <1>6, <1>7, IdleIsOK, AssetStep

(* A row goes only when no gallery has its image, and its usages with it.  *)
LEMMA PermanentDeleteStep ==
  ASSUME GInv, NEW h \in Slots, PermanentDelete(h)
  PROVE  GInv'
<1>1. PICK q \in MediaReq : q = req[h]
  BY RequestAt
<1>2. q.op = "purge" /\ q.asset \in Assets /\ q.old \in Objects \cup {None}
  BY <1>1, Requests DEF PermanentDelete
<1>3. PICK r \in MediaReq : Proceed(h, r) /\ r.op \in Quiet
  <2>1. /\ Idle \in MediaReq /\ Idle.op \in Quiet
        /\ q.old # None => [op |-> "destroy", object |-> q.old] \in MediaReq
    BY <1>2 DEF MediaReq, Quiet, Idle
  <2>2. \/ Proceed(h, Idle)
        \/ q.old # None /\ Proceed(h, [op |-> "destroy", object |-> q.old])
    BY <1>1 DEF PermanentDelete, Finish
  <2>3. QED BY <2>1, <2>2 DEF Quiet
<1>4. UNCHANGED <<gallery, heroIds, retired, remote>>
  BY DEF PermanentDelete
<1>5. req' = [req EXCEPT ![h] = r] /\ Typed
  BY <1>3, <1>4, Frames
<1>6. TablesOK
  BY TypeParts DEF GInv
<1>7. CASE asset' = asset /\ usages' = usages
  BY <1>3, <1>4, <1>5, <1>7, QuietKnows, ReadStep DEF tables
<1>8. CASE /\ \A m \in MediaIds : InGallery(m) => gallery[m].asset # q.asset
           /\ asset' = [asset EXCEPT ![q.asset] = NoAsset]
           /\ usages' = {u \in usages : u.asset # q.asset}
  <2>1. TablesOK'
    BY <1>4, <1>6, <1>8 DEF TablesOK
  <2>2. req' \in [Slots -> MediaReq] /\ GalleriesKnown'
    <3>1. GalleryKnows(r)' /\ \A k \in Slots \ {h} : \A p \in MediaReq :
            p = req[k] => GalleryKnows(p)'
      BY <1>3, <1>4, QuietKnows, RequestAt DEF GalleryKnows, InGallery
    <3>2. QED BY <1>5, <3>1, RequestsNext
  <2>3. TypeOK'
    BY <1>5, <2>1, <2>2, TypeParts DEF GInv, Typed, TypeOK, TablesOK, OthersOK
  <2>4. UsageMatchesGallery'
    <3>1. \A m \in MediaIds : InGallery(m) =>
            gallery[m].asset \in Assets /\ asset'[gallery[m].asset] # NoAsset
      BY <1>6, <1>8, MediaRows
         DEF TablesOK, InGallery, GInv, UsageMatchesGallery, HasRow
    <3>2. \A t \in Talents, a \in Assets :
            [asset |-> a, entity |-> t] \in usages' <=>
              a # q.asset /\ [asset |-> a, entity |-> t] \in usages
      BY <1>8
    <3>3. \A t \in Talents, a \in Assets :
            [asset |-> a, entity |-> t] \in usages'
              <=> \E m \in GalleryOf(t) : gallery[m].asset = a
      <4>1. \A t \in Talents, a \in Assets :
              [asset |-> a, entity |-> t] \in usages
                <=> \E m \in GalleryOf(t) : gallery[m].asset = a
        BY DEF GInv, UsageMatchesGallery
      <4>2. \A t \in Talents : \A m \in GalleryOf(t) : gallery[m].asset # q.asset
        BY <1>8 DEF GalleryOf
      <4>3. QED BY <3>2, <4>1, <4>2
    <3>4. QED
      BY <1>4, <3>1, <3>3 DEF UsageMatchesGallery, HasRow, InGallery, GalleryOf
  <2>5. GalleryUnique'
    BY <1>4 DEF GInv, GalleryUnique, InGallery
  <2>6. QED BY <2>2, <2>3, <2>4, <2>5 DEF GInv
<1>9. QED BY <1>1, <1>7, <1>8 DEF PermanentDelete

LEMMA MediaKeeps ==
  ASSUME GInv, MediaNext
  PROVE  GInv'
<1>1. PICK h \in Slots :
        \/ \E x \in Hashes : UploadFind(h, x)
        \/ UploadRemote(h) \/ UploadCreate(h) \/ UploadReplyLost(h)
        \/ DestroyObject(h)
        \/ \E a \in Assets, x \in Hashes : ReplaceFind(h, a, x)
        \/ ReplaceRemote(h) \/ ReplaceUpdate(h)
        \/ \E a \in Assets : RemoveFind(h, a)
        \/ \E ids \in SUBSET Assets : BulkDeleteFind(h, ids)
        \/ CountUsage(h) \/ TrashUpdate(h)
        \/ \E a \in Assets : RestoreFind(h, a)
        \/ RestoreUpdate(h)
        \/ \E a \in Assets : PermanentDeleteFind(h, a)
        \/ PermanentDelete(h)
  BY DEF MediaNext
<1>2. QED
  BY <1>1, UploadFindStep, MediaFinds, BulkFinds, RemoteSteps, CountUsageStep,
     UploadCreateStep, ReplaceUpdateStep, TrashStep, PermanentDeleteStep

-----------------------------------------------------------------------------
(***************************************************************************)
(* Galleries.                                                              *)
(***************************************************************************)
(* The new gallery has the rows of the old one, for the same images.       *)
SameImages(new) ==
  /\ new \in [MediaIds -> {NoMedia} \cup MediaRow]
  /\ \A m \in MediaIds :
       /\ new[m] # NoMedia <=> InGallery(m)
       /\ InGallery(m) => /\ new[m].talent = gallery[m].talent
                          /\ new[m].asset = gallery[m].asset

LEMMA DemotedSame ==
  ASSUME GInv, NEW rows \in SUBSET MediaIds, \A m \in rows : InGallery(m)
  PROVE  SameImages(Demoted(rows))
<1>1. gallery \in [MediaIds -> {NoMedia} \cup MediaRow]
  BY TypeParts DEF GInv, TablesOK
<1>2. ASSUME NEW m \in MediaIds
      PROVE  /\ Demoted(rows)[m] \in {NoMedia} \cup MediaRow
             /\ Demoted(rows)[m] # NoMedia <=> InGallery(m)
             /\ InGallery(m) => /\ Demoted(rows)[m].talent = gallery[m].talent
                                /\ Demoted(rows)[m].asset = gallery[m].asset
  <2>1. CASE m \in rows
    <3>1. PICK row \in MediaRow : row = gallery[m]
      BY <1>1, <2>1 DEF InGallery
    <3>2. PICK new : new = [row EXCEPT !.isPrimary = FALSE]
      OBVIOUS
    <3>3. new \in MediaRow /\ new.talent = row.talent /\ new.asset = row.asset
      BY <3>1, <3>2, MediaRows
    <3>4. Demoted(rows)[m] = new
      BY <2>1, <3>1, <3>2 DEF Demoted
    <3>5. QED BY <2>1, <3>1, <3>3, <3>4, MediaRows DEF InGallery
  <2>2. CASE m \notin rows
    BY <1>1, <2>2 DEF Demoted, InGallery
  <2>3. QED BY <2>1, <2>2
<1>3. QED BY <1>2 DEF SameImages, Demoted

LEMMA PromotedSame ==
  ASSUME NEW old, SameImages(old), NEW m \in MediaIds, old[m] # NoMedia
  PROVE  SameImages([old EXCEPT ![m].isPrimary = TRUE])
<1>1. PICK row \in MediaRow : row = old[m]
  BY DEF SameImages
<1>2. PICK new : new = [row EXCEPT !.isPrimary = TRUE]
  OBVIOUS
<1>3. new \in MediaRow /\ new.talent = row.talent /\ new.asset = row.asset
      /\ new # NoMedia
  BY <1>1, <1>2, MediaRows
<1>4. [old EXCEPT ![m].isPrimary = TRUE] = [old EXCEPT ![m] = new]
  BY <1>1, <1>2 DEF SameImages
<1>5. SameImages([old EXCEPT ![m] = new])
  BY <1>1, <1>3 DEF SameImages
<1>6. QED BY <1>4, <1>5

(* A step after which galleries have the same images.                      *)
LEMMA SameImagesStep ==
  ASSUME GInv, NEW h \in Slots, req' = [req EXCEPT ![h] = Idle],
         SameImages(gallery'), UNCHANGED <<asset, usages, heroIds, retired>>, Typed
  PROVE  GInv'
<1>1. TablesOK /\ TablesOK'
  BY TypeParts DEF GInv, TablesOK, SameImages
<1>2. \A k \in Slots : \A q \in MediaReq : q = req[k] => GalleryKnows(q)'
  <2> SUFFICES ASSUME NEW k \in Slots, NEW q \in MediaReq, q = req[k]
               PROVE  GalleryKnows(q)'
    OBVIOUS
  <2>1. GalleryKnows(q)
    BY RequestAt
  <2>2. QED
    BY <2>1, GalleryRequests DEF GalleryKnows, InGallery, SameImages
<1>3. req' \in [Slots -> MediaReq] /\ GalleriesKnown'
  BY <1>2, IdleIsOK, RequestsNext
<1>4. TypeOK'
  BY <1>1, <1>3, TypeParts DEF GInv, Typed, TypeOK, TablesOK, OthersOK
<1>5. UsageMatchesGallery'
  BY DEF GInv, UsageMatchesGallery, HasRow, InGallery, GalleryOf, SameImages
<1>6. GalleryUnique'
  BY DEF GInv, GalleryUnique, InGallery, SameImages
<1>7. QED BY <1>3, <1>4, <1>5, <1>6 DEF GInv

LEMMA SetPrimaryStep ==
  ASSUME GInv, NEW h \in Slots, SetPrimaryCommit(h)
  PROVE  GInv'
<1>1. PICK q \in MediaReq : q = req[h] /\ GalleryKnows(q)
  BY RequestAt
<1>2. /\ q.op = "promote" /\ q.media \in MediaIds /\ q.locked \in SUBSET MediaIds
      /\ \A m \in q.locked : InGallery(m)
  BY <1>1, GalleryRequests DEF SetPrimaryCommit, GalleryKnows
<1>3. PICK demoted : demoted = Demoted(q.locked) /\ SameImages(demoted)
  BY <1>2, DemotedSame
<1>4. gallery' = [demoted EXCEPT ![q.media].isPrimary = TRUE]
  BY <1>1, <1>3 DEF SetPrimaryCommit
<1>5. q.media \in q.locked
  BY <1>1, <1>2 DEF GalleryKnows
<1>6. demoted[q.media] # NoMedia
  BY <1>2, <1>3, <1>5 DEF SameImages
<1>7. SameImages([demoted EXCEPT ![q.media].isPrimary = TRUE])
  BY <1>2, <1>3, <1>6, PromotedSame
<1>8. SameImages(gallery')
  BY <1>4, <1>7
<1>9. Finish(h) /\ UNCHANGED <<asset, usages, heroIds, retired, remote>>
  BY DEF SetPrimaryCommit
<1>10. req' = [req EXCEPT ![h] = Idle] /\ Typed
  BY <1>9, Frames
<1>11. QED BY <1>8, <1>9, <1>10, SameImagesStep

LEMMA ReorderStep ==
  ASSUME GInv, NEW h \in Slots, ReorderMediaCommit(h)
  PROVE  GInv'
<1>1. PICK q \in MediaReq : q = req[h]
  BY RequestAt
<1>2. PICK rows \in SUBSET MediaIds :
        /\ rows = DOMAIN q.order
        /\ \A m \in rows : q.order[m] \in 0 .. Cardinality(MediaIds)
  <2>1. PICK all \in SUBSET MediaIds : q.order \in Orders(all)
    BY <1>1, GalleryRequests DEF ReorderMediaCommit
  <2>2. QED BY <2>1, GallerySizes
<1>3. \A m \in rows : q.order[m] \in 0 .. Cardinality(MediaIds)
  BY <1>2
<1>4. gallery \in [MediaIds -> {NoMedia} \cup MediaRow]
  BY TypeParts DEF GInv, TablesOK
<1>5. SameImages(gallery)
  BY <1>4 DEF SameImages, InGallery
<1>6. CASE ~ \A m \in rows : InGallery(m)
  <2>1. gallery' = gallery
    BY <1>1, <1>2, <1>6 DEF ReorderMediaCommit
  <2>2. SameImages(gallery')
    BY <1>5, <2>1
  <2>3. Finish(h) /\ UNCHANGED <<asset, usages, heroIds, retired, remote>>
    BY DEF ReorderMediaCommit
  <2>4. req' = [req EXCEPT ![h] = Idle] /\ Typed
    BY <2>3, Frames
  <2>5. QED BY <2>2, <2>3, <2>4, SameImagesStep
<1>7. CASE \A m \in rows : InGallery(m)
  <2>1. gallery' = [m \in MediaIds |->
                      IF m \in rows
                      THEN [gallery[m] EXCEPT !.displayOrder = q.order[m]]
                      ELSE gallery[m]]
    BY <1>1, <1>2, <1>7 DEF ReorderMediaCommit
  <2>2. ASSUME NEW m \in MediaIds
        PROVE  /\ gallery'[m] \in {NoMedia} \cup MediaRow
               /\ gallery'[m] # NoMedia <=> InGallery(m)
               /\ InGallery(m) => /\ gallery'[m].talent = gallery[m].talent
                                  /\ gallery'[m].asset = gallery[m].asset
    <3>1. CASE m \in rows
      <4>1. PICK row \in MediaRow : row = gallery[m]
        BY <1>4, <1>7, <3>1 DEF InGallery
      <4>2. PICK new : new = [row EXCEPT !.displayOrder = q.order[m]]
        OBVIOUS
      <4>3. /\ new \in MediaRow /\ new.talent = row.talent
            /\ new.asset = row.asset
        BY <1>3, <3>1, <4>1, <4>2, MediaRows
      <4>4. gallery'[m] = new
        BY <2>1, <3>1, <4>1, <4>2
      <4>5. QED BY <1>7, <3>1, <4>1, <4>3, <4>4, MediaRows
    <3>2. CASE m \notin rows
      BY <1>4, <2>1, <3>2 DEF InGallery
    <3>3. QED BY <3>1, <3>2
  <2>3. SameImages(gallery')
    BY <2>1, <2>2 DEF SameImages
  <2>4. Finish(h) /\ UNCHANGED <<asset, usages, heroIds, retired, remote>>
    BY DEF ReorderMediaCommit
  <2>5. req' = [req EXCEPT ![h] = Idle] /\ Typed
    BY <2>4, Frames
  <2>6. QED BY <2>3, <2>4, <2>5, SameImagesStep
<1>8. QED BY <1>6, <1>7

LEMMA GalleryFinds ==
  ASSUME GInv, NEW h \in Slots,
         \/ \E t \in Talents, a \in Assets : AddMediaFind(h, t, a)
         \/ \E m \in MediaIds : RemoveMediaFind(h, m) \/ SetPrimaryFind(h, m)
         \/ \E t \in Talents : ReorderMediaFind(h, t)
  PROVE  GInv'
<1>1. gallery \in [MediaIds -> {NoMedia} \cup MediaRow]
  BY TypeParts DEF GInv, TablesOK
<1>2. PICK r \in MediaReq : /\ Begin(h, "gallery", r) /\ GalleryKnows(r)
                            /\ UNCHANGED tables /\ remote' = remote
  <2>1. ASSUME NEW t \in Talents, NEW a \in Assets, AddMediaFind(h, t, a)
        PROVE  \E r \in MediaReq : /\ Begin(h, "gallery", r) /\ GalleryKnows(r)
                                   /\ UNCHANGED tables /\ remote' = remote
    <3>1. PICK r : r = [op |-> "add", talent |-> t, asset |-> a]
      OBVIOUS
    <3>2. r \in MediaReq /\ GalleryKnows(r)
      BY <3>1 DEF MediaReq, GalleryKnows
    <3>3. QED BY <2>1, <3>1, <3>2 DEF AddMediaFind
  <2>2. ASSUME NEW m \in MediaIds, RemoveMediaFind(h, m)
        PROVE  \E r \in MediaReq : /\ Begin(h, "gallery", r) /\ GalleryKnows(r)
                                   /\ UNCHANGED tables /\ remote' = remote
    <3>1. PICK row \in MediaRow : row = gallery[m]
      BY <1>1, <2>2 DEF RemoveMediaFind, InGallery
    <3>2. PICK r : r = [op |-> "unlist", media |-> m, asset |-> row.asset,
                        talent |-> row.talent, isPrimary |-> row.isPrimary]
      OBVIOUS
    <3>3. r \in MediaReq
      BY <3>1, <3>2, MediaRows DEF MediaReq
    <3>4. GalleryKnows(r)
      BY <3>1, <3>2 DEF GalleryKnows
    <3>5. QED BY <2>2, <3>1, <3>2, <3>3, <3>4 DEF RemoveMediaFind
  <2>3. ASSUME NEW m \in MediaIds, SetPrimaryFind(h, m)
        PROVE  \E r \in MediaReq : /\ Begin(h, "gallery", r) /\ GalleryKnows(r)
                                   /\ UNCHANGED tables /\ remote' = remote
    <3>1. PICK row \in MediaRow : row = gallery[m]
      BY <1>1, <2>3 DEF SetPrimaryFind, InGallery
    <3>2. PICK r : r = [op |-> "primary", media |-> m, talent |-> row.talent]
      OBVIOUS
    <3>3. r \in MediaReq
      BY <3>1, <3>2, MediaRows DEF MediaReq
    <3>4. GalleryKnows(r)
      BY <3>1, <3>2 DEF GalleryKnows
    <3>5. QED BY <2>3, <3>1, <3>2, <3>3, <3>4 DEF SetPrimaryFind
  <2>4. ASSUME NEW t \in Talents, ReorderMediaFind(h, t)
        PROVE  \E r \in MediaReq : /\ Begin(h, "gallery", r) /\ GalleryKnows(r)
                                   /\ UNCHANGED tables /\ remote' = remote
    <3>1. PICK order \in Orders(GalleryOf(t)) :
            Begin(h, "gallery", [op |-> "reorder", order |-> order])
      BY <2>4 DEF ReorderMediaFind
    <3>2. PICK r : r = [op |-> "reorder", order |-> order]
      OBVIOUS
    <3>3. GalleryOf(t) \in SUBSET MediaIds
      BY DEF GalleryOf
    <3>4. r \in MediaReq /\ GalleryKnows(r)
      BY <3>2, <3>3 DEF MediaReq, GalleryKnows
    <3>5. QED BY <2>4, <3>1, <3>2, <3>4 DEF ReorderMediaFind
  <2>5. QED BY <2>1, <2>2, <2>3, <2>4
<1>3. req' = [req EXCEPT ![h] = r] /\ Typed
  BY <1>2, Frames
<1>4. QED BY <1>2, <1>3, ReadStep

LEMMA GalleryReads ==
  ASSUME GInv, NEW h \in Slots,
         \/ AddMediaCount(h) \/ AddMediaDemote(h) \/ AddMediaRefused(h)
         \/ SetPrimaryDemote(h) \/ MediaRowGone(h) \/ HeroDelete(h)
  PROVE  GInv'
<1>1. PICK q \in MediaReq : q = req[h] /\ GalleryKnows(q)
  BY RequestAt
<1>2. UNCHANGED tables /\ remote' = remote
  BY DEF AddMediaCount, AddMediaDemote, AddMediaRefused, SetPrimaryDemote,
         MediaRowGone, HeroDelete
<1>3. \A t : /\ GalleryOf(t) \in SUBSET MediaIds
             /\ \A m \in GalleryOf(t) : InGallery(m)
             /\ Cardinality(GalleryOf(t)) \in 0 .. Cardinality(MediaIds)
  BY GallerySizes DEF GalleryOf
<1>4. PICK r \in MediaReq : Proceed(h, r) /\ GalleryKnows(r)
  <2>1. CASE AddMediaCount(h)
    <3>1. q.op = "add" /\ q.talent \in Talents /\ q.asset \in Assets
      BY <1>1, <2>1, GalleryRequests DEF AddMediaCount
    <3>2. PICK r : r = [op |-> "adding", talent |-> q.talent, asset |-> q.asset,
                        existingCount |-> Cardinality(GalleryOf(q.talent))]
      OBVIOUS
    <3>3. r \in MediaReq /\ GalleryKnows(r)
      BY <1>3, <3>1, <3>2 DEF MediaReq, GalleryKnows
    <3>4. QED BY <1>1, <2>1, <3>2, <3>3 DEF AddMediaCount
  <2>2. CASE AddMediaDemote(h)
    <3>1. /\ q.op = "adding" /\ q.talent \in Talents /\ q.asset \in Assets
          /\ q.existingCount \in 0 .. Cardinality(MediaIds)
      BY <1>1, <2>2, GalleryRequests DEF AddMediaDemote
    <3>2. PICK makePrimary \in BOOLEAN, locked \in SUBSET MediaIds :
            /\ \A m \in locked : InGallery(m)
            /\ Proceed(h, [op |-> "insert", talent |-> q.talent,
                           asset |-> q.asset, existingCount |-> q.existingCount,
                           isPrimary |-> makePrimary, locked |-> locked])
      BY <1>1, <1>3, <2>2 DEF AddMediaDemote
    <3>3. PICK r : r = [op |-> "insert", talent |-> q.talent,
                        asset |-> q.asset, existingCount |-> q.existingCount,
                        isPrimary |-> makePrimary, locked |-> locked]
      OBVIOUS
    <3>4. r \in MediaReq
      BY <3>1, <3>3 DEF MediaReq
    <3>5. GalleryKnows(r)
      BY <3>2, <3>3 DEF GalleryKnows
    <3>6. QED BY <3>2, <3>3, <3>4, <3>5
  <2>3. CASE SetPrimaryDemote(h)
    <3>1. /\ q.op = "primary" /\ q.media \in MediaIds /\ q.talent \in Talents
          /\ q.media \in GalleryOf(q.talent)
      BY <1>1, <2>3, GalleryRequests DEF SetPrimaryDemote, GalleryKnows, GalleryOf
    <3>2. PICK r : r = [op |-> "promote", media |-> q.media, talent |-> q.talent,
                        locked |-> GalleryOf(q.talent)]
      OBVIOUS
    <3>3. r \in MediaReq /\ GalleryKnows(r)
      BY <1>3, <3>1, <3>2 DEF MediaReq, GalleryKnows
    <3>4. QED BY <1>1, <2>3, <3>2, <3>3 DEF SetPrimaryDemote
  <2>4. CASE HeroDelete(h)
    <3>1. q.op = "hero" /\ q.assets \in SUBSET Assets
      BY <1>1, <2>4, Requests DEF HeroDelete
    <3>2. PICK r : r = [op |-> "save", assets |-> q.assets, old |-> HeroUsages]
      OBVIOUS
    <3>3. usages \subseteq Usage
      BY TypeParts DEF GInv, TablesOK
    <3>4. HeroUsages \in SUBSET Usage /\ \A u \in HeroUsages : u.entity = HERO
      BY <3>3 DEF HeroUsages
    <3>5. r \in MediaReq
      BY <3>1, <3>2, <3>4 DEF MediaReq
    <3>6. GalleryKnows(r)
      BY <3>2, <3>4 DEF GalleryKnows
    <3>7. QED BY <1>1, <2>4, <3>2, <3>5, <3>6 DEF HeroDelete
  <2>5. CASE AddMediaRefused(h) \/ MediaRowGone(h)
    BY <2>5, IdleIsOK DEF AddMediaRefused, MediaRowGone, Finish
  <2>6. QED BY <2>1, <2>2, <2>3, <2>4, <2>5
<1>5. req' = [req EXCEPT ![h] = r] /\ Typed
  BY <1>2, <1>4, Frames
<1>6. QED BY <1>2, <1>4, <1>5, ReadStep

(* A new row and its usage.                                                *)
LEMMA AddMediaStep ==
  ASSUME GInv, NEW h \in Slots, AddMediaCommit(h)
  PROVE  GInv'
<1>1. PICK q \in MediaReq : q = req[h] /\ GalleryKnows(q)
  BY RequestAt
<1>2. /\ q.op = "insert" /\ q.talent \in Talents /\ q.asset \in Assets
      /\ q.existingCount \in 0 .. Cardinality(MediaIds)
      /\ q.isPrimary \in BOOLEAN /\ q.locked \in SUBSET MediaIds
      /\ \A m \in q.locked : InGallery(m)
  BY <1>1, GalleryRequests DEF AddMediaCommit, GalleryKnows
<1>3. PICK demoted : demoted = Demoted(q.locked) /\ SameImages(demoted)
  BY <1>2, DemotedSame
<1>4. PICK row \in MediaRow :
        row = [talent |-> q.talent, asset |-> q.asset,
               isPrimary |-> q.isPrimary, displayOrder |-> q.existingCount]
  BY <1>2 DEF MediaRow
<1>5. row.talent = q.talent /\ row.asset = q.asset /\ row # NoMedia
  BY <1>4, MediaRows
<1>6. PICK m \in MediaIds :
        /\ ~ InGallery(m) /\ \A k \in Slots : ~ Holds(req[k], "media", m)
        /\ gallery' = [demoted EXCEPT ![m] = row]
        /\ usages' = usages \cup {[asset |-> q.asset, entity |-> q.talent]}
  BY <1>1, <1>3, <1>4 DEF AddMediaCommit, FreshMedia
<1>7. /\ HasRow(q.asset)
      /\ \A n \in GalleryOf(q.talent) : gallery[n].asset # q.asset
      /\ Finish(h) /\ UNCHANGED <<asset, heroIds, retired, remote>>
  BY <1>1 DEF AddMediaCommit
<1>8. req' = [req EXCEPT ![h] = Idle] /\ Typed
  BY <1>7, Frames
<1>9. /\ gallery' \in [MediaIds -> {NoMedia} \cup MediaRow]
      /\ gallery'[m] = row
      /\ \A n \in MediaIds \ {m} :
           /\ gallery'[n] # NoMedia <=> InGallery(n)
           /\ InGallery(n) => /\ gallery'[n].talent = gallery[n].talent
                              /\ gallery'[n].asset = gallery[n].asset
  BY <1>3, <1>6 DEF SameImages
<1>10. TablesOK'
  BY <1>2, <1>6, <1>7, <1>9, TypeParts DEF GInv, TablesOK, Usage
<1>11. ASSUME NEW k \in Slots, NEW p \in MediaReq, p = req[k]
       PROVE  GalleryKnows(p)'
  <2>1. GalleryKnows(p) /\ ~ Holds(p, "media", m)
    BY <1>6, <1>11, RequestAt
  <2>2. p.op \in {"unlist", "primary", "promote"} => p.media \in MediaIds \ {m}
    BY <2>1, GalleryRequests DEF Holds, Fields
  <2>3. p.op \in {"insert", "promote"} => \A n \in p.locked : n \in MediaIds \ {m}
    BY <1>6, <2>1, GalleryRequests DEF GalleryKnows
  <2>4. QED BY <1>9, <2>1, <2>2, <2>3 DEF GalleryKnows, InGallery
<1>12. req' \in [Slots -> MediaReq] /\ GalleriesKnown'
  BY <1>8, <1>11, IdleIsOK, RequestsNext
<1>13. TypeOK'
  BY <1>8, <1>10, <1>12, TypeParts DEF GInv, Typed, TypeOK, TablesOK, OthersOK
<1>14. ASSUME NEW t \in Talents, NEW a \in Assets
       PROVE  (\E n \in MediaIds : /\ gallery'[n] # NoMedia
                                   /\ gallery'[n].talent = t
                                   /\ gallery'[n].asset = a)
                <=> \/ \E n \in GalleryOf(t) : gallery[n].asset = a
                    \/ t = q.talent /\ a = q.asset
  BY <1>5, <1>6, <1>9 DEF GalleryOf
<1>15. UsageMatchesGallery'
  <2>1. \A n \in MediaIds : gallery'[n] # NoMedia => asset'[gallery'[n].asset] # NoAsset
    BY <1>5, <1>7, <1>9 DEF GInv, UsageMatchesGallery, HasRow
  <2>2. ASSUME NEW t \in Talents, NEW a \in Assets
        PROVE  [asset |-> a, entity |-> t] \in usages' <=>
                 \/ [asset |-> a, entity |-> t] \in usages
                 \/ t = q.talent /\ a = q.asset
    BY <1>6
  <2>3. QED
    BY <1>14, <2>1, <2>2
       DEF GInv, UsageMatchesGallery, GalleryOf, InGallery, HasRow
<1>16. GalleryUnique'
  BY <1>5, <1>7, <1>9 DEF GInv, GalleryUnique, InGallery, GalleryOf
<1>17. QED BY <1>12, <1>13, <1>15, <1>16 DEF GInv

(* A row and its usage go; the next may become primary.                    *)
LEMMA RemoveMediaStep ==
  ASSUME GInv, NEW h \in Slots, RemoveMediaCommit(h)
  PROVE  GInv'
<1>1. PICK q \in MediaReq : q = req[h] /\ GalleryKnows(q)
  BY RequestAt
<1>2. /\ q.op = "unlist" /\ q.media \in MediaIds /\ q.talent \in Talents
      /\ q.asset \in Assets /\ InGallery(q.media)
      /\ gallery[q.media].asset = q.asset /\ gallery[q.media].talent = q.talent
      /\ Unlocked(h, {q.media})
      /\ usages' = usages \ {[asset |-> q.asset, entity |-> q.talent]}
      /\ Finish(h) /\ UNCHANGED <<asset, heroIds, retired, remote>>
  BY <1>1, GalleryRequests DEF RemoveMediaCommit, GalleryKnows
<1>3. SameImages(gallery)
  BY TypeParts DEF GInv, TablesOK, SameImages, InGallery
<1>4. PICK promoted : /\ SameImages(promoted)
                      /\ gallery' = [promoted EXCEPT ![q.media] = NoMedia]
  <2>1. CASE gallery' = [gallery EXCEPT ![q.media] = NoMedia]
    BY <1>3, <2>1
  <2>2. ASSUME NEW next \in FirstOf(GalleryOf(q.talent) \ {q.media}),
               gallery' = [gallery EXCEPT ![q.media] = NoMedia,
                                          ![next].isPrimary = TRUE]
        PROVE  \E promoted :
                 /\ SameImages(promoted)
                 /\ gallery' = [promoted EXCEPT ![q.media] = NoMedia]
    <3>1. /\ next \in MediaIds /\ next # q.media /\ gallery[next] # NoMedia
      BY DEF FirstOf, GalleryOf, InGallery
    <3>2. SameImages([gallery EXCEPT ![next].isPrimary = TRUE])
      BY <1>3, <3>1, PromotedSame
    <3>3. gallery' = [[gallery EXCEPT ![next].isPrimary = TRUE]
                        EXCEPT ![q.media] = NoMedia]
      BY <1>2, <2>2, <3>1, TypeParts DEF GInv, TablesOK
    <3>4. QED BY <3>2, <3>3
  <2>3. QED BY <1>1, <2>1, <2>2 DEF RemoveMediaCommit
<1>5. req' = [req EXCEPT ![h] = Idle] /\ Typed
  BY <1>2, Frames
<1>6. /\ gallery' \in [MediaIds -> {NoMedia} \cup MediaRow]
      /\ gallery'[q.media] = NoMedia
      /\ \A n \in MediaIds \ {q.media} :
           /\ gallery'[n] # NoMedia <=> InGallery(n)
           /\ InGallery(n) => /\ gallery'[n].talent = gallery[n].talent
                              /\ gallery'[n].asset = gallery[n].asset
  BY <1>2, <1>4 DEF SameImages
<1>7. TablesOK'
  BY <1>2, <1>6, TypeParts DEF GInv, TablesOK
<1>8. ASSUME NEW k \in Slots \ {h}, NEW p \in MediaReq, p = req[k]
      PROVE  GalleryKnows(p)'
  <2>1. GalleryKnows(p)
    BY <1>8, RequestAt
  <2>2. p.op \in {"insert", "promote"} => q.media \notin p.locked
    BY <1>2, <1>8, GalleryRequests DEF Unlocked, Fields
  <2>3. /\ p.op \in {"unlist", "primary"} => p.media \in MediaIds
        /\ p.op \in {"insert", "promote"} => p.locked \in SUBSET MediaIds
    BY GalleryRequests
  <2>4. QED BY <1>6, <2>1, <2>2, <2>3 DEF GalleryKnows, InGallery
<1>9. req' \in [Slots -> MediaReq] /\ GalleriesKnown'
  BY <1>5, <1>8, IdleIsOK, RequestsNext
<1>10. TypeOK'
  BY <1>5, <1>7, <1>9, TypeParts DEF GInv, Typed, TypeOK, TablesOK, OthersOK
<1>11. UsageMatchesGallery'
  <2>1. \A n \in MediaIds : gallery'[n] # NoMedia => asset'[gallery'[n].asset] # NoAsset
    BY <1>2, <1>6 DEF GInv, UsageMatchesGallery, HasRow
  <2>2. ASSUME NEW t \in Talents, NEW a \in Assets
        PROVE  [asset |-> a, entity |-> t] \in usages' <=>
                 /\ \E n \in GalleryOf(t) : gallery[n].asset = a
                 /\ ~ (t = q.talent /\ a = q.asset)
    BY <1>2 DEF GInv, UsageMatchesGallery
  <2>3. ASSUME NEW t \in Talents, NEW a \in Assets
        PROVE  (\E n \in MediaIds : /\ gallery'[n] # NoMedia
                                    /\ gallery'[n].talent = t
                                    /\ gallery'[n].asset = a)
                 <=> /\ \E n \in GalleryOf(t) : gallery[n].asset = a
                     /\ ~ (t = q.talent /\ a = q.asset)
    BY <1>2, <1>6 DEF GInv, GalleryUnique, GalleryOf
  <2>4. QED
    BY <2>1, <2>2, <2>3 DEF UsageMatchesGallery, GalleryOf, InGallery, HasRow
<1>12. GalleryUnique'
  BY <1>6 DEF GInv, GalleryUnique, InGallery
<1>13. QED BY <1>9, <1>10, <1>11, <1>12 DEF GInv

(* A save that commits takes what it deleted from the other saves, and     *)
(* leaves the other requests alone.                                        *)
LEMMA HeroEnds ==
  ASSUME GInv, NEW h \in Slots, HeroCommit(h)
  PROVE  /\ req' \in [Slots -> MediaReq] /\ req'[h] = Idle /\ Typed
         /\ UNCHANGED <<overlapped, faults>>
         /\ \A k \in Slots \ {h} :
              \/ req'[k] = req[k]
              \/ /\ req[k].op = "save" /\ req'[k].op = "save"
                 /\ req'[k].old \subseteq req[k].old
<1>1. req \in [Slots -> MediaReq] /\ Idle \in MediaReq
  BY TypeParts, IdleIsOK DEF GInv
<1>2. remote' = remote
  BY DEF HeroCommit
<1>3. CASE Finish(h)
  BY <1>1, <1>2, <1>3, TypeParts DEF Finish, Proceed, Typed, GInv, OthersOK
<1>4. CASE \E gone : FinishDeleting(h, gone)
  <2>1. PICK gone : FinishDeleting(h, gone)
    BY <1>4
  <2>2. ASSUME NEW k \in Slots, req[k].op = "save"
        PROVE  /\ [req[k] EXCEPT !.old = @ \ gone] \in MediaReq
               /\ [req[k] EXCEPT !.old = @ \ gone].op = "save"
               /\ [req[k] EXCEPT !.old = @ \ gone].old \subseteq req[k].old
    <3>1. PICK q \in MediaReq : q = req[k]
      BY <1>1
    <3>2. q \in [op : {"save"}, assets : SUBSET Assets, old : SUBSET Usage]
      BY <2>2, <3>1, GalleryRequests
    <3>3. PICK rest \in SUBSET Usage : rest = q.old \ gone
      BY <3>2
    <3>4. PICK p : p = [q EXCEPT !.old = rest]
      OBVIOUS
    <3>5. p \in [op : {"save"}, assets : SUBSET Assets, old : SUBSET Usage]
      BY <3>2, <3>4
    <3>6. p.op = "save" /\ p.old = rest
      BY <3>2, <3>4
    <3>7. p = [req[k] EXCEPT !.old = @ \ gone]
      BY <3>1, <3>3, <3>4
    <3>8. p \in MediaReq
      BY <3>5 DEF MediaReq
    <3>9. QED BY <3>1, <3>3, <3>6, <3>7, <3>8
  <2>3. \A k \in Slots :
          req'[k] = IF k = h THEN Idle
                    ELSE IF req[k].op = "save" THEN [req[k] EXCEPT !.old = @ \ gone]
                    ELSE req[k]
    BY <2>1 DEF FinishDeleting
  <2>4. \A k \in Slots : req'[k] \in MediaReq
    BY <1>1, <2>2, <2>3
  <2>5. req' \in [Slots -> MediaReq]
    BY <2>1, <2>4 DEF FinishDeleting
  <2>6. Typed /\ UNCHANGED <<overlapped, faults>>
    BY <1>2, <2>1, TypeParts DEF FinishDeleting, Typed, GInv, OthersOK
  <2>7. QED BY <2>2, <2>3, <2>5, <2>6
<1>5. QED BY <1>3, <1>4 DEF HeroCommit

LEMMA HeroCommitStep ==
  ASSUME GInv, NEW h \in Slots, HeroCommit(h)
  PROVE  GInv'
<1>1. PICK q \in MediaReq : q = req[h] /\ GalleryKnows(q)
  BY RequestAt
<1>2. /\ q.op = "save" /\ q.assets \in SUBSET Assets
      /\ \A u \in q.old : u.entity = HERO
      /\ UNCHANGED <<asset, gallery, retired, remote>>
  BY <1>1, GalleryRequests DEF HeroCommit, GalleryKnows
<1>3. /\ usages' \subseteq Usage /\ heroIds' \subseteq Assets
      /\ \A u \in Usage : u.entity # HERO => (u \in usages' <=> u \in usages)
  <2>1. usages \subseteq Usage /\ heroIds \subseteq Assets
    BY TypeParts DEF GInv, TablesOK
  <2>2. \/ /\ usages' = (usages \ q.old) \cup [asset : q.assets, entity : {HERO}]
           /\ heroIds' = q.assets
        \/ usages' = usages /\ heroIds' = heroIds
    BY <1>1 DEF HeroCommit
  <2>3. [asset : q.assets, entity : {HERO}] \subseteq Usage
    BY <1>2 DEF Usage
  <2>4. \A u \in [asset : q.assets, entity : {HERO}] : u.entity = HERO
    OBVIOUS
  <2>5. QED BY <1>2, <2>1, <2>2, <2>3, <2>4
<1>4. req' \in [Slots -> MediaReq] /\ Typed
  BY HeroEnds
<1>5. TablesOK'
  BY <1>2, <1>3, TypeParts DEF GInv, TablesOK
<1>6. ASSUME NEW k \in Slots PROVE GalleryKnows(req[k])'
  <2>1. PICK p : p = req[k] /\ GalleryKnows(p)
    BY RequestAt
  <2>2. PICK r : r = req'[k]
    OBVIOUS
  <2>3. GalleryKnows(r)'
    <3>1. CASE k = h
      BY <2>2, <3>1, HeroEnds, IdleIsOK
    <3>2. CASE k # h /\ r = p
      BY <1>2, <2>1, <3>2 DEF GalleryKnows, InGallery
    <3>3. CASE k # h /\ p.op = "save" /\ r.op = "save" /\ r.old \subseteq p.old
      BY <2>1, <3>3 DEF GalleryKnows
    <3>4. QED BY <2>1, <2>2, <3>1, <3>2, <3>3, HeroEnds
  <2>4. QED BY <2>2, <2>3 DEF GalleryKnows, InGallery
<1>7. req' \in [Slots -> MediaReq] /\ GalleriesKnown'
  BY <1>4, <1>6 DEF GalleriesKnown
<1>8. TypeOK'
  BY <1>4, <1>5, <1>7, TypeParts DEF GInv, Typed, TypeOK, TablesOK, OthersOK
<1>9. UsageMatchesGallery'
  <2>1. ASSUME NEW t \in Talents, NEW a \in Assets
        PROVE  [asset |-> a, entity |-> t] \in usages'
                 <=> [asset |-> a, entity |-> t] \in usages
    BY <1>3, HeroAssumption DEF Usage
  <2>2. QED
    BY <1>2, <2>1 DEF GInv, UsageMatchesGallery, GalleryOf, InGallery, HasRow
<1>10. GalleryUnique'
  BY <1>2 DEF GInv, GalleryUnique, InGallery
<1>11. QED BY <1>7, <1>8, <1>9, <1>10 DEF GInv

LEMMA RetireStep ==
  ASSUME GInv, NEW h \in Slots, NEW t \in Talents, TalentRemove(h, t)
  PROVE  GInv'
<1>1. SameImages(gallery)
  BY TypeParts DEF GInv, TablesOK, SameImages, InGallery
<1>2. /\ Begin(h, "retire", Idle) /\ remote' = remote
      /\ retired' = retired \cup {t}
      /\ asset' = asset /\ usages' = usages /\ gallery' = gallery
      /\ heroIds' = heroIds
  BY DEF TalentRemove
<1>3. req' = [req EXCEPT ![h] = Idle] /\ Typed
  BY <1>2, Frames
<1>4. \A k \in Slots : \A p \in MediaReq : p = req[k] => GalleryKnows(p)'
  BY <1>2, RequestAt DEF GalleryKnows, InGallery
<1>5. req' \in [Slots -> MediaReq] /\ GalleriesKnown'
  BY <1>3, <1>4, IdleIsOK, RequestsNext
<1>6. TypeOK'
  BY <1>2, <1>3, <1>5, TypeParts DEF GInv, Typed, TypeOK, TablesOK, OthersOK
<1>7. QED
  BY <1>2, <1>5, <1>6
     DEF GInv, UsageMatchesGallery, GalleryUnique, GalleryOf, InGallery, HasRow

LEMMA AbortStep ==
  ASSUME GInv, NEW h \in Slots, Abort(h)
  PROVE  GInv'
<1>1. req' = [req EXCEPT ![h] = Idle] /\ UNCHANGED tables /\ Typed
  BY TypeParts DEF GInv, OthersOK, Abort, Typed, tables
<1>2. QED BY <1>1, IdleIsOK, ReadStep

LEMMA GalleryKeeps ==
  ASSUME GInv, GalleryNext \/ HeroNext
  PROVE  GInv'
<1>1. CASE GalleryNext
  <2>1. PICK h \in Slots :
          \/ \E t \in Talents : TalentRemove(h, t)
          \/ \E t \in Talents, a \in Assets : AddMediaFind(h, t, a)
          \/ AddMediaCount(h) \/ AddMediaDemote(h) \/ AddMediaCommit(h)
          \/ AddMediaRefused(h)
          \/ \E m \in MediaIds : RemoveMediaFind(h, m) \/ SetPrimaryFind(h, m)
          \/ RemoveMediaCommit(h) \/ SetPrimaryDemote(h) \/ SetPrimaryCommit(h)
          \/ MediaRowGone(h)
          \/ \E t \in Talents : ReorderMediaFind(h, t)
          \/ ReorderMediaCommit(h)
    BY <1>1 DEF GalleryNext
  <2>2. QED
    BY <2>1, RetireStep, GalleryFinds, GalleryReads, AddMediaStep,
       RemoveMediaStep, SetPrimaryStep, ReorderStep
<1>2. CASE HeroNext
  BY <1>2, BulkFinds, GalleryReads, HeroCommitStep DEF HeroNext
<1>3. QED BY <1>1, <1>2

LEMMA GInit == Init => GInv
<1> SUFFICES ASSUME Init PROVE GInv
  OBVIOUS
<1>1. asset \in [Assets -> {NoAsset} \cup AssetRow]
  BY DEF Init, QuietLibrary
<1>2. TypeOK
  BY <1>1, IdleIsOK DEF Init, TypeOK
<1>3. UsageMatchesGallery
  BY DEF Init, UsageMatchesGallery, InGallery, GalleryOf
<1>4. GalleryUnique
  BY DEF Init, GalleryUnique, InGallery
<1>5. GalleriesKnown
  BY IdleIsOK DEF Init, GalleriesKnown
<1>6. QED BY <1>2, <1>3, <1>4, <1>5 DEF GInv

LEMMA GStep ==
  ASSUME GInv, [Next]_mediaVars
  PROVE  GInv'
<1>1. CASE MediaNext
  BY <1>1, MediaKeeps
<1>2. CASE GalleryNext \/ HeroNext
  BY <1>2, GalleryKeeps
<1>3. CASE \E h \in Slots : Abort(h)
  BY <1>3, AbortStep
<1>4. CASE UNCHANGED mediaVars
  <2>1. /\ asset' = asset /\ remote' = remote /\ usages' = usages
        /\ gallery' = gallery /\ heroIds' = heroIds /\ retired' = retired
        /\ req' = req /\ workload' = workload /\ overlapped' = overlapped
        /\ faults' = faults
    BY <1>4 DEF mediaVars, tables
  <2>2. TypeOK'
    BY <2>1 DEF GInv, TypeOK
  <2>3. UsageMatchesGallery' /\ GalleryUnique'
    BY <2>1 DEF GInv, UsageMatchesGallery, GalleryUnique, InGallery, GalleryOf,
               HasRow
  <2>4. GalleriesKnown'
    BY <2>1 DEF GInv, GalleriesKnown, GalleryKnows, InGallery
  <2>5. QED BY <2>2, <2>3, <2>4 DEF GInv
<1>5. QED BY <1>1, <1>2, <1>3, <1>4 DEF Next

(* The first layer: types, foreign keys, and what requests rely on.        *)
THEOREM TablesInvariance == Spec => []GInv
<1>1. GInv /\ [Next]_mediaVars => GInv'
  BY GStep
<1>2. QED BY GInit, <1>1, PTL DEF Spec

(* Every table, Cloudinary and every request in flight keep their types.   *)
THEOREM TypeCorrect == Spec => []TypeOK
<1>1. GInv => TypeOK
  BY DEF GInv
<1>2. QED BY <1>1, TablesInvariance, PTL

(* However gallery requests, trashing and permanent deletion race, the     *)
(* usages that protect images from Trash are those of the galleries, and   *)
(* every image of a gallery has its row.                                   *)
THEOREM GalleriesAreProtected == Spec => []UsageMatchesGallery
<1>1. GInv => UsageMatchesGallery
  BY DEF GInv
<1>2. QED BY <1>1, TablesInvariance, PTL

-----------------------------------------------------------------------------
(***************************************************************************)
(* What Cloudinary keeps.  Between a step at Cloudinary and the write of   *)
(* the row, an image belongs to a request alone; an image that a request   *)
(* will delete is one that no row has any more, or will have.              *)
(***************************************************************************)
ObjectOps == {"create", "repoint", "destroy"}
OldOps == {"replace", "repoint", "purge"}

(* Only the request that stored an image knows it.                         *)
ObjectsFresh ==
  \A h \in Slots : req[h].op \in {"create", "repoint"} =>
    /\ remote[req[h].object] = IF req[h].op = "create" THEN "upload" ELSE "replace"
    /\ \A a \in Assets : ~ HasObject(a, req[h].object)
    /\ \A k \in Slots :
         /\ req[k].op \in OldOps => req[k].old # req[h].object
         /\ (k # h /\ req[k].op \in ObjectOps) => req[k].object # req[h].object

(* The image a request found in a row is in no other row, and if the row   *)
(* has another by now then replace stored that.                            *)
OldsKnown ==
  \A h \in Slots : req[h].op \in OldOps =>
    \A o \in Objects :
      /\ \A a \in Assets : (HasObject(a, o) /\ req[h].old = o) => a = req[h].asset
      /\ (HasObject(req[h].asset, o) /\ remote[o] = "upload") => o = req[h].old

DestroyedUnused ==
  "reply lost" \notin faults =>
    \A h \in Slots : req[h].op = "destroy" =>
      \A a \in Assets : ~ HasObject(a, req[h].object)

(* The unique index on public_id.                                          *)
UniqueObjects ==
  \A a, b \in Assets, o \in Objects : (HasObject(a, o) /\ HasObject(b, o)) => a = b

OInv == /\ ObjectsFresh /\ OldsKnown /\ DestroyedUnused /\ UniqueObjects
        /\ NoBrokenImage /\ UploadsNeverOrphaned

Typing(r) ==
  /\ r.op \in ObjectOps => r.object \in Objects
  /\ r.op \in OldOps => /\ r.old \in Objects \cup {None} /\ Holds(r, "old", r.old)
                        /\ r.asset \in Assets /\ Holds(r, "asset", r.asset)
  /\ \A o : Holds(r, "object", o) <=> r.op \in ObjectOps /\ r.object = o

LEMMA ObjectFields == \A r \in MediaReq : Typing(r)
<1> SUFFICES ASSUME NEW r \in MediaReq PROVE Typing(r)
  OBVIOUS
<1>1. /\ r.op \in ObjectOps => r.object \in Objects /\ "object" \in DOMAIN r
      /\ r.op \in OldOps => /\ r.old \in Objects \cup {None}
                            /\ r.asset \in Assets
                            /\ "old" \in DOMAIN r /\ "asset" \in DOMAIN r
  BY Requests DEF ObjectOps, OldOps
<1>2. "object" \in DOMAIN r => r.op \in ObjectOps
  BY DEF MediaReq, Idle, ObjectOps
<1>3. QED BY <1>1, <1>2 DEF Holds, Fields, Typing

(* What a step of slot h does to req, seen slot by slot.                   *)
Becomes(h, r) == \A k \in Slots : req'[k] = IF k = h THEN r ELSE req[k]

LEMMA Slotwise ==
  ASSUME GInv, NEW h \in Slots, NEW r \in MediaReq, Becomes(h, r)
  PROVE  /\ \A k \in Slots :
              /\ req[k].op \in ObjectOps => req[k].object \in Objects
              /\ req'[k].op \in ObjectOps => req'[k].object \in Objects
              /\ req[k].op \in OldOps => /\ req[k].old \in Objects \cup {None}
                                         /\ req[k].asset \in Assets
              /\ req'[k].op \in OldOps => /\ req'[k].old \in Objects \cup {None}
                                          /\ req'[k].asset \in Assets
         /\ \A k \in Slots, o \in Objects :
              /\ Holds(req[k], "object", o)
                   <=> req[k].op \in ObjectOps /\ req[k].object = o
              /\ Holds(req'[k], "object", o)
                   <=> req'[k].op \in ObjectOps /\ req'[k].object = o
<1>1. req \in [Slots -> MediaReq]
  BY DEF GInv, TypeOK
<1>2. \A k \in Slots : /\ req'[k] = IF k = h THEN r ELSE req[k]
                       /\ req'[k] \in MediaReq
  BY <1>1 DEF Becomes
<1>3. \A k \in Slots : Typing(req[k]) /\ Typing(req'[k])
  BY <1>1, <1>2, ObjectFields
<1>4. QED BY <1>2, <1>3 DEF Typing

SameObjects ==
  \A a \in Assets, o \in Objects :
    (asset'[a] # NoAsset /\ asset'[a].publicId = o) <=> HasObject(a, o)

(* A step that touches no image, nor a request that answers for one; it    *)
(* may read which image a row has.                                         *)
LEMMA OtherStep ==
  ASSUME GInv, OInv, NEW h \in Slots, NEW r \in MediaReq, Becomes(h, r),
         r.op \notin ObjectOps,
         r.op \in OldOps => HasRow(r.asset) /\ r.old = asset[r.asset].publicId,
         SameObjects, remote' = remote,
         "reply lost" \in faults' <=> "reply lost" \in faults,
         faults' = {} => faults = {} /\ req[h].op \notin {"create", "destroy"}
  PROVE  OInv'
<1>1. \A k \in Slots : req'[k] = IF k = h THEN r ELSE req[k]
  BY DEF Becomes
<1>2. \A a \in Assets, o \in Objects : HasObject(a, o)' <=> HasObject(a, o)
  BY DEF SameObjects, HasObject, HasRow
<1>3. r.op \in OldOps => /\ r.asset \in Assets /\ r.old \in Objects \cup {None}
                         /\ \A o \in Objects : HasObject(r.asset, o) <=> r.old = o
  BY <1>1, Slotwise DEF HasObject
<1>4. ObjectsFresh'
  <2> SUFFICES ASSUME NEW k \in Slots, req'[k].op \in {"create", "repoint"}
               PROVE  ObjectsFresh!(k)'
    BY DEF ObjectsFresh
  <2>1. k # h /\ req'[k] = req[k] /\ req[k].object \in Objects
    BY <1>1, Slotwise DEF ObjectOps
  <2>2. r.op \in OldOps => r.old # req[k].object
    BY <1>3, <2>1 DEF OInv, ObjectsFresh
  <2>3. ObjectsFresh!(k)
    BY <2>1 DEF OInv, ObjectsFresh
  <2>4. \A a \in Assets : ~ HasObject(a, req[k].object)'
    BY <1>2, <2>1, <2>3
  <2>5. \A g \in Slots :
          /\ req'[g].op \in OldOps => req'[g].old # req[k].object
          /\ (g # k /\ req'[g].op \in ObjectOps) => req'[g].object # req[k].object
    BY <1>1, <2>1, <2>2, <2>3
  <2>6. QED
    BY <2>1, <2>3, <2>4, <2>5 DEF HasObject, HasRow
<1>5. OldsKnown'
  <2> SUFFICES ASSUME NEW k \in Slots, req'[k].op \in OldOps, NEW o \in Objects
               PROVE  /\ \A a \in Assets : (HasObject(a, o)' /\ req'[k].old = o)
                                           => a = req'[k].asset
                      /\ (HasObject(req[k].asset, o)' /\ remote'[o] = "upload")
                           => o = req'[k].old
    BY DEF OldsKnown, HasObject, HasRow
  <2>1. req'[k].asset \in Assets
    BY Slotwise
  <2>2. HasObject(req[k].asset, o)' <=> HasObject(req'[k].asset, o)
    BY <1>2, <2>1 DEF HasObject, HasRow
  <2>3. CASE k = h
    BY <1>1, <1>2, <1>3, <2>2, <2>3 DEF OInv, UniqueObjects
  <2>4. CASE k # h
    <3>1. req'[k] = req[k]
      BY <1>1, <2>4
    <3>2. /\ \A a \in Assets : (HasObject(a, o) /\ req[k].old = o) => a = req[k].asset
          /\ (HasObject(req[k].asset, o) /\ remote[o] = "upload") => o = req[k].old
      BY <3>1 DEF OInv, OldsKnown
    <3>3. HasObject(req[k].asset, o)' <=> HasObject(req[k].asset, o)
      BY <2>2, <3>1
    <3>4. QED BY <1>2, <3>1, <3>2, <3>3
  <2>5. QED BY <2>3, <2>4
<1>6. DestroyedUnused'
  <2> SUFFICES ASSUME "reply lost" \notin faults', NEW k \in Slots,
                      req'[k].op = "destroy", NEW a \in Assets,
                      HasObject(a, req[k].object)'
               PROVE  FALSE
    BY DEF DestroyedUnused, HasObject, HasRow
  <2>1. k # h /\ req'[k] = req[k]
    BY <1>1 DEF ObjectOps
  <2>2. PICK o \in Objects : o = req[k].object
    BY <2>1, Slotwise DEF ObjectOps
  <2>3. HasObject(a, o)'
    BY <2>1, <2>2 DEF HasObject, HasRow
  <2>4. HasObject(a, req[k].object)
    BY <1>2, <2>2, <2>3
  <2>5. QED BY <2>1, <2>4 DEF OInv, DestroyedUnused
<1>7. UniqueObjects' /\ NoBrokenImage'
  BY <1>2 DEF OInv, UniqueObjects, NoBrokenImage
<1>8. UploadsNeverOrphaned'
  <2> SUFFICES ASSUME faults' = {}, NEW o \in Objects, remote[o] = "upload"
               PROVE  \/ \E a \in Assets : HasObject(a, o)'
                      \/ \E k \in Slots : Holds(req'[k], "object", o)
    BY DEF UploadsNeverOrphaned, HasObject, HasRow, Holds, Fields
  <2>1. CASE \E a \in Assets : HasObject(a, o)
    BY <1>2, <2>1
  <2>2. CASE \E k \in Slots : Holds(req[k], "object", o)
    <3>1. PICK k \in Slots : Holds(req[k], "object", o)
      BY <2>2
    <3>2. req[k].op \in ObjectOps /\ req[k].object = o
      BY <3>1, Slotwise
    <3>3. k # h
      BY <3>2 DEF OInv, ObjectsFresh, ObjectOps
    <3>4. QED BY <1>1, <3>1, <3>3
  <2>3. QED BY <2>1, <2>2 DEF OInv, UploadsNeverOrphaned
<1>9. QED BY <1>4, <1>5, <1>6, <1>7, <1>8 DEF OInv

LEMMA FreshFacts ==
  ASSUME OInv, NEW k \in Slots, req[k].op \in {"create", "repoint"}
  PROVE  /\ remote[req[k].object] = IF req[k].op = "create" THEN "upload" ELSE "replace"
         /\ \A a \in Assets : ~ HasObject(a, req[k].object)
         /\ \A j \in Slots :
              /\ req[j].op \in OldOps => req[j].old # req[k].object
              /\ (j # k /\ req[j].op \in ObjectOps) => req[j].object # req[k].object
  BY DEF OInv, ObjectsFresh

(* A request that stores an image takes a public id nobody holds.          *)
LEMMA StoreStep ==
  ASSUME GInv, OInv, NEW h \in Slots, NEW r \in MediaReq, Becomes(h, r),
         r.op \in {"create", "repoint"}, NEW x \in Objects, r.object = x,
         \A a \in Assets : ~ HasObject(a, x),
         \A k \in Slots : ~ Holds(req[k], "object", x) /\ ~ Holds(req[k], "old", x),
         \A o \in Objects :
           remote'[o] = IF o # x THEN remote[o]
                        ELSE IF r.op = "create" THEN "upload" ELSE "replace",
         r.op = "repoint" => /\ req[h].op \in OldOps
                             /\ r.asset = req[h].asset /\ r.old = req[h].old,
         req[h].op \notin ObjectOps, asset' = asset, faults' = faults
  PROVE  OInv'
<1>1. \A k \in Slots : req'[k] = IF k = h THEN r ELSE req[k]
  BY DEF Becomes
<1>2. \A a \in Assets, o \in Objects : HasObject(a, o)' <=> HasObject(a, o)
  BY DEF HasObject, HasRow
<1>3. \A k \in Slots : /\ req[k].op \in ObjectOps => req[k].object # x
                       /\ req[k].op \in OldOps => req[k].old # x
  <2> TAKE k \in Slots
  <2>1. Typing(req[k])
    BY ObjectFields DEF GInv, TypeOK
  <2>2. QED BY <2>1 DEF Typing
<1>4. ObjectsFresh'
  <2> SUFFICES ASSUME NEW k \in Slots, req'[k].op \in {"create", "repoint"}
               PROVE  ObjectsFresh!(k)'
    BY DEF ObjectsFresh
  <2>1. PICK o \in Objects : o = req'[k].object
    BY Slotwise DEF ObjectOps
  <2>2. \A a \in Assets : ~ HasObject(a, o)
    BY <1>1, <2>1 DEF OInv, ObjectsFresh
  <2>3. \A a \in Assets : ~ HasObject(a, req[k].object)'
    BY <1>2, <2>1, <2>2 DEF HasObject, HasRow
  <2>4. remote'[o] = IF req'[k].op = "create" THEN "upload" ELSE "replace"
    BY <1>1, <1>3, <2>1 DEF OInv, ObjectsFresh, ObjectOps
  <2>5. \A j \in Slots :
          /\ req'[j].op \in OldOps => req'[j].old # o
          /\ (j # k /\ req'[j].op \in ObjectOps) => req'[j].object # o
    <3> TAKE j \in Slots
    <3>1. CASE k = h
      <4>1. o = x /\ (r.op \in OldOps => r.old # x)
        BY <1>1, <1>3, <2>1, <3>1 DEF OldOps
      <4>2. QED BY <1>1, <1>3, <3>1, <4>1
    <3>2. CASE k # h
      <4>1. /\ req[j].op \in OldOps => req[j].old # o
            /\ (j # k /\ req[j].op \in ObjectOps) => req[j].object # o
            /\ o # x
        BY <1>1, <1>3, <2>1, <3>2, FreshFacts DEF ObjectOps
      <4>2. r.op \in OldOps => r.old # o
        BY <1>1, <2>1, <3>2, FreshFacts DEF OldOps
      <4>3. QED BY <1>1, <4>1, <4>2
    <3>3. QED BY <3>1, <3>2
  <2>6. QED BY <2>1, <2>3, <2>4, <2>5
<1>5. OldsKnown'
  <2> SUFFICES ASSUME NEW k \in Slots, req'[k].op \in OldOps, NEW o \in Objects
               PROVE  /\ \A a \in Assets : (HasObject(a, o)' /\ req'[k].old = o)
                                           => a = req'[k].asset
                      /\ (HasObject(req[k].asset, o)' /\ remote'[o] = "upload")
                           => o = req'[k].old
    BY DEF OldsKnown, HasObject, HasRow
  <2>1. /\ req[k].op \in OldOps /\ req'[k].asset = req[k].asset
        /\ req'[k].old = req[k].old /\ req[k].asset \in Assets
    BY <1>1, Slotwise DEF OldOps
  <2>2. HasObject(req[k].asset, o)' <=> HasObject(req[k].asset, o)
    BY <1>2, <2>1 DEF HasObject, HasRow
  <2>3. HasObject(req[k].asset, o) => o # x
    BY <2>1
  <2>4. QED BY <1>2, <2>1, <2>2, <2>3 DEF OInv, OldsKnown
<1>6. DestroyedUnused'
  <2> SUFFICES ASSUME "reply lost" \notin faults', NEW k \in Slots,
                      req'[k].op = "destroy", NEW a \in Assets,
                      HasObject(a, req[k].object)'
               PROVE  FALSE
    BY DEF DestroyedUnused, HasObject, HasRow
  <2>1. k # h /\ req'[k] = req[k]
    BY <1>1
  <2>2. PICK o \in Objects : o = req[k].object
    BY <2>1, Slotwise DEF ObjectOps
  <2>3. HasObject(a, o)'
    BY <2>1, <2>2 DEF HasObject, HasRow
  <2>4. HasObject(a, req[k].object)
    BY <1>2, <2>2, <2>3
  <2>5. QED BY <2>1, <2>4 DEF OInv, DestroyedUnused
<1>7. UniqueObjects' /\ NoBrokenImage'
  BY <1>2 DEF OInv, UniqueObjects, NoBrokenImage
<1>8. UploadsNeverOrphaned'
  <2> SUFFICES ASSUME faults' = {}, NEW o \in Objects, remote'[o] = "upload"
               PROVE  \/ \E a \in Assets : HasObject(a, o)'
                      \/ \E k \in Slots : Holds(req'[k], "object", o)
    BY DEF UploadsNeverOrphaned, HasObject, HasRow, Holds, Fields
  <2>1. CASE o = x
    BY <1>1, <2>1, Slotwise DEF ObjectOps
  <2>2. CASE o # x /\ \E a \in Assets : HasObject(a, o)
    BY <1>2, <2>2
  <2>3. CASE o # x /\ \E k \in Slots : Holds(req[k], "object", o)
    <3>1. PICK k \in Slots : Holds(req[k], "object", o)
      BY <2>3
    <3>2. k # h
      BY <3>1, Slotwise
    <3>3. QED BY <1>1, <3>1, <3>2
  <2>4. QED BY <2>1, <2>2, <2>3 DEF OInv, UploadsNeverOrphaned
<1>9. QED BY <1>4, <1>5, <1>6, <1>7, <1>8 DEF OInv

(* The image a request has stored becomes the image of row b: a new row's, *)
(* or the row's it was replacing; the one that row had is given up.        *)
PointsTo(b, x) ==
  \A a \in Assets, o \in Objects :
    (asset'[a] # NoAsset /\ asset'[a].publicId = o)
      <=> (a = b /\ o = x) \/ (a # b /\ HasObject(a, o))

Inserts(h, r, b) ==
  /\ req[h].op = "create"
  /\ ~ HasRow(b)
  /\ \A k \in Slots : ~ Holds(req[k], "asset", b)
  /\ \/ r.op = "idle"
     \/ r.op = "destroy" /\ r.object = req[h].object /\ "reply lost" \in faults'

Repoints(h, r, b) ==
  /\ req[h].op = "repoint"
  /\ b = req[h].asset
  /\ req[h].old = None => r.op = "idle"
  /\ req[h].old # None => r.op = "destroy" /\ r.object = req[h].old

LEMMA AttachStep ==
  ASSUME GInv, OInv, NEW h \in Slots, NEW r \in MediaReq, Becomes(h, r),
         req[h].op \in {"create", "repoint"},
         NEW x \in Objects, req[h].object = x, NEW b \in Assets,
         PointsTo(b, x), Inserts(h, r, b) \/ Repoints(h, r, b),
         remote' = remote, faults' = faults \/ "reply lost" \in faults'
  PROVE  OInv'
<1>1. \A k \in Slots : req'[k] = IF k = h THEN r ELSE req[k]
  BY DEF Becomes
<1>2. \A a \in Assets, o \in Objects :
        HasObject(a, o)' <=> (a = b /\ o = x) \/ (a # b /\ HasObject(a, o))
  BY DEF PointsTo, HasObject, HasRow
<1>3. /\ remote[x] = IF req[h].op = "create" THEN "upload" ELSE "replace"
      /\ \A a \in Assets : ~ HasObject(a, x)
      /\ \A k \in Slots :
           /\ req[k].op \in OldOps => req[k].old # x
           /\ (k # h /\ req[k].op \in ObjectOps) => req[k].object # x
  BY FreshFacts
<1>4. r.op = "idle" \/ r.op = "destroy"
  BY DEF Inserts, Repoints
<1>5. ObjectsFresh'
  <2> SUFFICES ASSUME NEW k \in Slots, req'[k].op \in {"create", "repoint"}
               PROVE  ObjectsFresh!(k)'
    BY DEF ObjectsFresh
  <2>1. k # h /\ req'[k] = req[k]
    BY <1>1, <1>4
  <2>2. PICK o \in Objects : o = req'[k].object /\ o = req[k].object
    BY <2>1, Slotwise DEF ObjectOps
  <2>3. o # x /\ \A a \in Assets : ~ HasObject(a, o)
    BY <1>3, <2>1, <2>2, FreshFacts DEF ObjectOps
  <2>4. \A a \in Assets : ~ HasObject(a, req[k].object)'
    BY <1>2, <2>2, <2>3 DEF HasObject, HasRow
  <2>5. \A j \in Slots :
          /\ req'[j].op \in OldOps => req'[j].old # o
          /\ (j # k /\ req'[j].op \in ObjectOps) => req'[j].object # o
    <3> TAKE j \in Slots
    <3>1. CASE j = h
      <4>1. req'[j] = r /\ req[h].op \in ObjectOps
        BY <1>1, <3>1 DEF ObjectOps
      <4>2. req[h].op = "repoint" => req[h].old # o /\ req[h].op \in OldOps
        BY <2>1, <2>2, FreshFacts DEF OldOps
      <4>3. r.op = "destroy" => r.object = x \/ (req[h].op = "repoint" /\ r.object = req[h].old)
        BY DEF Inserts, Repoints
      <4>4. QED BY <1>4, <2>3, <4>1, <4>2, <4>3 DEF OldOps, ObjectOps
    <3>2. CASE j # h
      BY <1>1, <2>1, <2>2, <3>2, FreshFacts
    <3>3. QED BY <3>1, <3>2
  <2>6. remote'[o] = IF req'[k].op = "create" THEN "upload" ELSE "replace"
    BY <2>1, <2>2 DEF OInv, ObjectsFresh
  <2>7. QED BY <2>2, <2>4, <2>5, <2>6
<1>6. OldsKnown'
  <2> SUFFICES ASSUME NEW k \in Slots, req'[k].op \in OldOps, NEW o \in Objects
               PROVE  /\ \A a \in Assets : (HasObject(a, o)' /\ req'[k].old = o)
                                           => a = req'[k].asset
                      /\ (HasObject(req[k].asset, o)' /\ remote'[o] = "upload")
                           => o = req'[k].old
    BY DEF OldsKnown, HasObject, HasRow
  <2>1. k # h /\ req'[k] = req[k] /\ req[k].asset \in Assets /\ req[k].op \in OldOps
    BY <1>1, <1>4, Slotwise DEF OldOps
  <2>2. HasObject(req[k].asset, o)'
          <=> \/ req[k].asset = b /\ o = x
              \/ req[k].asset # b /\ HasObject(req[k].asset, o)
    <3>1. PICK c \in Assets : c = req[k].asset /\ c = req'[k].asset
      BY <2>1
    <3>2. HasObject(c, o)' <=> HasObject(req[k].asset, o)'
      BY <3>1 DEF HasObject, HasRow
    <3>3. QED BY <1>2, <3>1, <3>2
  <2>3. req[k].asset = b => req[h].op # "create"
    <3>1. Typing(req[k])
      BY ObjectFields DEF GInv, TypeOK
    <3>2. QED BY <2>1, <3>1 DEF Typing, Inserts, Repoints
  <2>4. \A a \in Assets : (HasObject(a, o)' /\ req[k].old = o) => a = req[k].asset
    BY <1>2, <1>3, <2>1 DEF OInv, OldsKnown
  <2>5. (HasObject(req[k].asset, o)' /\ remote[o] = "upload") => o = req[k].old
    BY <1>3, <2>1, <2>2, <2>3 DEF OInv, OldsKnown
  <2>6. QED BY <2>1, <2>4, <2>5
<1>7. DestroyedUnused'
  <2> SUFFICES ASSUME "reply lost" \notin faults', NEW k \in Slots,
                      req'[k].op = "destroy", NEW a \in Assets,
                      HasObject(a, req[k].object)'
               PROVE  FALSE
    BY DEF DestroyedUnused, HasObject, HasRow
  <2>1. PICK o \in Objects : o = req'[k].object
    BY Slotwise DEF ObjectOps
  <2>2. (a = b /\ o = x) \/ (a # b /\ HasObject(a, o))
    BY <1>2, <2>1 DEF HasObject, HasRow
  <2>3. CASE k = h
    <3>1. req[h].op = "repoint" /\ o = req[h].old /\ b = req[h].asset
      BY <1>1, <2>1, <2>3 DEF Inserts, Repoints
    <3>2. QED BY <1>3, <2>2, <3>1 DEF OInv, OldsKnown, OldOps
  <2>4. CASE k # h
    <3>1. req[k].op = "destroy" /\ o = req[k].object /\ o # x
      BY <1>1, <1>3, <2>1, <2>4 DEF ObjectOps
    <3>2. "reply lost" \notin faults
      OBVIOUS
    <3>3. ~ HasObject(a, o)
      BY <3>1, <3>2 DEF OInv, DestroyedUnused
    <3>4. QED BY <2>2, <3>1, <3>3
  <2>5. QED BY <2>3, <2>4
<1>8. UniqueObjects' /\ NoBrokenImage'
  <2>1. UniqueObjects'
    <3> SUFFICES ASSUME NEW a \in Assets, NEW c \in Assets, NEW o \in Objects,
                        HasObject(a, o)', HasObject(c, o)'
                 PROVE  a = c
      BY DEF UniqueObjects
    <3>1. /\ (a = b /\ o = x) \/ (a # b /\ HasObject(a, o))
          /\ (c = b /\ o = x) \/ (c # b /\ HasObject(c, o))
      BY <1>2
    <3>2. QED BY <1>3, <3>1 DEF OInv, UniqueObjects
  <2>2. NoBrokenImage'
    BY <1>2, <1>3 DEF OInv, NoBrokenImage
  <2>3. QED BY <2>1, <2>2
<1>9. UploadsNeverOrphaned'
  <2> SUFFICES ASSUME faults' = {}, NEW o \in Objects, remote[o] = "upload"
               PROVE  \/ \E a \in Assets : HasObject(a, o)'
                      \/ \E k \in Slots : Holds(req'[k], "object", o)
    BY DEF UploadsNeverOrphaned, HasObject, HasRow, Holds, Fields
  <2>1. CASE \E a \in Assets : HasObject(a, o)
    <3>1. PICK a \in Assets : HasObject(a, o)
      BY <2>1
    <3>2. CASE a # b
      BY <1>2, <3>1, <3>2
    <3>3. CASE a = b
      <4>1. req[h].op = "repoint" /\ b = req[h].asset
        BY <3>1, <3>3 DEF HasObject, Inserts, Repoints
      <4>2. o = req[h].old
        BY <3>1, <3>3, <4>1 DEF OInv, OldsKnown, OldOps
      <4>3. r.op = "destroy" /\ r.object = o
        BY <4>1, <4>2, NoneAssumption DEF Inserts, Repoints
      <4>4. QED BY <1>1, <4>3, Slotwise DEF ObjectOps
    <3>4. QED BY <3>2, <3>3
  <2>2. CASE \E k \in Slots : Holds(req[k], "object", o)
    <3>1. PICK k \in Slots : Holds(req[k], "object", o)
      BY <2>2
    <3>2. k = h => o = x
      BY <3>1, Slotwise
    <3>3. QED BY <1>1, <1>2, <3>1, <3>2
  <2>3. QED BY <2>1, <2>2 DEF OInv, UploadsNeverOrphaned
<1>10. QED BY <1>5, <1>6, <1>7, <1>8, <1>9 DEF OInv

(* Row b goes, or no row does, and the request goes on to delete an image  *)
(* that is the row's, if any row's.                                        *)
Empties(b) ==
  \A a \in Assets, o \in Objects :
    (asset'[a] # NoAsset /\ asset'[a].publicId = o) <=> (a # b /\ HasObject(a, o))

Purges(h, r, b) ==
  /\ req[h].op = "purge"
  /\ b = req[h].asset
  /\ req[h].old = None => r.op = "idle"
  /\ req[h].old # None => r.op = "destroy" /\ r.object = req[h].old

LEMMA PurgeStep ==
  ASSUME GInv, OInv, NEW h \in Slots, NEW r \in MediaReq, Becomes(h, r),
         NEW b \in Assets, Empties(b), Purges(h, r, b),
         remote' = remote, faults' = faults
  PROVE  OInv'
<1>1. \A k \in Slots : req'[k] = IF k = h THEN r ELSE req[k]
  BY DEF Becomes
<1>2. \A a \in Assets, o \in Objects :
        HasObject(a, o)' <=> (a # b /\ HasObject(a, o))
  BY DEF Empties, HasObject, HasRow
<1>3. /\ r.op = "idle" \/ r.op = "destroy"
      /\ r.op = "destroy" => r.object = req[h].old
      /\ req[h].op \in OldOps /\ b = req[h].asset
      /\ req[h].op \notin ObjectOps
  BY DEF Purges, OldOps, ObjectOps
<1>4. ObjectsFresh'
  <2> SUFFICES ASSUME NEW k \in Slots, req'[k].op \in {"create", "repoint"}
               PROVE  ObjectsFresh!(k)'
    BY DEF ObjectsFresh
  <2>1. k # h /\ req'[k] = req[k]
    BY <1>1, <1>3
  <2>2. PICK o \in Objects : o = req'[k].object /\ o = req[k].object
    BY <2>1, Slotwise DEF ObjectOps
  <2>3. \A a \in Assets : ~ HasObject(a, o)
    BY <2>1, <2>2, FreshFacts
  <2>4. \A a \in Assets : ~ HasObject(a, req[k].object)'
    BY <1>2, <2>2, <2>3 DEF HasObject, HasRow
  <2>5. \A j \in Slots :
          /\ req'[j].op \in OldOps => req'[j].old # o
          /\ (j # k /\ req'[j].op \in ObjectOps) => req'[j].object # o
    <3> TAKE j \in Slots
    <3>1. CASE j = h
      <4>1. req[h].old # o
        BY <1>3, <2>1, <2>2, FreshFacts
      <4>2. QED BY <1>1, <1>3, <3>1, <4>1 DEF OldOps, ObjectOps
    <3>2. CASE j # h
      BY <1>1, <2>1, <2>2, <3>2, FreshFacts
    <3>3. QED BY <3>1, <3>2
  <2>6. remote'[o] = IF req'[k].op = "create" THEN "upload" ELSE "replace"
    BY <2>1, <2>2, FreshFacts
  <2>7. QED BY <2>2, <2>4, <2>5, <2>6
<1>5. OldsKnown'
  <2> SUFFICES ASSUME NEW k \in Slots, req'[k].op \in OldOps, NEW o \in Objects
               PROVE  /\ \A a \in Assets : (HasObject(a, o)' /\ req'[k].old = o)
                                           => a = req'[k].asset
                      /\ (HasObject(req[k].asset, o)' /\ remote'[o] = "upload")
                           => o = req'[k].old
    BY DEF OldsKnown, HasObject, HasRow
  <2>1. k # h /\ req'[k] = req[k] /\ req[k].asset \in Assets /\ req[k].op \in OldOps
    BY <1>1, <1>3, Slotwise DEF OldOps
  <2>2. HasObject(req[k].asset, o)' => HasObject(req[k].asset, o)
    <3>1. PICK c \in Assets : c = req[k].asset /\ c = req'[k].asset
      BY <2>1
    <3>2. HasObject(c, o)' <=> HasObject(req[k].asset, o)'
      BY <3>1 DEF HasObject, HasRow
    <3>3. QED BY <1>2, <3>1, <3>2
  <2>3. QED BY <1>2, <2>1, <2>2 DEF OInv, OldsKnown
<1>6. DestroyedUnused'
  <2> SUFFICES ASSUME "reply lost" \notin faults', NEW k \in Slots,
                      req'[k].op = "destroy", NEW a \in Assets,
                      HasObject(a, req[k].object)'
               PROVE  FALSE
    BY DEF DestroyedUnused, HasObject, HasRow
  <2>1. PICK o \in Objects : o = req'[k].object
    BY Slotwise DEF ObjectOps
  <2>2. a # b /\ HasObject(a, o)
    BY <1>2, <2>1 DEF HasObject, HasRow
  <2>3. CASE k = h
    BY <1>1, <1>3, <2>1, <2>2, <2>3 DEF OInv, OldsKnown
  <2>4. CASE k # h
    <3>1. req[k].op = "destroy" /\ o = req[k].object
      BY <1>1, <2>1, <2>4
    <3>2. QED BY <2>2, <3>1 DEF OInv, DestroyedUnused
  <2>5. QED BY <2>3, <2>4
<1>7. UniqueObjects' /\ NoBrokenImage'
  BY <1>2 DEF OInv, UniqueObjects, NoBrokenImage
<1>8. UploadsNeverOrphaned'
  <2> SUFFICES ASSUME faults' = {}, NEW o \in Objects, remote[o] = "upload"
               PROVE  \/ \E a \in Assets : HasObject(a, o)'
                      \/ \E k \in Slots : Holds(req'[k], "object", o)
    BY DEF UploadsNeverOrphaned, HasObject, HasRow, Holds, Fields
  <2>1. CASE \E a \in Assets : HasObject(a, o)
    <3>1. PICK a \in Assets : HasObject(a, o)
      BY <2>1
    <3>2. CASE a # b
      BY <1>2, <3>1, <3>2
    <3>3. CASE a = b
      <4>1. o = req[h].old
        BY <1>3, <3>1, <3>3 DEF OInv, OldsKnown
      <4>2. r.op = "destroy" /\ r.object = o
        BY <4>1, NoneAssumption DEF Purges
      <4>3. QED BY <1>1, <4>2, Slotwise DEF ObjectOps
    <3>4. QED BY <3>2, <3>3
  <2>2. CASE \E k \in Slots : Holds(req[k], "object", o)
    <3>1. PICK k \in Slots : Holds(req[k], "object", o)
      BY <2>2
    <3>2. k # h
      BY <1>3, <3>1, Slotwise
    <3>3. QED BY <1>1, <3>1, <3>2
  <2>3. QED BY <2>1, <2>2 DEF OInv, UploadsNeverOrphaned
<1>9. QED BY <1>4, <1>5, <1>6, <1>7, <1>8 DEF OInv

(* What deletes an image, or is about to: a step at Cloudinary, and one    *)
(* that gives an image up that no row ever had.                            *)
LEMMA DiscardStep ==
  ASSUME GInv, OInv, NEW h \in Slots, NEW r \in MediaReq, Becomes(h, r),
         NEW x \in Objects, req[h].object = x, asset' = asset, faults' = faults,
         \/ /\ req[h].op = "destroy" /\ r.op = "idle"
            /\ \A o \in Objects : remote'[o] = IF o = x THEN "absent" ELSE remote[o]
         \/ /\ req[h].op = "create" /\ r.op = "destroy" /\ r.object = x
            /\ remote' = remote
  PROVE  OInv'
<1>1. \A k \in Slots : req'[k] = IF k = h THEN r ELSE req[k]
  BY DEF Becomes
<1>2. \A a \in Assets, o \in Objects : HasObject(a, o)' <=> HasObject(a, o)
  BY DEF HasObject, HasRow
<1>3. \A o \in Objects : o # x => remote'[o] = remote[o]
  OBVIOUS
<1>4. /\ r.op \notin OldOps /\ req[h].op \in ObjectOps
      /\ r.op \in ObjectOps => r.object = x
      /\ r.op \in {"idle", "destroy"}
  BY DEF OldOps, ObjectOps
<1>5. ObjectsFresh'
  <2> SUFFICES ASSUME NEW k \in Slots, req'[k].op \in {"create", "repoint"}
               PROVE  ObjectsFresh!(k)'
    BY DEF ObjectsFresh
  <2>1. k # h /\ req'[k] = req[k]
    BY <1>1, <1>4
  <2>2. PICK o \in Objects : o = req'[k].object /\ o = req[k].object
    BY <2>1, Slotwise DEF ObjectOps
  <2>3. o # x /\ \A a \in Assets : ~ HasObject(a, o)
    BY <1>4, <2>1, <2>2, FreshFacts
  <2>4. \A a \in Assets : ~ HasObject(a, req[k].object)'
    BY <1>2, <2>2, <2>3 DEF HasObject, HasRow
  <2>5. \A j \in Slots :
          /\ req'[j].op \in OldOps => req'[j].old # o
          /\ (j # k /\ req'[j].op \in ObjectOps) => req'[j].object # o
    <3> TAKE j \in Slots
    <3>1. CASE j = h
      BY <1>1, <1>4, <2>3, <3>1
    <3>2. CASE j # h
      BY <1>1, <2>1, <2>2, <3>2, FreshFacts
    <3>3. QED BY <3>1, <3>2
  <2>6. remote'[o] = IF req'[k].op = "create" THEN "upload" ELSE "replace"
    BY <1>3, <2>1, <2>2, <2>3, FreshFacts
  <2>7. QED BY <2>2, <2>4, <2>5, <2>6
<1>6. OldsKnown'
  <2> SUFFICES ASSUME NEW k \in Slots, req'[k].op \in OldOps, NEW o \in Objects
               PROVE  /\ \A a \in Assets : (HasObject(a, o)' /\ req'[k].old = o)
                                           => a = req'[k].asset
                      /\ (HasObject(req[k].asset, o)' /\ remote'[o] = "upload")
                           => o = req'[k].old
    BY DEF OldsKnown, HasObject, HasRow
  <2>1. k # h /\ req'[k] = req[k] /\ req[k].asset \in Assets /\ req[k].op \in OldOps
    BY <1>1, <1>4, Slotwise
  <2>2. HasObject(req[k].asset, o)' <=> HasObject(req[k].asset, o)
    BY <1>2, <2>1 DEF HasObject, HasRow
  <2>3. remote'[o] = "upload" => remote[o] = "upload"
    OBVIOUS
  <2>4. QED BY <1>2, <2>1, <2>2, <2>3 DEF OInv, OldsKnown
<1>7. DestroyedUnused'
  <2> SUFFICES ASSUME "reply lost" \notin faults', NEW k \in Slots,
                      req'[k].op = "destroy", NEW a \in Assets,
                      HasObject(a, req[k].object)'
               PROVE  FALSE
    BY DEF DestroyedUnused, HasObject, HasRow
  <2>1. PICK o \in Objects : o = req'[k].object
    BY Slotwise DEF ObjectOps
  <2>2. HasObject(a, o)
    BY <1>2, <2>1 DEF HasObject, HasRow
  <2>3. CASE k = h
    <3>1. req[h].op = "create" /\ o = x
      BY <1>1, <1>4, <2>1, <2>3 DEF ObjectOps
    <3>2. QED BY <2>2, <3>1, FreshFacts
  <2>4. CASE k # h
    <3>1. req[k].op = "destroy" /\ o = req[k].object
      BY <1>1, <2>1, <2>4
    <3>2. QED BY <2>2, <3>1 DEF OInv, DestroyedUnused
  <2>5. QED BY <2>3, <2>4
<1>8. UniqueObjects'
  BY <1>2 DEF OInv, UniqueObjects
<1>9. NoBrokenImage'
  <2> SUFFICES ASSUME "reply lost" \notin faults, NEW a \in Assets,
                      NEW o \in Objects, HasObject(a, o)
               PROVE  remote'[o] # "absent"
    BY <1>2 DEF NoBrokenImage
  <2>1. remote[o] # "absent"
    BY DEF OInv, NoBrokenImage
  <2>2. req[h].op = "destroy" => o # x
    BY DEF OInv, DestroyedUnused
  <2>3. QED BY <2>1, <2>2
<1>10. UploadsNeverOrphaned'
  <2> SUFFICES ASSUME faults' = {}, NEW o \in Objects, remote'[o] = "upload"
               PROVE  \/ \E a \in Assets : HasObject(a, o)'
                      \/ \E k \in Slots : Holds(req'[k], "object", o)
    BY DEF UploadsNeverOrphaned, HasObject, HasRow, Holds, Fields
  <2>1. remote[o] = "upload"
    OBVIOUS
  <2>2. CASE \E a \in Assets : HasObject(a, o)
    BY <1>2, <2>2
  <2>3. CASE \E k \in Slots : Holds(req[k], "object", o)
    <3>1. PICK k \in Slots : Holds(req[k], "object", o)
      BY <2>3
    <3>2. CASE k = h
      <4>1. o = x
        BY <3>1, <3>2, Slotwise
      <4>2. r.op = "destroy" /\ r.object = x
        BY <4>1
      <4>3. QED BY <1>1, <4>1, <4>2, Slotwise DEF ObjectOps
    <3>3. CASE k # h
      BY <1>1, <3>1, <3>3
    <3>4. QED BY <3>2, <3>3
  <2>4. QED BY <2>1, <2>2, <2>3 DEF OInv, UploadsNeverOrphaned
<1>11. QED BY <1>5, <1>6, <1>7, <1>8, <1>9, <1>10 DEF OInv

(* The steps of OtherStep, action by action.                               *)
Aside(h, r) ==
  /\ Becomes(h, r)
  /\ r.op \notin ObjectOps
  /\ r.op \in OldOps => HasRow(r.asset) /\ r.old = asset[r.asset].publicId
  /\ SameObjects /\ remote' = remote
  /\ "reply lost" \in faults' <=> "reply lost" \in faults
  /\ faults' = {} => faults = {} /\ req[h].op \notin {"create", "destroy"}

LEMMA AsideStep ==
  ASSUME GInv, OInv, NEW h \in Slots, \E r \in MediaReq : Aside(h, r)
  PROVE  OInv'
<1>1. PICK r \in MediaReq : Aside(h, r)
  OBVIOUS
<1>2. QED BY <1>1, OtherStep DEF Aside

LEMMA TablesStay ==
  ASSUME asset' = asset
  PROVE  SameObjects
  BY DEF SameObjects, HasObject, HasRow

LEMMA MediaFindsAside ==
  ASSUME GInv, req' \in [Slots -> MediaReq], NEW h \in Slots,
         \/ \E x \in Hashes : UploadFind(h, x)
         \/ \E a \in Assets : \/ \E x \in Hashes : ReplaceFind(h, a, x)
                              \/ RemoveFind(h, a) \/ RestoreFind(h, a)
                              \/ PermanentDeleteFind(h, a)
         \/ \E ids \in SUBSET Assets : BulkDeleteFind(h, ids) \/ HeroCheck(h, ids)
  PROVE  \E r \in MediaReq : Aside(h, r)
<1>1. PICK r \in MediaReq : r = req'[h]
  OBVIOUS
<1>2. req \in [Slots -> MediaReq]
  BY DEF GInv, TypeOK
<1>3. NoAsset.deletedAt = "no row"
  BY DEF NoAsset
<1>4. /\ Becomes(h, r) /\ r.op \notin ObjectOps /\ req[h] = Idle
      /\ r.op \in OldOps => HasRow(r.asset) /\ r.old = asset[r.asset].publicId
      /\ faults' = faults
  <2>1. CASE \E x \in Hashes : UploadFind(h, x)
    BY <1>1, <1>2, <2>1 DEF UploadFind, Begin, Becomes, ObjectOps, OldOps
  <2>2. CASE \E a \in Assets, x \in Hashes : ReplaceFind(h, a, x)
    <3>1. PICK a \in Assets, x \in Hashes : ReplaceFind(h, a, x)
      BY <2>2
    <3>2. HasRow(a)
      BY <1>3, <3>1 DEF ReplaceFind, Live, HasRow
    <3>3. /\ r.op = "replace" /\ r.asset = a /\ r.old = asset[a].publicId
          /\ Becomes(h, r) /\ req[h] = Idle /\ faults' = faults
      BY <1>1, <1>2, <3>1 DEF ReplaceFind, Begin, Becomes
    <3>4. QED BY <3>2, <3>3 DEF ObjectOps
  <2>3. CASE \E a \in Assets : RemoveFind(h, a) \/ RestoreFind(h, a)
    BY <1>1, <1>2, <2>3
       DEF RemoveFind, RestoreFind, Begin, Becomes, ObjectOps, OldOps
  <2>4. CASE \E a \in Assets : PermanentDeleteFind(h, a)
    <3>1. PICK a \in Assets : PermanentDeleteFind(h, a)
      BY <2>4
    <3>2. HasRow(a)
      BY <1>3, <3>1 DEF PermanentDeleteFind, Trashed, HasRow
    <3>3. /\ r.op = "purge" /\ r.asset = a /\ r.old = asset[a].publicId
          /\ Becomes(h, r) /\ req[h] = Idle /\ faults' = faults
      BY <1>1, <1>2, <3>1 DEF PermanentDeleteFind, Begin, Becomes
    <3>4. QED BY <3>2, <3>3 DEF ObjectOps
  <2>5. CASE \E ids \in SUBSET Assets : BulkDeleteFind(h, ids) \/ HeroCheck(h, ids)
    BY <1>1, <1>2, <2>5
       DEF BulkDeleteFind, HeroCheck, Begin, Becomes, ObjectOps, OldOps
  <2>6. QED BY <2>1, <2>2, <2>3, <2>4, <2>5
<1>5. SameObjects /\ remote' = remote
  BY TablesStay DEF UploadFind, ReplaceFind, RemoveFind, RestoreFind,
     PermanentDeleteFind, BulkDeleteFind, HeroCheck, tables
<1>6. QED BY <1>4, <1>5 DEF Aside, Idle

LEMMA GalleryFindsAside ==
  ASSUME GInv, req' \in [Slots -> MediaReq], NEW h \in Slots,
         \/ \E t \in Talents : TalentRemove(h, t) \/ ReorderMediaFind(h, t)
         \/ \E t \in Talents, a \in Assets : AddMediaFind(h, t, a)
         \/ \E m \in MediaIds : RemoveMediaFind(h, m) \/ SetPrimaryFind(h, m)
  PROVE  \E r \in MediaReq : Aside(h, r)
<1>1. PICK r \in MediaReq : r = req'[h]
  OBVIOUS
<1>2. req \in [Slots -> MediaReq]
  BY DEF GInv, TypeOK
<1>3. /\ Becomes(h, r) /\ r.op \notin ObjectOps \cup OldOps /\ req[h] = Idle
      /\ faults' = faults
  <2>1. CASE \E t \in Talents : TalentRemove(h, t)
    BY <1>1, <1>2, <2>1 DEF TalentRemove, Begin, Becomes, ObjectOps, OldOps, Idle
  <2>2. CASE \E t \in Talents : ReorderMediaFind(h, t)
    <3>1. PICK t \in Talents : ReorderMediaFind(h, t)
      BY <2>2
    <3>2. PICK order \in Orders(GalleryOf(t)) :
            Begin(h, "gallery", [op |-> "reorder", order |-> order])
      BY <3>1 DEF ReorderMediaFind
    <3>3. QED BY <1>1, <1>2, <3>2 DEF Begin, Becomes, ObjectOps, OldOps
  <2>3. CASE \E t \in Talents, a \in Assets : AddMediaFind(h, t, a)
    BY <1>1, <1>2, <2>3 DEF AddMediaFind, Begin, Becomes, ObjectOps, OldOps
  <2>4. CASE \E m \in MediaIds : RemoveMediaFind(h, m)
    BY <1>1, <1>2, <2>4 DEF RemoveMediaFind, Begin, Becomes, ObjectOps, OldOps
  <2>5. CASE \E m \in MediaIds : SetPrimaryFind(h, m)
    BY <1>1, <1>2, <2>5 DEF SetPrimaryFind, Begin, Becomes, ObjectOps, OldOps
  <2>6. QED BY <2>1, <2>2, <2>3, <2>4, <2>5
<1>4. SameObjects /\ remote' = remote
  BY TablesStay DEF TalentRemove, ReorderMediaFind, AddMediaFind,
     RemoveMediaFind, SetPrimaryFind, tables
<1>5. QED BY <1>3, <1>4 DEF Aside, Idle

(* The requests of galleries and of the home page, which never touch rows  *)
(* of media_assets.                                                        *)
LEMMA GallerySteps ==
  ASSUME GInv, req' \in [Slots -> MediaReq], NEW h \in Slots,
         \/ AddMediaCount(h) \/ AddMediaDemote(h) \/ AddMediaCommit(h)
         \/ AddMediaRefused(h) \/ RemoveMediaCommit(h) \/ SetPrimaryDemote(h)
         \/ SetPrimaryCommit(h) \/ MediaRowGone(h) \/ ReorderMediaCommit(h)
         \/ HeroDelete(h)
  PROVE  \E r \in MediaReq : Aside(h, r)
<1>1. PICK r \in MediaReq : r = req'[h]
  OBVIOUS
<1>2. req \in [Slots -> MediaReq]
  BY DEF GInv, TypeOK
<1>3. /\ Becomes(h, r) /\ r.op \notin ObjectOps \cup OldOps
      /\ req[h].op \notin {"create", "destroy"} /\ faults' = faults
      /\ asset' = asset /\ remote' = remote
  <2>1. CASE AddMediaCount(h)
    BY <1>1, <1>2, <2>1 DEF AddMediaCount, Proceed, Becomes, ObjectOps, OldOps, tables
  <2>2. CASE AddMediaDemote(h)
    BY <1>1, <1>2, <2>2 DEF AddMediaDemote, Proceed, Becomes, ObjectOps, OldOps, tables
  <2>3. CASE SetPrimaryDemote(h) \/ HeroDelete(h)
    BY <1>1, <1>2, <2>3
       DEF SetPrimaryDemote, HeroDelete, Proceed, Becomes, ObjectOps, OldOps, tables
  <2>4. CASE \/ AddMediaCommit(h) \/ AddMediaRefused(h) \/ RemoveMediaCommit(h)
             \/ SetPrimaryCommit(h) \/ MediaRowGone(h) \/ ReorderMediaCommit(h)
    <3>1. Finish(h) /\ req[h].op \notin {"create", "destroy"}
      BY <2>4 DEF AddMediaCommit, AddMediaRefused, RemoveMediaCommit,
         SetPrimaryCommit, MediaRowGone, ReorderMediaCommit
    <3>2. asset' = asset /\ remote' = remote
      BY <2>4 DEF AddMediaCommit, AddMediaRefused, RemoveMediaCommit,
         SetPrimaryCommit, MediaRowGone, ReorderMediaCommit, tables
    <3>3. QED BY <1>1, <1>2, <3>1, <3>2
          DEF Finish, Proceed, Becomes, ObjectOps, OldOps, Idle
  <2>5. QED BY <2>1, <2>2, <2>3, <2>4
<1>4. QED BY <1>3, TablesStay DEF Aside

(* The commit of a save of the home page, which may change other saves.    *)
LEMMA HeroCommitAside ==
  ASSUME GInv, OInv, NEW h \in Slots, HeroCommit(h)
  PROVE  OInv'
<1>1. asset' = asset /\ remote' = remote /\ faults' = faults
  BY HeroEnds DEF HeroCommit
<1>2. ASSUME NEW k \in Slots
      PROVE  \/ req'[k] = req[k]
             \/ /\ req[k].op \notin ObjectOps \cup OldOps
                /\ req'[k].op \notin ObjectOps \cup OldOps
  <2>1. CASE k = h
    <3>1. req[h].op = "save" /\ req'[h].op = "idle"
      BY HeroEnds DEF HeroCommit, Idle
    <3>2. QED BY <2>1, <3>1 DEF ObjectOps, OldOps
  <2>2. CASE k # h
    BY <2>2, HeroEnds DEF ObjectOps, OldOps
  <2>3. QED BY <2>1, <2>2
<1>3. \A k \in Slots, o \in Objects :
        Holds(req'[k], "object", o) <=> Holds(req[k], "object", o)
  <2>1. \A k \in Slots : Typing(req[k]) /\ Typing(req'[k])
    BY HeroEnds, ObjectFields, TypeParts DEF GInv
  <2>2. QED BY <1>2, <2>1 DEF Typing
<1>4. ObjectsFresh'
  BY <1>1, <1>2 DEF OInv, ObjectsFresh, HasObject, HasRow, ObjectOps, OldOps
<1>5. OldsKnown'
  BY <1>1, <1>2 DEF OInv, OldsKnown, HasObject, HasRow
<1>6. DestroyedUnused'
  BY <1>1, <1>2 DEF OInv, DestroyedUnused, HasObject, HasRow, ObjectOps
<1>7. UniqueObjects' /\ NoBrokenImage'
  BY <1>1 DEF OInv, UniqueObjects, NoBrokenImage, HasObject, HasRow
<1>8. UploadsNeverOrphaned'
  BY <1>1, <1>3 DEF OInv, UploadsNeverOrphaned, HasObject, HasRow, Holds, Fields
<1>9. QED BY <1>4, <1>5, <1>6, <1>7, <1>8 DEF OInv

(* The steps that move rows of media_assets and leave their images alone,  *)
(* and those that end a request: refused, or cut short.                    *)
LEMMA RowSteps ==
  ASSUME GInv, req' \in [Slots -> MediaReq], NEW h \in Slots,
         CountUsage(h) \/ TrashUpdate(h) \/ RestoreUpdate(h) \/ Abort(h)
  PROVE  \E r \in MediaReq : Aside(h, r)
<1>1. PICK r \in MediaReq : r = req'[h]
  OBVIOUS
<1>2. req \in [Slots -> MediaReq] /\ asset \in [Assets -> {NoAsset} \cup AssetRow]
  BY DEF GInv, TypeOK
<1>3. CASE CountUsage(h)
  <2>1. /\ asset' = asset /\ remote' = remote /\ req[h].op = "count"
        /\ Finish(h) \/ \E a \in SUBSET req[h].assets :
                          Proceed(h, [op |-> "trash", assets |-> a])
    BY <1>3 DEF CountUsage, tables
  <2>2. Becomes(h, r) /\ faults' = faults /\ r.op \in {"idle", "trash"}
    BY <1>1, <1>2, <2>1 DEF Finish, Proceed, Becomes, Idle
  <2>3. QED BY <2>1, <2>2, TablesStay DEF Aside, ObjectOps, OldOps
<1>4. \A a \in Assets : HasRow(a) =>
        \A d \in {"null", "set"} : LET new == [asset[a] EXCEPT !.deletedAt = d] IN
          new # NoAsset /\ new.publicId = asset[a].publicId
  <2> SUFFICES ASSUME NEW row \in AssetRow, NEW d \in {"null", "set"}
               PROVE  LET new == [row EXCEPT !.deletedAt = d] IN
                      new \in AssetRow /\ new.publicId = row.publicId
    BY <1>2, AssetRows DEF HasRow
  <2> QED BY DEF AssetRow
<1>5. CASE TrashUpdate(h)
  <2>1. Becomes(h, r) /\ r = Idle /\ req[h].op = "trash" /\ faults' = faults
        /\ remote' = remote
    BY <1>1, <1>2, <1>5 DEF TrashUpdate, Finish, Proceed, Becomes
  <2>2. SameObjects
    BY <1>4, <1>5 DEF TrashUpdate, SameObjects, HasObject, HasRow
  <2>3. QED BY <2>1, <2>2 DEF Aside, ObjectOps, OldOps, Idle
<1>6. CASE RestoreUpdate(h)
  <2>1. Becomes(h, r) /\ r = Idle /\ req[h].op = "restore" /\ faults' = faults
        /\ remote' = remote
    BY <1>1, <1>2, <1>6 DEF RestoreUpdate, Finish, Proceed, Becomes
  <2>2. SameObjects
    <3>1. req[h].asset \in Assets
      BY <1>2, <2>1, Requests
    <3>2. QED BY <1>2, <1>4, <1>6, <3>1
          DEF RestoreUpdate, SameObjects, HasObject, HasRow
  <2>3. QED BY <2>1, <2>2 DEF Aside, ObjectOps, OldOps, Idle
<1>7. CASE Abort(h)
  <2>1. Becomes(h, r) /\ r = Idle /\ faults' = faults \cup {"stop"}
        /\ remote' = remote /\ asset' = asset
    BY <1>1, <1>2, <1>7 DEF Abort, Becomes, tables
  <2>2. QED BY <2>1, TablesStay DEF Aside, ObjectOps, OldOps, Idle
<1>8. QED BY <1>3, <1>5, <1>6, <1>7

LEMMA StoreSteps ==
  ASSUME GInv, OInv, req' \in [Slots -> MediaReq], NEW h \in Slots,
         UploadRemote(h) \/ ReplaceRemote(h)
  PROVE  OInv'
<1>1. PICK r \in MediaReq : r = req'[h]
  OBVIOUS
<1>2. /\ req \in [Slots -> MediaReq]
      /\ remote \in [Objects -> {"absent", "upload", "replace"}]
  BY DEF GInv, TypeOK
<1>3. PICK x \in Objects :
        /\ FreshObject(x)
        /\ \/ /\ req[h].op = "upload" /\ remote' = [remote EXCEPT ![x] = "upload"]
              /\ Proceed(h, [op |-> "create", hash |-> req[h].hash, object |-> x])
           \/ /\ req[h].op = "replace" /\ remote' = [remote EXCEPT ![x] = "replace"]
              /\ Proceed(h, [op |-> "repoint", asset |-> req[h].asset,
                             hash |-> req[h].hash, old |-> req[h].old, object |-> x])
  BY DEF UploadRemote, ReplaceRemote
<1>4. /\ Becomes(h, r) /\ r.op \in {"create", "repoint"} /\ r.object = x
      /\ r.op = "repoint" => /\ req[h].op = "replace"
                             /\ r.asset = req[h].asset /\ r.old = req[h].old
      /\ req[h].op \in {"upload", "replace"} /\ faults' = faults
      /\ \A o \in Objects :
           remote'[o] = IF o # x THEN remote[o]
                        ELSE IF r.op = "create" THEN "upload" ELSE "replace"
  BY <1>1, <1>2, <1>3 DEF Proceed, Becomes
<1>5. /\ \A a \in Assets : ~ HasObject(a, x)
      /\ \A k \in Slots : ~ Holds(req[k], "object", x) /\ ~ Holds(req[k], "old", x)
  BY <1>3 DEF FreshObject
<1>6. asset' = asset
  BY DEF UploadRemote, ReplaceRemote, tables
<1>7. /\ req[h].op \notin ObjectOps
      /\ r.op = "repoint" => req[h].op \in OldOps
  BY <1>4 DEF ObjectOps, OldOps
<1>8. QED BY <1>4, <1>5, <1>6, <1>7, StoreStep

LEMMA NewImageRow ==
  ASSUME NEW o \in Objects, NEW y \in Hashes
  PROVE  LET new == [deletedAt |-> "null", publicId |-> o, contentHash |-> y] IN
         new # NoAsset /\ new.publicId = o
  BY NewRow, AssetRows

LEMMA CreateSteps ==
  ASSUME GInv, OInv, req' \in [Slots -> MediaReq], NEW h \in Slots,
         UploadCreate(h) \/ UploadReplyLost(h)
  PROVE  OInv'
<1>1. PICK r \in MediaReq : r = req'[h]
  OBVIOUS
<1>2. req \in [Slots -> MediaReq] /\ asset \in [Assets -> {NoAsset} \cup AssetRow]
  BY DEF GInv, TypeOK
<1>3. req[h].op = "create" /\ remote' = remote
  BY DEF UploadCreate, UploadReplyLost
<1>4. PICK q \in [op : {"create"}, hash : Hashes, object : Objects] : q = req[h]
  BY <1>2, <1>3, Requests
<1>5. CASE \E a \in Assets : HasHash(a, req[h].hash)
  <2>1. Proceed(h, [op |-> "destroy", object |-> q.object]) /\ asset' = asset
    BY <1>4, <1>5 DEF UploadCreate, UploadReplyLost
  <2>2. /\ Becomes(h, r) /\ r.op = "destroy" /\ r.object = q.object
        /\ faults' = faults
    BY <1>1, <1>2, <2>1 DEF Proceed, Becomes
  <2>3. QED BY <1>3, <1>4, <2>1, <2>2, DiscardStep
<1>6. CASE ~ \E a \in Assets : HasHash(a, req[h].hash)
  <2>1. PICK b \in Assets :
          /\ FreshAsset(b)
          /\ asset' = [asset EXCEPT ![b] =
               [deletedAt |-> "null", publicId |-> q.object, contentHash |-> q.hash]]
    BY <1>4, <1>6 DEF UploadCreate, UploadReplyLost
  <2>2. /\ Becomes(h, r)
        /\ \/ r.op = "idle" /\ faults' = faults
           \/ r.op = "destroy" /\ r.object = q.object /\ "reply lost" \in faults'
    <3>1. CASE UploadCreate(h)
      <4>1. Finish(h)
        BY <1>6, <3>1 DEF UploadCreate
      <4>2. QED BY <1>1, <1>2, <4>1 DEF Finish, Proceed, Becomes, Idle
    <3>2. CASE UploadReplyLost(h)
      BY <1>1, <1>2, <1>4, <3>2 DEF UploadReplyLost, Becomes
    <3>3. QED BY <3>1, <3>2
  <2>3. Inserts(h, r, b)
    BY <1>3, <1>4, <2>1, <2>2 DEF Inserts, FreshAsset
  <2>4. PointsTo(b, q.object)
    <3>1. PICK row \in AssetRow :
            row = [deletedAt |-> "null", publicId |-> q.object,
                   contentHash |-> q.hash] /\ row # NoAsset
                   /\ row.publicId = q.object
      <4>1. q.object \in Objects /\ q.hash \in Hashes
        OBVIOUS
      <4>2. [deletedAt |-> "null", publicId |-> q.object, contentHash |-> q.hash]
              \in AssetRow
        BY <4>1, NewRow
      <4>3. QED BY <4>1, <4>2, NewImageRow
    <3>2. \A a \in Assets : asset'[a] = IF a = b THEN row ELSE asset[a]
      BY <1>2, <2>1, <3>1
    <3>3. SUFFICES ASSUME NEW a \in Assets, NEW o \in Objects
                   PROVE  (asset'[a] # NoAsset /\ asset'[a].publicId = o)
                            <=> (a = b /\ o = q.object) \/ (a # b /\ HasObject(a, o))
      BY DEF PointsTo
    <3>4. CASE a = b
      BY <3>1, <3>2, <3>4
    <3>5. CASE a # b
      BY <3>2, <3>5 DEF HasObject, HasRow
    <3>6. QED BY <3>4, <3>5
  <2>5. QED BY <1>3, <1>4, <2>2, <2>3, <2>4, AttachStep
<1>7. QED BY <1>5, <1>6

LEMMA ReplaceUpdateKeeps ==
  ASSUME GInv, OInv, req' \in [Slots -> MediaReq], NEW h \in Slots, ReplaceUpdate(h)
  PROVE  OInv'
<1>1. PICK r \in MediaReq : r = req'[h]
  OBVIOUS
<1>2. req \in [Slots -> MediaReq] /\ asset \in [Assets -> {NoAsset} \cup AssetRow]
  BY DEF GInv, TypeOK
<1>3. req[h].op = "repoint" /\ remote' = remote
  BY DEF ReplaceUpdate
<1>4. PICK q \in [op : {"repoint"}, asset : Assets, hash : Hashes,
                  old : Objects \cup {None}, object : Objects] : q = req[h]
  BY <1>2, <1>3, Requests
<1>5. CASE /\ HasRow(q.asset)
           /\ \A b \in Assets \ {q.asset} : ~ HasHash(b, q.hash)
  <2>1. /\ asset' = [asset EXCEPT ![q.asset] =
                      [@ EXCEPT !.publicId = q.object, !.contentHash = q.hash]]
        /\ q.old # None => Proceed(h, [op |-> "destroy", object |-> q.old])
        /\ q.old = None => Finish(h)
    BY <1>4, <1>5 DEF ReplaceUpdate
  <2>2. /\ Becomes(h, r) /\ faults' = faults
        /\ q.old = None => r.op = "idle"
        /\ q.old # None => r.op = "destroy" /\ r.object = q.old
    BY <1>1, <1>2, <2>1 DEF Finish, Proceed, Becomes, Idle
  <2>3. Repoints(h, r, q.asset)
    BY <1>3, <1>4, <2>2 DEF Repoints
  <2>4. PointsTo(q.asset, q.object)
    <3>1. PICK row \in AssetRow : row = asset[q.asset]
      BY <1>2, <1>4, <1>5 DEF HasRow
    <3>2. PICK new \in AssetRow :
            /\ new = [row EXCEPT !.publicId = q.object, !.contentHash = q.hash]
            /\ new.publicId = q.object
      <4>1. q.object \in Objects /\ q.hash \in Hashes
        BY <1>4
      <4>2. [row EXCEPT !.publicId = q.object, !.contentHash = q.hash] \in AssetRow
        BY <4>1 DEF AssetRow
      <4>3. [row EXCEPT !.publicId = q.object, !.contentHash = q.hash].publicId
              = q.object
        BY DEF AssetRow
      <4>4. QED BY <4>2, <4>3
    <3>3. \A a \in Assets : asset'[a] = IF a = q.asset THEN new ELSE asset[a]
      BY <1>2, <2>1, <3>1, <3>2
    <3>4. new # NoAsset
      BY AssetRows
    <3>5. QED BY <3>2, <3>3, <3>4 DEF PointsTo, HasObject, HasRow
  <2>5. QED BY <1>3, <1>4, <2>2, <2>3, <2>4, AttachStep
<1>6. CASE ~ (/\ HasRow(q.asset)
              /\ \A b \in Assets \ {q.asset} : ~ HasHash(b, q.hash))
  <2>1. Finish(h) /\ asset' = asset
    BY <1>4, <1>6 DEF ReplaceUpdate
  <2>2. Aside(h, r)
    BY <1>1, <1>2, <1>3, <2>1, TablesStay
       DEF Finish, Proceed, Becomes, Aside, ObjectOps, OldOps, Idle
  <2>3. QED BY <2>2, AsideStep
<1>7. QED BY <1>5, <1>6

LEMMA PermanentDeleteKeeps ==
  ASSUME GInv, OInv, req' \in [Slots -> MediaReq], NEW h \in Slots,
         PermanentDelete(h)
  PROVE  OInv'
<1>1. PICK r \in MediaReq : r = req'[h]
  OBVIOUS
<1>2. req \in [Slots -> MediaReq] /\ asset \in [Assets -> {NoAsset} \cup AssetRow]
  BY DEF GInv, TypeOK
<1>3. req[h].op = "purge" /\ remote' = remote
  BY DEF PermanentDelete
<1>4. PICK q \in [op : {"purge"}, asset : Assets, old : Objects \cup {None}] :
        q = req[h]
  BY <1>2, <1>3, Requests
<1>5. CASE Finish(h) /\ UNCHANGED <<asset, usages>>
  <2>1. Aside(h, r)
    BY <1>1, <1>2, <1>3, <1>5, TablesStay
       DEF Finish, Proceed, Becomes, Aside, ObjectOps, OldOps, Idle
  <2>2. QED BY <2>1, AsideStep
<1>6. CASE /\ asset' = [asset EXCEPT ![q.asset] = NoAsset]
           /\ q.old # None => Proceed(h, [op |-> "destroy", object |-> q.old])
           /\ q.old = None => Finish(h)
  <2>1. /\ Becomes(h, r) /\ faults' = faults
        /\ q.old = None => r.op = "idle"
        /\ q.old # None => r.op = "destroy" /\ r.object = q.old
    BY <1>1, <1>2, <1>6 DEF Finish, Proceed, Becomes, Idle
  <2>2. Purges(h, r, q.asset)
    BY <1>3, <1>4, <2>1 DEF Purges
  <2>3. Empties(q.asset)
    BY <1>2, <1>6 DEF Empties, HasObject, HasRow
  <2>4. QED BY <1>3, <1>4, <2>1, <2>2, <2>3, PurgeStep
<1>7. QED BY <1>4, <1>5, <1>6 DEF PermanentDelete

LEMMA DestroyKeeps ==
  ASSUME GInv, OInv, req' \in [Slots -> MediaReq], NEW h \in Slots, DestroyObject(h)
  PROVE  OInv'
<1>1. PICK r \in MediaReq : r = req'[h]
  OBVIOUS
<1>2. /\ req \in [Slots -> MediaReq]
      /\ remote \in [Objects -> {"absent", "upload", "replace"}]
  BY DEF GInv, TypeOK
<1>3. PICK x \in Objects : req[h].op = "destroy" /\ x = req[h].object
  BY <1>2, Requests DEF DestroyObject
<1>4. /\ Becomes(h, r) /\ r.op = "idle" /\ faults' = faults
      /\ \A o \in Objects : remote'[o] = IF o = x THEN "absent" ELSE remote[o]
  BY <1>1, <1>2, <1>3 DEF DestroyObject, Finish, Proceed, Becomes, Idle
<1>5. asset' = asset
  BY DEF DestroyObject, tables
<1>6. QED BY <1>3, <1>4, <1>5, DiscardStep

LEMMA OInit == Init => OInv
<1> SUFFICES ASSUME Init PROVE OInv
  OBVIOUS
<1>1. ObjectsFresh /\ OldsKnown /\ DestroyedUnused
  BY DEF Init, ObjectsFresh, OldsKnown, DestroyedUnused, OldOps, Idle
<1>2. UniqueObjects
  BY NoneAssumption DEF Init, QuietLibrary, UniqueObjects, HasObject, HasRow
<1>3. NoBrokenImage /\ UploadsNeverOrphaned
  BY DEF Init, NoBrokenImage, UploadsNeverOrphaned
<1>4. QED BY <1>1, <1>2, <1>3 DEF OInv

LEMMA OStep ==
  ASSUME GInv, OInv, [Next]_mediaVars
  PROVE  OInv'
<1>1. GInv'
  BY GStep
<1>2. req' \in [Slots -> MediaReq]
  BY <1>1 DEF GInv, TypeOK
<1>3. CASE MediaNext
  <2>1. PICK h \in Slots :
          \/ \E x \in Hashes : UploadFind(h, x)
          \/ UploadRemote(h) \/ UploadCreate(h) \/ UploadReplyLost(h)
          \/ DestroyObject(h)
          \/ \E a \in Assets, x \in Hashes : ReplaceFind(h, a, x)
          \/ ReplaceRemote(h) \/ ReplaceUpdate(h)
          \/ \E a \in Assets : RemoveFind(h, a)
          \/ \E ids \in SUBSET Assets : BulkDeleteFind(h, ids)
          \/ CountUsage(h) \/ TrashUpdate(h)
          \/ \E a \in Assets : RestoreFind(h, a)
          \/ RestoreUpdate(h)
          \/ \E a \in Assets : PermanentDeleteFind(h, a)
          \/ PermanentDelete(h)
    BY <1>3 DEF MediaNext
  <2>2. CASE UploadRemote(h) \/ ReplaceRemote(h)
    BY <1>2, <2>2, StoreSteps
  <2>3. CASE UploadCreate(h) \/ UploadReplyLost(h)
    BY <1>2, <2>3, CreateSteps
  <2>4. CASE DestroyObject(h) \/ ReplaceUpdate(h) \/ PermanentDelete(h)
    BY <1>2, <2>4, DestroyKeeps, ReplaceUpdateKeeps, PermanentDeleteKeeps
  <2>5. CASE CountUsage(h) \/ TrashUpdate(h) \/ RestoreUpdate(h)
    BY <1>2, <2>5, RowSteps, AsideStep
  <2>6. CASE \/ \E x \in Hashes : UploadFind(h, x)
             \/ \E a \in Assets : \/ \E x \in Hashes : ReplaceFind(h, a, x)
                                  \/ RemoveFind(h, a) \/ RestoreFind(h, a)
                                  \/ PermanentDeleteFind(h, a)
             \/ \E ids \in SUBSET Assets : BulkDeleteFind(h, ids)
    <3>1. \E r \in MediaReq : Aside(h, r)
      BY <1>2, <2>6, MediaFindsAside
    <3>2. QED BY <3>1, AsideStep
  <2>7. QED BY <2>1, <2>2, <2>3, <2>4, <2>5, <2>6
<1>4. CASE GalleryNext
  <2>1. PICK h \in Slots :
          \/ \E t \in Talents : TalentRemove(h, t)
          \/ \E t \in Talents, a \in Assets : AddMediaFind(h, t, a)
          \/ AddMediaCount(h) \/ AddMediaDemote(h) \/ AddMediaCommit(h)
          \/ AddMediaRefused(h)
          \/ \E m \in MediaIds : RemoveMediaFind(h, m) \/ SetPrimaryFind(h, m)
          \/ RemoveMediaCommit(h) \/ SetPrimaryDemote(h) \/ SetPrimaryCommit(h)
          \/ MediaRowGone(h)
          \/ \E t \in Talents : ReorderMediaFind(h, t)
          \/ ReorderMediaCommit(h)
    BY <1>4 DEF GalleryNext
  <2>2. \E r \in MediaReq : Aside(h, r)
    BY <1>2, <2>1, GalleryFindsAside, GallerySteps
  <2>3. QED BY <2>2, AsideStep
<1>5. CASE HeroNext
  <2>1. PICK h \in Slots : \/ \E ids \in SUBSET Assets : HeroCheck(h, ids)
                           \/ HeroDelete(h) \/ HeroCommit(h)
    BY <1>5 DEF HeroNext
  <2>2. CASE HeroCommit(h)
    BY <2>2, HeroCommitAside
  <2>3. CASE HeroDelete(h) \/ \E ids \in SUBSET Assets : HeroCheck(h, ids)
    <3>1. \E r \in MediaReq : Aside(h, r)
      BY <1>2, <2>3, MediaFindsAside, GallerySteps
    <3>2. QED BY <3>1, AsideStep
  <2>4. QED BY <2>1, <2>2, <2>3
<1>6. CASE \E h \in Slots : Abort(h)
  BY <1>2, <1>6, RowSteps, AsideStep
<1>7. CASE UNCHANGED mediaVars
  <2>1. asset' = asset /\ remote' = remote /\ req' = req /\ faults' = faults
    BY <1>7 DEF mediaVars, tables
  <2>2. ObjectsFresh' /\ OldsKnown' /\ DestroyedUnused'
    BY <2>1 DEF OInv, ObjectsFresh, OldsKnown, DestroyedUnused, HasObject, HasRow
  <2>3. UniqueObjects' /\ NoBrokenImage' /\ UploadsNeverOrphaned'
    BY <2>1 DEF OInv, UniqueObjects, NoBrokenImage, UploadsNeverOrphaned,
               HasObject, HasRow, Holds, Fields
  <2>4. QED BY <2>2, <2>3 DEF OInv
<1>8. QED BY <1>3, <1>4, <1>5, <1>6, <1>7 DEF Next

(* The second layer: rows, requests and what Cloudinary keeps.             *)
THEOREM ImagesInvariance == Spec => [](GInv /\ OInv)
<1>1. Init => GInv /\ OInv
  BY GInit, OInit
<1>2. GInv /\ OInv /\ [Next]_mediaVars => GInv' /\ OInv'
  BY GStep, OStep
<1>3. QED BY <1>1, <1>2, PTL DEF Spec

(* Whatever uploads, replacements and deletions race, and wherever one is  *)
(* cut short, the image of every row is at Cloudinary, unless the reply to *)
(* upload's insert was lost.                                               *)
THEOREM RowsHaveImages == Spec => []NoBrokenImage
<1>1. GInv /\ OInv => NoBrokenImage
  BY DEF OInv
<1>2. QED BY <1>1, ImagesInvariance, PTL

(* While no request is cut short, what an upload stored has a row, or a    *)
(* request that still answers for it.                                      *)
THEOREM UploadsAreKept == Spec => []UploadsNeverOrphaned
<1>1. GInv /\ OInv => UploadsNeverOrphaned
  BY DEF OInv
<1>2. QED BY <1>1, ImagesInvariance, PTL
-----------------------------------------------------------------------------
(***************************************************************************)
(* In sequence: while no two requests have been in flight at once.         *)
(***************************************************************************)
OneAtATime == \A h, k \in Slots : req[h] # Idle /\ req[k] # Idle => h = k

(* What a request that is alone has read and still holds. *)
Current(r) ==
  /\ r.op = "trash" => \A a \in r.assets : ~ Used(a)
  /\ r.op = "purge" => Trashed(r.asset)
  /\ r.op \in {"add", "adding", "insert"} => Live(r.asset)
  /\ r.op \in {"hero", "save"} => \A a \in r.assets : Live(a)
  /\ r.op = "save" => r.old = HeroUsages
  /\ r.op = "insert" => \/ r.isPrimary = TRUE /\ r.locked = GalleryOf(r.talent)
                        \/ r.isPrimary = FALSE /\ r.locked = {}
  /\ r.op = "unlist" /\ InGallery(r.media) =>
       gallery[r.media].isPrimary = r.isPrimary
  /\ r.op = "promote" => r.locked = GalleryOf(r.talent)

AllUsedLive == \A u \in usages : Live(u.asset)
HeroMirrored == HeroUsages = [asset : heroIds, entity : {HERO}]
OnePrimary == \A t \in Talents : \A m, n \in Primaries(t) : m = n

PlacesSound == AllUsedLive /\ HeroMirrored /\ OnePrimary
SequenceSound == OneAtATime /\ PlacesSound /\ \A h \in Slots : Current(req[h])
InSequence == ~ overlapped => SequenceSound

(* With a request in flight in slot h: what it leaves.                     *)
Moves(h, r) ==
  /\ req' = [req EXCEPT ![h] = r]
  /\ \/ req[h] = Idle /\ overlapped' = (overlapped \/ \E k \in Slots : req[k] # Idle)
     \/ req[h] # Idle /\ overlapped' = overlapped

LEMMA BeginMoves ==
  ASSUME NEW h \in Slots, NEW operation, NEW r, Begin(h, operation, r)
  PROVE  Moves(h, r)
  BY DEF Begin, Moves

LEMMA ProceedMoves ==
  ASSUME NEW h \in Slots, NEW r, req[h] # Idle, Proceed(h, r)
  PROVE  Moves(h, r)
  BY DEF Proceed, Moves

LEMMA BusyIsNotIdle == \A r : r.op # "idle" => r # Idle
  BY DEF Idle

LEMMA Alone ==
  ASSUME GInv, InSequence, NEW h \in Slots, NEW r, Moves(h, r), ~ overlapped'
  PROVE  /\ ~ overlapped /\ OneAtATime /\ PlacesSound /\ Current(req[h])
         /\ req'[h] = r
         /\ \A k \in Slots \ {h} : req'[k] = Idle
<1>1. ~ overlapped /\ SequenceSound
  <2>1. ~ overlapped
    BY TypeParts DEF GInv, OthersOK, Moves
  <2>2. QED BY <2>1 DEF InSequence
<1>2. DOMAIN req = Slots
  BY TypeParts DEF GInv
<1>3. \A k \in Slots \ {h} : req[k] = Idle
  <2>1. CASE req[h] = Idle
    <3>1. ~ \E k \in Slots : req[k] # Idle
      BY <2>1, TypeParts DEF GInv, OthersOK, Moves
    <3>2. QED BY <3>1
  <2>2. CASE req[h] # Idle
    BY <1>1, <2>2 DEF SequenceSound, OneAtATime
  <2>3. QED BY <2>1, <2>2
<1>4. req'[h] = r /\ \A k \in Slots \ {h} : req'[k] = req[k]
  BY <1>2 DEF Moves
<1>5. QED BY <1>1, <1>3, <1>4 DEF SequenceSound

(* The operations that hold nothing another request could take from them.  *)
Free ==
  {"idle", "upload", "create", "destroy", "replace", "repoint", "count",
   "restore", "primary", "reorder"}

LEMMA FreeIsCurrent ==
  ASSUME NEW r, r.op \in Free
  PROVE  Current(r) /\ Current(r)'
  BY DEF Free, Current

LEMMA IdleIsCurrent == Current(Idle)'
  BY FreeIsCurrent DEF Idle, Free

LEMMA OneGoesOn ==
  ASSUME NEW h \in Slots, NEW r, req'[h] = r,
         \A k \in Slots \ {h} : req'[k] = Idle,
         Current(r)', PlacesSound'
  PROVE  InSequence'
<1>1. OneAtATime'
  BY DEF OneAtATime
<1>2. ASSUME NEW k \in Slots PROVE Current(req[k])'
  <2>1. CASE k = h
    BY <2>1 DEF Current
  <2>2. CASE k # h
    BY <2>2, IdleIsCurrent DEF Current
  <2>3. QED BY <2>1, <2>2
<1>3. QED BY <1>1, <1>2 DEF InSequence, SequenceSound

(* Only what can happen without overlap matters.                           *)
LEMMA SequenceGoesOn ==
  ASSUME GInv, InSequence, NEW h \in Slots, NEW r, Moves(h, r),
         PlacesSound /\ Current(req[h]) /\ ~ overlapped' =>
           PlacesSound' /\ Current(r)'
  PROVE  InSequence'
<1>1. CASE overlapped'
  BY <1>1 DEF InSequence
<1>2. CASE ~ overlapped'
  BY <1>2, Alone, OneGoesOn
<1>3. QED BY <1>1, <1>2

(***************************************************************************)
(* Steps that only read.                                                   *)
(***************************************************************************)

LEMMA PlacesStay ==
  ASSUME PlacesSound, UNCHANGED tables
  PROVE  PlacesSound'
  BY DEF PlacesSound, AllUsedLive, HeroMirrored, OnePrimary, HeroUsages, Live,
         Primaries, GalleryOf, InGallery, tables

LEMMA CurrentStays ==
  ASSUME NEW r, UNCHANGED tables
  PROVE  Current(r)' <=> Current(r)
  BY DEF Current, Used, Trashed, Live, HeroUsages, GalleryOf, InGallery, tables

(* A request that reads, and goes on with what holds as it reads.          *)
LEMMA ReadInSequence ==
  ASSUME GInv, InSequence, NEW h \in Slots, NEW r, Moves(h, r),
         UNCHANGED tables, Current(req[h]) => Current(r)
  PROVE  InSequence'
  BY PlacesStay, CurrentStays, SequenceGoesOn

LEMMA FindsInSequence ==
  ASSUME GInv, InSequence, NEW h \in Slots,
         \/ \E x \in Hashes : UploadFind(h, x)
         \/ \E a \in Assets, x \in Hashes : ReplaceFind(h, a, x)
         \/ \E a \in Assets : RemoveFind(h, a)
         \/ \E ids \in SUBSET Assets : BulkDeleteFind(h, ids)
         \/ \E a \in Assets : RestoreFind(h, a)
         \/ \E m \in MediaIds : SetPrimaryFind(h, m)
         \/ \E t \in Talents : ReorderMediaFind(h, t)
  PROVE  InSequence'
<1>1. PICK r : (\E operation : Begin(h, operation, r)) /\ r.op \in Free
  <2>1. ASSUME NEW x \in Hashes, UploadFind(h, x)
        PROVE  \E r : (\E operation : Begin(h, operation, r)) /\ r.op \in Free
    <3>1. \/ \E a \in Assets :
                Begin(h, "upload", [op |-> "restore", asset |-> a])
          \/ Begin(h, "upload", [op |-> "upload", hash |-> x])
      BY <2>1 DEF UploadFind
    <3>2. ASSUME NEW a \in Assets,
                 Begin(h, "upload", [op |-> "restore", asset |-> a])
          PROVE  \E r : (\E operation : Begin(h, operation, r)) /\ r.op \in Free
      BY <3>2 DEF Free
    <3>3. CASE Begin(h, "upload", [op |-> "upload", hash |-> x])
      BY <3>3 DEF Free
    <3>4. QED BY <3>1, <3>2, <3>3
  <2>2. CASE \E a \in Assets, x \in Hashes : ReplaceFind(h, a, x)
    BY <2>2 DEF ReplaceFind, Free
  <2>3. CASE \/ \E a \in Assets : RemoveFind(h, a)
             \/ \E ids \in SUBSET Assets : BulkDeleteFind(h, ids)
             \/ \E a \in Assets : RestoreFind(h, a)
    <3>1. CASE \E a \in Assets : RemoveFind(h, a)
      BY <3>1 DEF RemoveFind, Free
    <3>2. CASE \E ids \in SUBSET Assets : BulkDeleteFind(h, ids)
      BY <3>2 DEF BulkDeleteFind, Free
    <3>3. CASE \E a \in Assets : RestoreFind(h, a)
      BY <3>3 DEF RestoreFind, Free
    <3>4. QED BY <2>3, <3>1, <3>2, <3>3
  <2>4. CASE \E m \in MediaIds : SetPrimaryFind(h, m)
    BY <2>4 DEF SetPrimaryFind, Free
  <2>5. CASE \E t \in Talents : ReorderMediaFind(h, t)
    BY <2>5 DEF ReorderMediaFind, Free
  <2>6. QED BY <2>1, <2>2, <2>3, <2>4, <2>5
<1>2. UNCHANGED tables
  BY DEF UploadFind, ReplaceFind, RemoveFind, BulkDeleteFind, RestoreFind,
         SetPrimaryFind, ReorderMediaFind
<1>3. Moves(h, r)
  BY <1>1, BeginMoves
<1>4. QED BY <1>1, <1>2, <1>3, FreeIsCurrent, ReadInSequence

LEMMA ReliantFindsInSequence ==
  ASSUME GInv, InSequence, NEW h \in Slots,
         \/ \E a \in Assets : PermanentDeleteFind(h, a)
         \/ \E t \in Talents, a \in Assets : AddMediaFind(h, t, a)
         \/ \E m \in MediaIds : RemoveMediaFind(h, m)
         \/ \E ids \in SUBSET Assets : HeroCheck(h, ids)
  PROVE  InSequence'
<1>1. PICK r : (\E operation : Begin(h, operation, r)) /\ Current(r)
  <2>1. CASE \E a \in Assets : PermanentDeleteFind(h, a)
    BY <2>1 DEF PermanentDeleteFind, Current
  <2>2. CASE \E t \in Talents, a \in Assets : AddMediaFind(h, t, a)
    BY <2>2 DEF AddMediaFind, Current
  <2>3. ASSUME NEW m \in MediaIds, RemoveMediaFind(h, m)
        PROVE  \E r : (\E operation : Begin(h, operation, r)) /\ Current(r)
    <3>1. PICK top : top = gallery[m].isPrimary
      OBVIOUS
    <3>2. PICK r : r = [op |-> "unlist", media |-> m, asset |-> gallery[m].asset,
                        talent |-> gallery[m].talent, isPrimary |-> top]
      OBVIOUS
    <3>3. Begin(h, "gallery", r)
      BY <2>3, <3>1, <3>2, Zenon DEF RemoveMediaFind
    <3>4. r.op = "unlist" /\ r.media = m
      BY <3>2
    <3>5. r.isPrimary = top
      BY <3>2, Zenon
    <3>6. gallery[r.media].isPrimary = r.isPrimary
      BY <3>1, <3>4, <3>5, Zenon
    <3>7. Current(r)
      BY <3>4, <3>6 DEF Current
    <3>8. QED BY <3>3, <3>7
  <2>4. CASE \E ids \in SUBSET Assets : HeroCheck(h, ids)
    BY <2>4 DEF HeroCheck, Current
  <2>5. QED BY <2>1, <2>2, <2>3, <2>4
<1>2. UNCHANGED tables
  BY DEF PermanentDeleteFind, AddMediaFind, RemoveMediaFind, HeroCheck
<1>3. Moves(h, r)
  BY <1>1, BeginMoves
<1>4. QED BY <1>1, <1>2, <1>3, ReadInSequence

(* Steps of a request that is under way, and at Cloudinary.                *)
LEMMA ReadsInSequence ==
  ASSUME GInv, InSequence, NEW h \in Slots,
         \/ UploadRemote(h) \/ DestroyObject(h) \/ ReplaceRemote(h)
         \/ AddMediaRefused(h) \/ MediaRowGone(h)
  PROVE  InSequence'
<1>1. PICK r : Proceed(h, r) /\ r.op \in Free
  <2>1. CASE UploadRemote(h)
    BY <2>1 DEF UploadRemote, Free
  <2>2. CASE ReplaceRemote(h)
    BY <2>2 DEF ReplaceRemote, Free
  <2>3. CASE DestroyObject(h) \/ AddMediaRefused(h) \/ MediaRowGone(h)
    BY <2>3 DEF DestroyObject, AddMediaRefused, MediaRowGone, Finish, Idle, Free
  <2>4. QED BY <2>1, <2>2, <2>3
<1>2. UNCHANGED tables /\ req[h].op # "idle"
  BY DEF UploadRemote, DestroyObject, ReplaceRemote, AddMediaRefused, MediaRowGone
<1>3. Moves(h, r)
  BY <1>1, <1>2, BusyIsNotIdle, ProceedMoves
<1>4. QED BY <1>1, <1>2, <1>3, FreeIsCurrent, ReadInSequence

LEMMA AbortInSequence ==
  ASSUME GInv, InSequence, NEW h \in Slots, Abort(h)
  PROVE  InSequence'
<1>1. Moves(h, Idle) /\ UNCHANGED tables
  BY DEF Abort, Moves
<1>2. Current(Idle)
  BY FreeIsCurrent DEF Idle, Free
<1>3. QED BY <1>1, <1>2, ReadInSequence

LEMMA ReliantReadsInSequence ==
  ASSUME GInv, InSequence, NEW h \in Slots,
         \/ CountUsage(h) \/ AddMediaCount(h) \/ AddMediaDemote(h)
         \/ SetPrimaryDemote(h) \/ HeroDelete(h)
  PROVE  InSequence'
<1>1. PICK q \in MediaReq : q = req[h]
  BY RequestAt
<1>2. PICK r : Proceed(h, r) /\ (Current(q) => Current(r))
  <2>1. CASE CountUsage(h)
    <3>1. CASE {a \in q.assets : ~ Used(a)} = {}
      BY <1>1, <2>1, <3>1, FreeIsCurrent DEF CountUsage, Finish, Idle, Free
    <3>2. CASE {a \in q.assets : ~ Used(a)} # {}
      BY <1>1, <2>1, <3>2 DEF CountUsage, Current
    <3>3. QED BY <3>1, <3>2
  <2>2. CASE AddMediaCount(h)
    BY <1>1, <2>2 DEF AddMediaCount, Current
  <2>3. CASE AddMediaDemote(h)
    <3>1. PICK makePrimary \in BOOLEAN :
            Proceed(h, [op |-> "insert", talent |-> q.talent, asset |-> q.asset,
                        existingCount |-> q.existingCount,
                        isPrimary |-> makePrimary,
                        locked |-> IF makePrimary THEN GalleryOf(q.talent)
                                   ELSE {}])
      BY <1>1, <2>3 DEF AddMediaDemote
    <3>2. q.op = "adding"
      BY <1>1, <2>3 DEF AddMediaDemote
    <3>3. PICK r : r = [op |-> "insert", talent |-> q.talent, asset |-> q.asset,
                        existingCount |-> q.existingCount,
                        isPrimary |-> makePrimary,
                        locked |-> IF makePrimary THEN GalleryOf(q.talent)
                                   ELSE {}]
      OBVIOUS
    <3>4. /\ r.op = "insert" /\ r.talent = q.talent /\ r.asset = q.asset
          /\ \/ r.isPrimary = TRUE /\ r.locked = GalleryOf(r.talent)
             \/ r.isPrimary = FALSE /\ r.locked = {}
      <4>1. CASE makePrimary = TRUE
        BY <3>3, <4>1
      <4>2. CASE makePrimary = FALSE
        BY <3>3, <4>2
      <4>3. QED BY <4>1, <4>2
    <3>5. Current(q) => Current(r)
      BY <3>2, <3>4 DEF Current
    <3>6. QED BY <3>1, <3>3, <3>5
  <2>4. CASE SetPrimaryDemote(h)
    BY <1>1, <2>4 DEF SetPrimaryDemote, Current
  <2>5. CASE HeroDelete(h)
    BY <1>1, <2>5 DEF HeroDelete, Current
  <2>6. QED BY <2>1, <2>2, <2>3, <2>4, <2>5
<1>3. UNCHANGED tables /\ req[h].op # "idle"
  BY DEF CountUsage, AddMediaCount, AddMediaDemote, SetPrimaryDemote, HeroDelete
<1>4. Moves(h, r)
  BY <1>2, <1>3, BusyIsNotIdle, ProceedMoves
<1>5. QED BY <1>1, <1>2, <1>3, <1>4, ReadInSequence

(***************************************************************************)
(* Steps that change the library: what is used stays live.                 *)
(***************************************************************************)

LEMMA LiveHasRow == \A a : Live(a) => HasRow(a)
<1>1. NoAsset.deletedAt = "no row"
  BY DEF NoAsset
<1>2. QED BY <1>1 DEF Live, HasRow

LEMMA LiveRow ==
  ASSUME GInv, NEW a \in Assets, Live(a)
  PROVE  asset[a] \in AssetRow
<1>1. asset[a] # NoAsset
  BY LiveHasRow DEF HasRow
<1>2. QED BY <1>1, TypeParts DEF GInv, TablesOK

LEMMA AssetsInSequence ==
  ASSUME GInv, InSequence, NEW h \in Slots, NEW r, Moves(h, r), r.op \in Free,
         UNCHANGED <<usages, gallery, heroIds>>,
         Current(req[h]) => \A a \in Assets : Used(a) /\ Live(a) => Live(a)'
  PROVE  InSequence'
<1>1. \A u \in usages : u.asset \in Assets
  BY TypeParts DEF GInv, TablesOK, Usage
<1>2. ASSUME PlacesSound, Current(req[h]) PROVE PlacesSound'
  <2>1. AllUsedLive'
    BY <1>1, <1>2 DEF PlacesSound, AllUsedLive, Used
  <2>2. HeroMirrored' /\ OnePrimary'
    BY <1>2 DEF PlacesSound, HeroMirrored, HeroUsages, OnePrimary, Primaries,
                GalleryOf, InGallery
  <2>3. QED BY <2>1, <2>2 DEF PlacesSound
<1>3. QED BY <1>2, FreeIsCurrent, SequenceGoesOn

LEMMA UploadCreateInSequence ==
  ASSUME GInv, InSequence, NEW h \in Slots, UploadCreate(h) \/ UploadReplyLost(h)
  PROVE  InSequence'
<1>1. req[h].op = "create"
  BY DEF UploadCreate, UploadReplyLost
<1>2. PICK destroy : destroy = [op |-> "destroy", object |-> req[h].object]
  OBVIOUS
<1>3. /\ Moves(h, Idle) \/ Moves(h, destroy)
      /\ Idle.op \in Free /\ destroy.op \in Free
  <2>1. overlapped' = overlapped
    BY DEF UploadCreate, UploadReplyLost, Proceed, Finish
  <2>2. req' = [req EXCEPT ![h] = Idle] \/ req' = [req EXCEPT ![h] = destroy]
    BY <1>2 DEF UploadCreate, UploadReplyLost, Proceed, Finish
  <2>3. Idle.op \in Free /\ destroy.op \in Free
    BY <1>2 DEF Idle, Free
  <2>4. QED BY <1>1, <2>1, <2>2, <2>3, BusyIsNotIdle DEF Moves
<1>4. UNCHANGED <<usages, gallery, heroIds>>
  BY DEF UploadCreate, UploadReplyLost
<1>5. \/ asset' = asset
      \/ \E a \in Assets : \E row : FreshAsset(a) /\ asset' = [asset EXCEPT ![a] = row]
  BY DEF UploadCreate, UploadReplyLost
<1>6. \A a \in Assets : Live(a) => ~ FreshAsset(a)
  BY LiveHasRow DEF FreshAsset
<1>7. \A a \in Assets : Live(a) => Live(a)'
  <2>1. CASE asset' = asset
    BY <2>1 DEF Live
  <2>2. ASSUME NEW b \in Assets, NEW row, FreshAsset(b),
               asset' = [asset EXCEPT ![b] = row]
        PROVE  \A a \in Assets : Live(a) => Live(a)'
    <3>1. \A a \in Assets \ {b} : asset'[a] = asset[a]
      BY <2>2, TypeParts DEF GInv, TablesOK
    <3>2. QED BY <1>6, <2>2, <3>1 DEF Live
  <2>3. QED BY <1>5, <2>1, <2>2
<1>8. QED BY <1>3, <1>4, <1>7, AssetsInSequence

LEMMA ReplaceUpdateInSequence ==
  ASSUME GInv, InSequence, NEW h \in Slots, ReplaceUpdate(h)
  PROVE  InSequence'
<1>1. PICK q \in MediaReq : q = req[h] /\ q.op = "repoint" /\ q.asset \in Assets
  BY RequestAt, Requests DEF ReplaceUpdate
<1>2. PICK r : Proceed(h, r) /\ r.op \in Free
  <2>1. \/ Proceed(h, [op |-> "destroy", object |-> req[h].old])
        \/ Proceed(h, Idle)
    BY DEF ReplaceUpdate, Finish
  <2>2. CASE Proceed(h, Idle)
    BY <2>2 DEF Idle, Free
  <2>3. CASE Proceed(h, [op |-> "destroy", object |-> req[h].old])
    BY <2>3 DEF Free
  <2>4. QED BY <2>1, <2>2, <2>3
<1>3. Moves(h, r)
  BY <1>1, <1>2, BusyIsNotIdle, ProceedMoves
<1>4. UNCHANGED <<usages, gallery, heroIds>>
  BY DEF ReplaceUpdate
<1>5. ASSUME NEW a \in Assets, Live(a) PROVE Live(a)'
  <2>1. PICK row \in AssetRow : row = asset[a] /\ row.deletedAt = "null"
    BY <1>5, LiveRow DEF Live
  <2>2. PICK new : new = [row EXCEPT !.publicId = q.object, !.contentHash = q.hash]
    OBVIOUS
  <2>3. new.deletedAt = row.deletedAt
    BY <2>1, <2>2 DEF AssetRow
  <2>4. asset'[a] \in {row, new}
    BY <1>1, <2>1, <2>2, TypeParts DEF ReplaceUpdate, GInv, TablesOK
  <2>5. QED BY <2>1, <2>3, <2>4 DEF Live
<1>6. QED BY <1>2, <1>3, <1>4, <1>5, AssetsInSequence

(* Nothing that is used is trashed. *)
LEMMA TrashInSequence ==
  ASSUME GInv, InSequence, NEW h \in Slots, TrashUpdate(h)
  PROVE  InSequence'
<1>1. /\ req[h].op = "trash" /\ Proceed(h, Idle)
      /\ UNCHANGED <<usages, gallery, heroIds>>
      /\ \A a \in Assets \ req[h].assets : asset'[a] = asset[a]
  BY DEF TrashUpdate, Finish
<1>2. Moves(h, Idle) /\ Idle.op \in Free
  BY <1>1, BusyIsNotIdle, ProceedMoves DEF Idle, Free
<1>3. ASSUME Current(req[h]), NEW a \in Assets, Used(a), Live(a) PROVE Live(a)'
  <2>1. a \notin req[h].assets
    BY <1>1, <1>3 DEF Current
  <2>2. QED BY <1>1, <1>3, <2>1 DEF Live
<1>4. QED BY <1>1, <1>2, <1>3, AssetsInSequence

LEMMA RestoreInSequence ==
  ASSUME GInv, InSequence, NEW h \in Slots, RestoreUpdate(h)
  PROVE  InSequence'
<1>1. /\ req[h].op = "restore" /\ Proceed(h, Idle)
      /\ UNCHANGED <<usages, gallery, heroIds>>
  BY DEF RestoreUpdate, Finish
<1>2. Moves(h, Idle) /\ Idle.op \in Free
  BY <1>1, BusyIsNotIdle, ProceedMoves DEF Idle, Free
<1>3. PICK q \in MediaReq : q = req[h] /\ q.op = "restore" /\ q.asset \in Assets
  BY <1>1, RequestAt, Requests
<1>4. ASSUME NEW a \in Assets, Live(a) PROVE Live(a)'
  <2>1. PICK row \in AssetRow : row = asset[a] /\ row.deletedAt = "null"
    BY <1>4, LiveRow DEF Live
  <2>2. PICK new : new = [row EXCEPT !.deletedAt = "null"]
    OBVIOUS
  <2>3. new.deletedAt = "null"
    BY <2>1, <2>2 DEF AssetRow
  <2>4. asset'[a] \in {row, new}
    BY <1>3, <2>1, <2>2, TypeParts DEF RestoreUpdate, GInv, TablesOK
  <2>5. QED BY <2>1, <2>3, <2>4 DEF Live
<1>5. QED BY <1>1, <1>2, <1>4, AssetsInSequence

(* Only what is in Trash goes, and nothing there is used.                  *)
LEMMA PurgeInSequence ==
  ASSUME GInv, InSequence, NEW h \in Slots, PermanentDelete(h)
  PROVE  InSequence'
<1>1. PICK q \in MediaReq : q = req[h] /\ q.op = "purge" /\ q.asset \in Assets
  BY RequestAt, Requests DEF PermanentDelete
<1>2. PICK r : Proceed(h, r) /\ r.op \in Free
  <2>1. \/ Proceed(h, [op |-> "destroy", object |-> req[h].old])
        \/ Proceed(h, Idle)
    BY DEF PermanentDelete, Finish
  <2>2. CASE Proceed(h, Idle)
    BY <2>2 DEF Idle, Free
  <2>3. CASE Proceed(h, [op |-> "destroy", object |-> req[h].old])
    BY <2>3 DEF Free
  <2>4. QED BY <2>1, <2>2, <2>3
<1>3. Moves(h, r)
  BY <1>1, <1>2, BusyIsNotIdle, ProceedMoves
<1>4. /\ UNCHANGED <<gallery, heroIds>>
      /\ \/ UNCHANGED <<asset, usages>>
         \/ /\ asset' = [asset EXCEPT ![q.asset] = NoAsset]
            /\ usages' = {u \in usages : u.asset # q.asset}
  BY <1>1 DEF PermanentDelete
<1>5. ASSUME PlacesSound, Current(req[h]) PROVE PlacesSound'
  <2>1. Trashed(q.asset)
    BY <1>1, <1>5 DEF Current
  <2>2. \A u \in usages : u.asset # q.asset
    BY <1>5, <2>1 DEF PlacesSound, AllUsedLive, Live, Trashed
  <2>3. usages' = usages
    BY <1>4, <2>2
  <2>4. \A u \in usages : asset'[u.asset] = asset[u.asset]
    <3>1. \A u \in usages : u.asset \in Assets
      BY TypeParts DEF GInv, TablesOK, Usage
    <3>2. QED BY <1>4, <2>2, <3>1, TypeParts DEF GInv, TablesOK
  <2>5. AllUsedLive'
    BY <1>5, <2>3, <2>4 DEF PlacesSound, AllUsedLive, Live
  <2>6. HeroMirrored' /\ OnePrimary'
    BY <1>4, <1>5, <2>3 DEF PlacesSound, HeroMirrored, HeroUsages, OnePrimary,
                            Primaries, GalleryOf, InGallery
  <2>7. QED BY <2>5, <2>6 DEF PlacesSound
<1>6. QED BY <1>2, <1>3, <1>5, FreeIsCurrent, SequenceGoesOn

(* The usages of the home page are those the settings now name.            *)
LEMMA HeroInSequence ==
  ASSUME GInv, InSequence, NEW h \in Slots, HeroCommit(h)
  PROVE  InSequence'
<1>1. PICK q \in MediaReq :
        /\ q = req[h] /\ q.op = "save" /\ q.assets \in SUBSET Assets
        /\ UNCHANGED <<asset, gallery>>
  BY RequestAt, GalleryRequests DEF HeroCommit
<1>2. ASSUME ~ overlapped
      PROVE  SequenceSound /\ req'[h] = Idle /\ \A k \in Slots \ {h} : req'[k] = Idle
  <2>1. SequenceSound
    BY <1>2 DEF InSequence
  <2>2. \A k \in Slots \ {h} : req[k] = Idle
    BY <1>1, <2>1, BusyIsNotIdle DEF SequenceSound, OneAtATime
  <2>3. Idle.op # "save"
    BY DEF Idle
  <2>4. QED BY <2>1, <2>2, <2>3, HeroEnds
<1>3. PICK new : new = [asset : q.assets, entity : {HERO}]
  OBVIOUS
<1>4. \A u \in new : u.asset \in q.assets /\ u.entity = HERO
  BY <1>3
<1>5. ASSUME PlacesSound, Current(req[h]) PROVE PlacesSound'
  <2>1. q.old = HeroUsages /\ \A a \in q.assets : Live(a)
    BY <1>1, <1>5 DEF Current
  <2>2. \A u \in usages \ q.old : u.entity # HERO
    BY <2>1 DEF HeroUsages
  <2>3. (usages \ q.old) \cap new = {} /\ \A a \in q.assets : HasRow(a)
    BY <1>4, <2>1, <2>2, LiveHasRow
  <2>4. usages' = (usages \ q.old) \cup new /\ heroIds' = q.assets
    BY <1>1, <1>3, <2>3 DEF HeroCommit
  <2>5. AllUsedLive'
    BY <1>1, <1>4, <1>5, <2>1, <2>4 DEF PlacesSound, AllUsedLive, Live
  <2>6. HeroUsages' = new
    BY <1>4, <2>2, <2>4 DEF HeroUsages
  <2>7. HeroMirrored'
    BY <1>3, <2>4, <2>6 DEF HeroMirrored
  <2>8. OnePrimary'
    BY <1>1, <1>5 DEF PlacesSound, OnePrimary, Primaries, GalleryOf, InGallery
  <2>9. QED BY <2>5, <2>7, <2>8 DEF PlacesSound
<1>6. CASE overlapped
  BY <1>6, HeroEnds DEF InSequence
<1>7. CASE ~ overlapped
  <2>1. PlacesSound'
    BY <1>2, <1>5, <1>7 DEF SequenceSound
  <2>2. QED BY <1>2, <1>7, <2>1, IdleIsCurrent, OneGoesOn
<1>8. QED BY <1>6, <1>7

LEMMA RetireInSequence ==
  ASSUME GInv, InSequence, NEW h \in Slots, NEW t \in Talents, TalentRemove(h, t)
  PROVE  InSequence'
<1>1. Moves(h, Idle) /\ UNCHANGED <<asset, usages, gallery, heroIds>>
  BY BeginMoves DEF TalentRemove
<1>2. Idle.op \in Free
  BY DEF Idle, Free
<1>3. \A a \in Assets : Live(a) => Live(a)'
  BY <1>1 DEF Live
<1>4. QED BY <1>1, <1>2, <1>3, AssetsInSequence

(***************************************************************************)
(* Galleries: which row is primary.                                        *)
(***************************************************************************)

IsTop(row, t) == row # NoMedia /\ row.talent = t /\ row.isPrimary

LEMMA TopsArePrimaries ==
  \A t : /\ Primaries(t) = {m \in MediaIds : IsTop(gallery[m], t)}
         /\ Primaries(t)' = {m \in MediaIds : IsTop(gallery'[m], t)}
  BY DEF Primaries, GalleryOf, InGallery, IsTop

LEMMA TopRow ==
  ASSUME NEW row \in MediaRow
  PROVE  \A t : IsTop(row, t) <=> row.talent = t /\ row.isPrimary = TRUE
<1>1. row # NoMedia /\ row.isPrimary \in BOOLEAN
  BY MediaRows
<1>2. CASE row.isPrimary = TRUE
  BY <1>1, <1>2, Zenon DEF IsTop
<1>3. CASE row.isPrimary = FALSE
  BY <1>1, <1>3, Zenon DEF IsTop
<1>4. QED BY <1>1, <1>2, <1>3

LEMMA LowRow ==
  ASSUME NEW row \in MediaRow, NEW low, low = [row EXCEPT !.isPrimary = FALSE]
  PROVE  \A t : ~ IsTop(low, t)
<1>1. low.isPrimary = FALSE
  BY DEF MediaRow
<1>2. QED BY <1>1, Zenon DEF IsTop

LEMMA HighRow ==
  ASSUME NEW row \in MediaRow, NEW high, high = [row EXCEPT !.isPrimary = TRUE]
  PROVE  \A t : IsTop(high, t) <=> t = row.talent
<1>1. high \in MediaRow /\ high.isPrimary = TRUE /\ high.talent = row.talent
  BY DEF MediaRow
<1>2. QED BY <1>1, TopRow

LEMMA MovedRows ==
  ASSUME NEW row \in MediaRow, NEW n
  PROVE  \A t : IsTop([row EXCEPT !.displayOrder = n], t) <=> IsTop(row, t)
<1>1. PICK new : new = [row EXCEPT !.displayOrder = n]
  OBVIOUS
<1>2. new.talent = row.talent /\ new # NoMedia /\ row # NoMedia
  <2>1. new.talent = row.talent
    BY <1>1 DEF MediaRow
  <2>2. row # NoMedia
    BY MediaRows
  <2>3. "asset" \in DOMAIN new /\ "asset" \notin DOMAIN NoMedia
    BY <1>1 DEF MediaRow, NoMedia
  <2>4. QED BY <2>1, <2>2, <2>3
<1>3. new.isPrimary = row.isPrimary
  BY <1>1, Zenon DEF MediaRow
<1>4. \A t : IsTop(new, t) <=> IsTop(row, t)
  BY <1>2, <1>3, Zenon DEF IsTop
<1>5. QED BY <1>1, <1>4

LEMMA DemotedRows ==
  ASSUME GInv, NEW rows \in SUBSET MediaIds, \A m \in rows : InGallery(m),
         NEW m \in MediaIds
  PROVE  /\ m \in rows => \A t : ~ IsTop(Demoted(rows)[m], t)
         /\ m \notin rows => Demoted(rows)[m] = gallery[m]
<1>1. CASE m \in rows
  <2>1. PICK row \in MediaRow : row = gallery[m]
    BY <1>1, TypeParts DEF GInv, TablesOK, InGallery
  <2>2. PICK low : low = [row EXCEPT !.isPrimary = FALSE]
    OBVIOUS
  <2>3. Demoted(rows)[m] = low
    BY <1>1, <2>1, <2>2 DEF Demoted
  <2>4. QED BY <1>1, <2>2, <2>3, LowRow
<1>2. CASE m \notin rows
  BY <1>2 DEF Demoted
<1>3. QED BY <1>1, <1>2

(* What a step makes of the primaries of each gallery.                     *)
PrimariesFollow ==
  \A t \in Talents : \/ Primaries(t)' = Primaries(t)
                     \/ \E m : Primaries(t)' = {m}
                     \/ GalleryOf(t)' = {}

LEMMA OnePrimaryFollows ==
  ASSUME OnePrimary, PrimariesFollow
  PROVE  OnePrimary'
<1> SUFFICES ASSUME NEW t \in Talents, NEW m \in Primaries(t)',
                    NEW n \in Primaries(t)'
             PROVE  m = n
  BY DEF OnePrimary
<1>1. CASE Primaries(t)' = Primaries(t)
  BY <1>1 DEF OnePrimary
<1>2. CASE \E p : Primaries(t)' = {p}
  BY <1>2
<1>3. CASE GalleryOf(t)' = {}
  BY <1>3 DEF Primaries
<1>4. QED BY <1>1, <1>2, <1>3 DEF PrimariesFollow

LEMMA SameGalleryFollows ==
  ASSUME gallery' = gallery
  PROVE  PrimariesFollow
  BY DEF PrimariesFollow, Primaries, GalleryOf, InGallery

LEMMA AddMediaFollows ==
  ASSUME GInv, NEW h \in Slots, Current(req[h]), AddMediaCommit(h)
  PROVE  PrimariesFollow
<1>1. PICK q \in MediaReq : q = req[h] /\ GalleryKnows(q)
  BY RequestAt
<1>2. /\ q.op = "insert" /\ q.talent \in Talents /\ q.asset \in Assets
      /\ q.existingCount \in 0 .. Cardinality(MediaIds)
      /\ q.isPrimary \in BOOLEAN /\ q.locked \in SUBSET MediaIds
      /\ \A m \in q.locked : InGallery(m)
  BY <1>1, GalleryRequests DEF AddMediaCommit, GalleryKnows
<1>3. PICK row \in MediaRow :
        row = [talent |-> q.talent, asset |-> q.asset,
               isPrimary |-> q.isPrimary, displayOrder |-> q.existingCount]
  BY <1>2 DEF MediaRow
<1>4. PICK demoted : demoted = Demoted(q.locked) /\ SameImages(demoted)
  BY <1>2, DemotedSame
<1>5. PICK m \in MediaIds :
        ~ InGallery(m) /\ gallery' = [demoted EXCEPT ![m] = row]
  BY <1>1, <1>3, <1>4 DEF AddMediaCommit, FreshMedia
<1>6. /\ gallery'[m] = row
      /\ \A n \in MediaIds \ {m} : gallery'[n] = demoted[n]
  BY <1>4, <1>5 DEF SameImages
<1>7. row.talent = q.talent
  BY <1>3
<1>8. row.isPrimary = q.isPrimary
  BY <1>3, Zenon
<1>9. \A t : ~ IsTop(gallery[m], t)
  BY <1>5 DEF IsTop, InGallery
<1>10. CASE q.isPrimary = TRUE /\ q.locked = GalleryOf(q.talent)
  <2>1. \A t : IsTop(row, t) <=> t = q.talent
    BY <1>7, <1>8, <1>10, TopRow
  <2>2. ASSUME NEW n \in MediaIds \ {m}
        PROVE  /\ ~ IsTop(gallery'[n], q.talent)
               /\ \A t : t # q.talent => (IsTop(gallery'[n], t) <=> IsTop(gallery[n], t))
    <3>1. CASE n \in q.locked
      <4>1. \A t : ~ IsTop(gallery'[n], t)
        BY <1>2, <1>4, <1>6, <3>1, DemotedRows
      <4>2. \A t : t # q.talent => ~ IsTop(gallery[n], t)
        BY <1>10, <3>1 DEF GalleryOf, IsTop
      <4>3. QED BY <4>1, <4>2
    <3>2. CASE n \notin q.locked
      <4>1. gallery'[n] = gallery[n]
        BY <1>2, <1>4, <1>6, <3>2, DemotedRows
      <4>2. ~ IsTop(gallery[n], q.talent)
        BY <1>10, <3>2 DEF GalleryOf, InGallery, IsTop
      <4>3. QED BY <4>1, <4>2
    <3>3. QED BY <3>1, <3>2
  <2>3. ASSUME NEW t \in Talents
        PROVE  Primaries(t)' = Primaries(t) \/ Primaries(t)' = {m}
    <3>1. CASE t = q.talent
      <4>1. \A n \in MediaIds : IsTop(gallery'[n], t) <=> n = m
        BY <1>6, <2>1, <2>2, <3>1
      <4>2. QED BY <4>1, TopsArePrimaries
    <3>2. CASE t # q.talent
      <4>1. \A n \in MediaIds : IsTop(gallery'[n], t) <=> IsTop(gallery[n], t)
        BY <1>6, <1>9, <2>1, <2>2, <3>2
      <4>2. QED BY <4>1, TopsArePrimaries
    <3>3. QED BY <3>1, <3>2
  <2>4. QED BY <2>3 DEF PrimariesFollow
<1>11. CASE q.isPrimary = FALSE /\ q.locked = {}
  <2>1. \A t : ~ IsTop(row, t)
    BY <1>8, <1>11, TopRow
  <2>2. \A n \in MediaIds \ {m} : gallery'[n] = gallery[n]
    BY <1>2, <1>4, <1>6, <1>11, DemotedRows
  <2>3. \A t : \A n \in MediaIds : IsTop(gallery'[n], t) <=> IsTop(gallery[n], t)
    BY <1>6, <1>9, <2>1, <2>2
  <2>4. \A t : Primaries(t)' = Primaries(t)
    BY <2>3, TopsArePrimaries
  <2>5. QED BY <2>4 DEF PrimariesFollow
<1>12. QED BY <1>1, <1>2, <1>10, <1>11 DEF Current

LEMMA SetPrimaryFollows ==
  ASSUME GInv, NEW h \in Slots, Current(req[h]), SetPrimaryCommit(h)
  PROVE  PrimariesFollow
<1>1. PICK q \in MediaReq : q = req[h] /\ GalleryKnows(q)
  BY RequestAt
<1>2. /\ q.op = "promote" /\ q.media \in MediaIds /\ q.locked \in SUBSET MediaIds
      /\ \A m \in q.locked : InGallery(m)
      /\ q.media \in q.locked /\ q.locked = GalleryOf(q.talent)
  BY <1>1, GalleryRequests DEF SetPrimaryCommit, GalleryKnows, Current
<1>3. PICK demoted : demoted = Demoted(q.locked) /\ SameImages(demoted)
  BY <1>2, DemotedSame
<1>4. gallery' = [demoted EXCEPT ![q.media].isPrimary = TRUE]
  BY <1>1, <1>3 DEF SetPrimaryCommit
<1>5. PICK row \in MediaRow : row = demoted[q.media] /\ row.talent = q.talent
  <2>1. InGallery(q.media) /\ gallery[q.media].talent = q.talent
    BY <1>2 DEF GalleryOf
  <2>2. demoted[q.media] \in MediaRow /\ demoted[q.media].talent = q.talent
    BY <1>2, <1>3, <2>1 DEF SameImages
  <2>3. QED BY <2>2
<1>6. /\ gallery'[q.media] = [row EXCEPT !.isPrimary = TRUE]
      /\ \A n \in MediaIds \ {q.media} : gallery'[n] = demoted[n]
  BY <1>2, <1>3, <1>4, <1>5 DEF SameImages
<1>7. \A t : IsTop(gallery'[q.media], t) <=> t = q.talent
  <2>1. PICK new : new = [row EXCEPT !.isPrimary = TRUE]
    OBVIOUS
  <2>2. \A t : IsTop(new, t) <=> t = q.talent
    BY <1>5, <2>1, HighRow
  <2>3. gallery'[q.media] = new
    BY <1>6, <2>1
  <2>4. QED BY <2>2, <2>3
<1>8. ASSUME NEW n \in MediaIds \ {q.media}
      PROVE  /\ ~ IsTop(gallery'[n], q.talent)
             /\ \A t : t # q.talent => (IsTop(gallery'[n], t) <=> IsTop(gallery[n], t))
  <2>1. CASE n \in q.locked
    <3>1. \A t : ~ IsTop(gallery'[n], t)
      BY <1>2, <1>3, <1>6, <2>1, DemotedRows
    <3>2. \A t : t # q.talent => ~ IsTop(gallery[n], t)
      BY <1>2, <2>1 DEF GalleryOf, IsTop
    <3>3. QED BY <3>1, <3>2
  <2>2. CASE n \notin q.locked
    <3>1. gallery'[n] = gallery[n]
      BY <1>2, <1>3, <1>6, <2>2, DemotedRows
    <3>2. ~ IsTop(gallery[n], q.talent)
      BY <1>2, <2>2 DEF GalleryOf, InGallery, IsTop
    <3>3. QED BY <3>1, <3>2
  <2>3. QED BY <2>1, <2>2
<1>9. \A t : t # q.talent => ~ IsTop(gallery[q.media], t)
  BY <1>2 DEF GalleryOf, IsTop
<1>10. ASSUME NEW t \in Talents
       PROVE  Primaries(t)' = Primaries(t) \/ Primaries(t)' = {q.media}
  <2>1. CASE t = q.talent
    <3>1. \A n \in MediaIds : IsTop(gallery'[n], t) <=> n = q.media
      BY <1>7, <1>8, <2>1
    <3>2. QED BY <1>2, <3>1, TopsArePrimaries
  <2>2. CASE t # q.talent
    <3>1. \A n \in MediaIds : IsTop(gallery'[n], t) <=> IsTop(gallery[n], t)
      BY <1>7, <1>8, <1>9, <2>2
    <3>2. QED BY <3>1, TopsArePrimaries
  <2>3. QED BY <2>1, <2>2
<1>11. QED BY <1>10 DEF PrimariesFollow

LEMMA ReorderFollows ==
  ASSUME GInv, NEW h \in Slots, ReorderMediaCommit(h)
  PROVE  PrimariesFollow
<1>1. gallery \in [MediaIds -> {NoMedia} \cup MediaRow]
  BY TypeParts DEF GInv, TablesOK
<1>2. PICK order : order = req[h].order
  OBVIOUS
<1>3. CASE gallery' = gallery
  BY <1>3, SameGalleryFollows
<1>4. CASE /\ \A m \in DOMAIN order : InGallery(m)
           /\ gallery' = [m \in MediaIds |->
                IF m \in DOMAIN order
                THEN [gallery[m] EXCEPT !.displayOrder = order[m]]
                ELSE gallery[m]]
  <2>1. ASSUME NEW m \in MediaIds
        PROVE  \A t : IsTop(gallery'[m], t) <=> IsTop(gallery[m], t)
    <3>1. CASE m \in DOMAIN order
      <4>1. PICK row \in MediaRow : row = gallery[m]
        BY <1>1, <1>4, <3>1 DEF InGallery
      <4>2. PICK n : n = order[m]
        OBVIOUS
      <4>3. PICK new : new = [row EXCEPT !.displayOrder = n]
        OBVIOUS
      <4>4. gallery'[m] = new
        BY <1>4, <3>1, <4>1, <4>2, <4>3
      <4>5. \A t : IsTop(new, t) <=> IsTop(row, t)
        BY <4>3, MovedRows
      <4>6. QED BY <4>1, <4>4, <4>5
    <3>2. CASE m \notin DOMAIN order
      BY <1>4, <3>2
    <3>3. QED BY <3>1, <3>2
  <2>2. \A t : Primaries(t)' = Primaries(t)
    BY <2>1, TopsArePrimaries
  <2>3. QED BY <2>2 DEF PrimariesFollow
<1>5. QED BY <1>2, <1>3, <1>4 DEF ReorderMediaCommit

(* The row removed was the only primary, or none: then its gallery keeps   *)
(* the one it had.                                                         *)
LEMMA RemoveMediaFollows ==
  ASSUME GInv, OnePrimary, NEW h \in Slots, Current(req[h]), RemoveMediaCommit(h)
  PROVE  PrimariesFollow
<1>1. PICK q \in MediaReq : q = req[h] /\ GalleryKnows(q) /\ Current(q)
  BY RequestAt
<1>2. /\ q.op = "unlist" /\ q.media \in MediaIds /\ q.talent \in Talents
      /\ q.isPrimary \in BOOLEAN
      /\ InGallery(q.media) /\ gallery[q.media].talent = q.talent
  BY <1>1, GalleryRequests DEF RemoveMediaCommit, GalleryKnows
<1>3. gallery[q.media].isPrimary = q.isPrimary
  BY <1>1, <1>2 DEF Current
<1>4. gallery \in [MediaIds -> {NoMedia} \cup MediaRow]
  BY TypeParts DEF GInv, TablesOK
<1>5. PICK row \in MediaRow : row = gallery[q.media] /\ row.talent = q.talent
  <2>1. gallery[q.media] \in MediaRow
    BY <1>2, <1>4 DEF InGallery
  <2>2. QED BY <1>2, <2>1
<1>6. row.isPrimary = q.isPrimary
  BY <1>3, <1>5, Zenon
<1>7. \A t : ~ IsTop(NoMedia, t)
  BY DEF IsTop
<1>8. PICK rest : rest = GalleryOf(q.talent) \ {q.media}
  OBVIOUS
<1>9. CASE q.isPrimary = TRUE
  <2>1. IsTop(gallery[q.media], q.talent)
    BY <1>5, <1>6, <1>9, TopRow
  <2>2. \A n \in MediaIds \ {q.media} : ~ IsTop(gallery[n], q.talent)
    BY <1>2, <2>1, TopsArePrimaries DEF OnePrimary
  <2>3. \A t : t # q.talent => ~ IsTop(gallery[q.media], t)
    BY <1>2 DEF IsTop
  <2>4. CASE rest # {}
    <3>1. PICK next \in FirstOf(rest) :
            gallery' = [gallery EXCEPT ![q.media] = NoMedia,
                                       ![next].isPrimary = TRUE]
      BY <1>1, <1>8, <1>9, <2>4 DEF RemoveMediaCommit
    <3>2. /\ next \in MediaIds /\ next # q.media /\ InGallery(next)
          /\ gallery[next].talent = q.talent
      BY <1>8 DEF FirstOf, GalleryOf
    <3>3. PICK low \in MediaRow : low = gallery[next] /\ low.talent = q.talent
      <4>1. gallery[next] \in MediaRow
        BY <1>4, <3>2 DEF InGallery
      <4>2. QED BY <3>2, <4>1
    <3>4. PICK high : high = [low EXCEPT !.isPrimary = TRUE]
      OBVIOUS
    <3>5. \A t : IsTop(high, t) <=> t = q.talent
      BY <3>3, <3>4, HighRow
    <3>6. /\ gallery'[next] = high /\ gallery'[q.media] = NoMedia
          /\ \A n \in MediaIds \ {q.media, next} : gallery'[n] = gallery[n]
      BY <1>2, <1>4, <3>1, <3>2, <3>3, <3>4
    <3>7. \A t : t # q.talent => ~ IsTop(gallery[next], t)
      BY <3>2 DEF IsTop
    <3>8. ASSUME NEW t \in Talents
          PROVE  Primaries(t)' = Primaries(t) \/ Primaries(t)' = {next}
      <4>1. CASE t = q.talent
        <5>1. \A n \in MediaIds : IsTop(gallery'[n], t) <=> n = next
          BY <1>7, <2>2, <3>5, <3>6, <4>1
        <5>2. QED BY <3>2, <5>1, TopsArePrimaries
      <4>2. CASE t # q.talent
        <5>1. \A n \in MediaIds : IsTop(gallery'[n], t) <=> IsTop(gallery[n], t)
          BY <1>7, <2>3, <3>5, <3>6, <3>7, <4>2
        <5>2. QED BY <5>1, TopsArePrimaries
      <4>3. QED BY <4>1, <4>2
    <3>9. QED BY <3>8 DEF PrimariesFollow
  <2>5. CASE rest = {}
    <3>1. gallery' = [gallery EXCEPT ![q.media] = NoMedia]
      BY <1>1, <1>8, <2>5 DEF RemoveMediaCommit
    <3>2. /\ gallery'[q.media] = NoMedia
          /\ \A n \in MediaIds \ {q.media} : gallery'[n] = gallery[n]
      BY <1>2, <1>4, <3>1
    <3>3. GalleryOf(q.talent)' = {}
      BY <1>8, <2>5, <3>2 DEF GalleryOf, InGallery
    <3>4. ASSUME NEW t \in Talents, t # q.talent
          PROVE  Primaries(t)' = Primaries(t)
      <4>1. \A n \in MediaIds : IsTop(gallery'[n], t) <=> IsTop(gallery[n], t)
        BY <1>7, <2>3, <3>2, <3>4
      <4>2. QED BY <4>1, TopsArePrimaries
    <3>5. QED BY <3>3, <3>4 DEF PrimariesFollow
  <2>6. QED BY <2>4, <2>5
<1>10. CASE q.isPrimary = FALSE
  <2>1. \A t : ~ IsTop(gallery[q.media], t)
    BY <1>5, <1>6, <1>10, TopRow
  <2>2. gallery' = [gallery EXCEPT ![q.media] = NoMedia]
    BY <1>1, <1>10 DEF RemoveMediaCommit
  <2>3. /\ gallery'[q.media] = NoMedia
        /\ \A n \in MediaIds \ {q.media} : gallery'[n] = gallery[n]
    BY <1>2, <1>4, <2>2
  <2>4. \A t : \A n \in MediaIds : IsTop(gallery'[n], t) <=> IsTop(gallery[n], t)
    BY <1>7, <2>1, <2>3
  <2>5. QED BY <2>4, TopsArePrimaries DEF PrimariesFollow
<1>11. QED BY <1>2, <1>9, <1>10

(***************************************************************************)
(* The steps of galleries keep the invariant.                              *)
(***************************************************************************)

LEMMA GalleryInSequence ==
  ASSUME GInv, InSequence, NEW h \in Slots, req[h].op # "idle",
         Proceed(h, Idle), UNCHANGED <<asset, heroIds>>,
         PlacesSound /\ Current(req[h]) =>
           /\ PrimariesFollow
           /\ HeroUsages' = HeroUsages
           /\ \A u \in usages' : u \in usages \/ Live(u.asset)
  PROVE  InSequence'
<1>1. Moves(h, Idle)
  BY BusyIsNotIdle, ProceedMoves
<1>2. ASSUME PlacesSound, Current(req[h]) PROVE PlacesSound'
  <2>1. AllUsedLive'
    BY <1>2 DEF PlacesSound, AllUsedLive, Live
  <2>2. HeroMirrored'
    BY <1>2 DEF PlacesSound, HeroMirrored
  <2>3. OnePrimary'
    BY <1>2, OnePrimaryFollows DEF PlacesSound
  <2>4. QED BY <2>1, <2>2, <2>3 DEF PlacesSound
<1>3. QED BY <1>1, <1>2, IdleIsCurrent, SequenceGoesOn

LEMMA AddMediaInSequence ==
  ASSUME GInv, InSequence, NEW h \in Slots, AddMediaCommit(h)
  PROVE  InSequence'
<1>1. PICK q \in MediaReq : q = req[h] /\ q.op = "insert" /\ q.talent \in Talents
  BY RequestAt, GalleryRequests DEF AddMediaCommit
<1>2. PICK new : new = [asset |-> q.asset, entity |-> q.talent]
  OBVIOUS
<1>3. /\ Proceed(h, Idle) /\ UNCHANGED <<asset, heroIds>>
      /\ usages' = usages \cup {new}
  BY <1>1, <1>2 DEF AddMediaCommit, Finish
<1>4. new.asset = q.asset /\ new.entity # HERO
  BY <1>1, <1>2, HeroAssumption
<1>5. HeroUsages' = HeroUsages
  BY <1>3, <1>4 DEF HeroUsages
<1>6. Current(req[h]) => \A u \in usages' : u \in usages \/ Live(u.asset)
  BY <1>1, <1>3, <1>4 DEF Current
<1>7. QED BY <1>1, <1>3, <1>5, <1>6, AddMediaFollows, GalleryInSequence

LEMMA RemoveMediaInSequence ==
  ASSUME GInv, InSequence, NEW h \in Slots, RemoveMediaCommit(h)
  PROVE  InSequence'
<1>1. PICK q \in MediaReq : q = req[h] /\ q.op = "unlist" /\ q.talent \in Talents
  BY RequestAt, GalleryRequests DEF RemoveMediaCommit
<1>2. PICK gone : gone = [asset |-> q.asset, entity |-> q.talent]
  OBVIOUS
<1>3. /\ Proceed(h, Idle) /\ UNCHANGED <<asset, heroIds>>
      /\ usages' = usages \ {gone}
  BY <1>1, <1>2 DEF RemoveMediaCommit, Finish
<1>4. gone.entity # HERO
  BY <1>1, <1>2, HeroAssumption
<1>5. HeroUsages' = HeroUsages
  BY <1>3, <1>4 DEF HeroUsages
<1>6. PlacesSound /\ Current(req[h]) => PrimariesFollow
  BY RemoveMediaFollows DEF PlacesSound
<1>7. QED BY <1>1, <1>3, <1>5, <1>6, GalleryInSequence

LEMMA SameUsagesInSequence ==
  ASSUME GInv, InSequence, NEW h \in Slots,
         SetPrimaryCommit(h) \/ ReorderMediaCommit(h)
  PROVE  InSequence'
<1>1. /\ req[h].op # "idle" /\ Proceed(h, Idle)
      /\ UNCHANGED <<asset, usages, heroIds>>
  BY DEF SetPrimaryCommit, ReorderMediaCommit, Finish
<1>2. HeroUsages' = HeroUsages
  BY <1>1 DEF HeroUsages
<1>3. Current(req[h]) => PrimariesFollow
  BY SetPrimaryFollows, ReorderFollows
<1>4. QED BY <1>1, <1>2, <1>3, GalleryInSequence

LEMMA SequenceInit == Init => InSequence
<1> SUFFICES ASSUME Init PROVE InSequence
  OBVIOUS
<1>1. OneAtATime
  BY DEF Init, OneAtATime
<1>2. AllUsedLive /\ HeroMirrored
  BY DEF Init, AllUsedLive, HeroMirrored, HeroUsages
<1>3. OnePrimary
  BY DEF Init, OnePrimary, Primaries, GalleryOf, InGallery
<1>4. \A h \in Slots : Current(req[h])
  BY FreeIsCurrent DEF Init, Idle, Free
<1>5. QED BY <1>1, <1>2, <1>3, <1>4 DEF InSequence, SequenceSound, PlacesSound

LEMMA SequenceStep ==
  ASSUME GInv, InSequence, [Next]_mediaVars
  PROVE  InSequence'
<1>1. CASE MediaNext
  <2>1. PICK h \in Slots :
        \/ \E x \in Hashes : UploadFind(h, x)
        \/ UploadRemote(h) \/ UploadCreate(h) \/ UploadReplyLost(h)
        \/ DestroyObject(h)
        \/ \E a \in Assets, x \in Hashes : ReplaceFind(h, a, x)
        \/ ReplaceRemote(h) \/ ReplaceUpdate(h)
        \/ \E a \in Assets : RemoveFind(h, a)
        \/ \E ids \in SUBSET Assets : BulkDeleteFind(h, ids)
        \/ CountUsage(h) \/ TrashUpdate(h)
        \/ \E a \in Assets : RestoreFind(h, a)
        \/ RestoreUpdate(h)
        \/ \E a \in Assets : PermanentDeleteFind(h, a)
        \/ PermanentDelete(h)
    BY <1>1 DEF MediaNext
  <2>2. QED
    BY <2>1, FindsInSequence, ReliantFindsInSequence, ReadsInSequence,
       ReliantReadsInSequence, UploadCreateInSequence, ReplaceUpdateInSequence,
       TrashInSequence, RestoreInSequence, PurgeInSequence
<1>2. CASE GalleryNext
  <2>1. PICK h \in Slots :
          \/ \E t \in Talents : TalentRemove(h, t)
          \/ \E t \in Talents, a \in Assets : AddMediaFind(h, t, a)
          \/ AddMediaCount(h) \/ AddMediaDemote(h) \/ AddMediaCommit(h)
          \/ AddMediaRefused(h)
          \/ \E m \in MediaIds : RemoveMediaFind(h, m)
          \/ RemoveMediaCommit(h)
          \/ \E m \in MediaIds : SetPrimaryFind(h, m)
          \/ SetPrimaryDemote(h) \/ SetPrimaryCommit(h) \/ MediaRowGone(h)
          \/ \E t \in Talents : ReorderMediaFind(h, t)
          \/ ReorderMediaCommit(h)
    BY <1>2 DEF GalleryNext
  <2>2. QED
    BY <2>1, RetireInSequence, FindsInSequence, ReliantFindsInSequence,
       ReadsInSequence, ReliantReadsInSequence, AddMediaInSequence,
       RemoveMediaInSequence, SameUsagesInSequence
<1>3. CASE HeroNext
  BY <1>3, ReliantFindsInSequence, ReliantReadsInSequence, HeroInSequence
     DEF HeroNext
<1>4. CASE \E h \in Slots : Abort(h)
  BY <1>4, AbortInSequence
<1>5. CASE UNCHANGED mediaVars
  <2>1. /\ UNCHANGED tables /\ req' = req /\ overlapped' = overlapped
    BY <1>5 DEF mediaVars
  <2>2. CASE overlapped
    BY <2>1, <2>2 DEF InSequence
  <2>3. CASE ~ overlapped
    <3>1. SequenceSound
      BY <2>3 DEF InSequence
    <3>2. OneAtATime' /\ PlacesSound'
      BY <2>1, <3>1, PlacesStay DEF SequenceSound, OneAtATime
    <3>3. \A h \in Slots : Current(req[h])'
      <4> TAKE h \in Slots
      <4>1. PICK r : r = req[h] /\ r = req'[h] /\ Current(r)
        BY <2>1, <3>1 DEF SequenceSound
      <4>2. Current(r)'
        BY <2>1, <4>1, CurrentStays
      <4>3. QED BY <4>1, <4>2 DEF Current
    <3>4. QED BY <3>2, <3>3 DEF InSequence, SequenceSound
  <2>4. QED BY <2>2, <2>3
<1>6. QED BY <1>1, <1>2, <1>3, <1>4, <1>5 DEF Next

THEOREM Sequence == Spec => [](GInv /\ InSequence)
<1>1. GInv /\ InSequence /\ [Next]_mediaVars => InSequence'
  BY SequenceStep
<1>2. QED BY TablesInvariance, SequenceInit, <1>1, PTL DEF Spec

(* What is in a gallery or on the home page is never in Trash, unless two  *)
(* requests overlapped.                                                    *)
THEOREM UsedStaysLive == Spec => []UsedIsLive
<1>1. InSequence => UsedIsLive
  BY DEF InSequence, SequenceSound, PlacesSound, AllUsedLive, UsedIsLive
<1>2. QED BY Sequence, <1>1, PTL

(* The home page shows what its settings name, and exactly that is kept    *)
(* from Trash.                                                             *)
THEOREM HeroIsProtected == Spec => []HeroProtected
<1>1. ASSUME InSequence PROVE HeroProtected
  <2> SUFFICES ASSUME ~ overlapped
               PROVE  HeroShown = heroIds /\ HeroMirrored
    BY DEF HeroProtected, HeroMirrored
  <2>1. HeroMirrored /\ AllUsedLive
    BY <1>1 DEF InSequence, SequenceSound, PlacesSound
  <2>2. ASSUME NEW a \in heroIds PROVE Live(a)
    <3>1. PICK u : u = [asset |-> a, entity |-> HERO]
      OBVIOUS
    <3>2. u \in HeroUsages /\ u.asset = a
      BY <2>1, <3>1 DEF HeroMirrored
    <3>3. QED BY <2>1, <3>2 DEF AllUsedLive, HeroUsages
  <2>3. QED BY <2>1, <2>2 DEF HeroShown
<1>2. QED BY Sequence, <1>1, PTL

(* A gallery that has its primary image keeps exactly one.                 *)
LEMMA StepKeepsPrimaries ==
  ASSUME GInv, InSequence, [Next]_mediaVars, ~ overlapped'
  PROVE  PrimariesFollow /\ OnePrimary
<1>1. CASE gallery' = gallery /\ overlapped' = overlapped
  BY <1>1, SameGalleryFollows DEF InSequence, SequenceSound, PlacesSound
<1>2. ASSUME NEW h \in Slots, NEW operation, NEW r, Begin(h, operation, r),
             gallery' = gallery
      PROVE  PrimariesFollow /\ OnePrimary
  <2>1. PlacesSound
    BY <1>2, BeginMoves, Alone
  <2>2. QED BY <1>2, <2>1, SameGalleryFollows DEF PlacesSound
<1>3. ASSUME NEW h \in Slots,
             \/ AddMediaCommit(h) \/ RemoveMediaCommit(h)
             \/ SetPrimaryCommit(h) \/ ReorderMediaCommit(h)
      PROVE  PrimariesFollow /\ OnePrimary
  <2>1. Proceed(h, Idle) /\ req[h].op # "idle"
    BY <1>3 DEF AddMediaCommit, RemoveMediaCommit, SetPrimaryCommit,
                ReorderMediaCommit, Finish
  <2>2. Current(req[h]) /\ OnePrimary
    BY <2>1, BusyIsNotIdle, ProceedMoves, Alone DEF PlacesSound
  <2>3. QED
    BY <1>3, <2>2, AddMediaFollows, RemoveMediaFollows, SetPrimaryFollows,
       ReorderFollows
<1>4. CASE UNCHANGED mediaVars
  BY <1>1, <1>4 DEF mediaVars, tables
<1>5. CASE \E h \in Slots : Abort(h)
  BY <1>1, <1>5 DEF Abort, tables
<1>6. ASSUME NEW h \in Slots,
             \/ UploadRemote(h) \/ UploadCreate(h) \/ UploadReplyLost(h)
             \/ DestroyObject(h) \/ ReplaceRemote(h) \/ ReplaceUpdate(h)
             \/ CountUsage(h) \/ TrashUpdate(h) \/ RestoreUpdate(h)
             \/ PermanentDelete(h)
      PROVE  PrimariesFollow /\ OnePrimary
  <2>1. overlapped' = overlapped
    BY <1>6 DEF UploadRemote, UploadCreate, UploadReplyLost, DestroyObject,
         ReplaceRemote, ReplaceUpdate, CountUsage, TrashUpdate, RestoreUpdate,
         PermanentDelete, Proceed, Finish
  <2>2. gallery' = gallery
    BY <1>6 DEF UploadRemote, UploadCreate, UploadReplyLost, DestroyObject,
         ReplaceRemote, ReplaceUpdate, CountUsage, TrashUpdate, RestoreUpdate,
         PermanentDelete, tables
  <2>3. QED BY <1>1, <2>1, <2>2
<1>7. ASSUME NEW h \in Slots,
             \/ AddMediaCount(h) \/ AddMediaDemote(h) \/ AddMediaRefused(h)
             \/ SetPrimaryDemote(h) \/ MediaRowGone(h) \/ HeroDelete(h)
             \/ HeroCommit(h)
      PROVE  PrimariesFollow /\ OnePrimary
  <2>1. overlapped' = overlapped /\ gallery' = gallery
    BY <1>7 DEF AddMediaCount, AddMediaDemote, AddMediaRefused,
         SetPrimaryDemote, MediaRowGone, HeroDelete, HeroCommit, FinishDeleting,
         Proceed, Finish,
         tables
  <2>2. QED BY <1>1, <2>1
<1>8. ASSUME NEW h \in Slots,
             \/ \E x \in Hashes : UploadFind(h, x)
             \/ \E a \in Assets, x \in Hashes : ReplaceFind(h, a, x)
             \/ \E a \in Assets : RemoveFind(h, a)
             \/ \E ids \in SUBSET Assets : BulkDeleteFind(h, ids)
             \/ \E a \in Assets : RestoreFind(h, a)
             \/ \E a \in Assets : PermanentDeleteFind(h, a)
             \/ \E ids \in SUBSET Assets : HeroCheck(h, ids)
      PROVE  PrimariesFollow /\ OnePrimary
  <2>1. gallery' = gallery /\ \E operation, r : Begin(h, operation, r)
    BY <1>8 DEF UploadFind, ReplaceFind, RemoveFind, BulkDeleteFind, RestoreFind,
         PermanentDeleteFind, HeroCheck, tables
  <2>2. QED BY <1>2, <2>1
<1>9. ASSUME NEW h \in Slots,
             \/ \E t \in Talents : TalentRemove(h, t)
             \/ \E t \in Talents, a \in Assets : AddMediaFind(h, t, a)
             \/ \E m \in MediaIds : RemoveMediaFind(h, m)
             \/ \E m \in MediaIds : SetPrimaryFind(h, m)
             \/ \E t \in Talents : ReorderMediaFind(h, t)
      PROVE  PrimariesFollow /\ OnePrimary
  <2>1. gallery' = gallery /\ \E operation, r : Begin(h, operation, r)
    BY <1>9 DEF TalentRemove, AddMediaFind, RemoveMediaFind, SetPrimaryFind,
         ReorderMediaFind, tables
  <2>2. QED BY <1>2, <2>1
<1>10. CASE MediaNext
  BY <1>6, <1>8, <1>10 DEF MediaNext
<1>11. CASE GalleryNext
  BY <1>3, <1>7, <1>9, <1>11 DEF GalleryNext
<1>12. CASE HeroNext
  BY <1>7, <1>8, <1>12 DEF HeroNext
<1>13. QED BY <1>4, <1>5, <1>10, <1>11, <1>12 DEF Next

THEOREM PrimaryIsKept == Spec => PrimaryKept
<1>1. ASSUME GInv, InSequence, [Next]_mediaVars
      PROVE  [~ overlapped' =>
               \A t \in Talents :
                 (Primaries(t) # {} /\ GalleryOf(t)' # {}) =>
                   Cardinality(Primaries(t)') = 1]_mediaVars
  <2> SUFFICES ASSUME ~ overlapped', NEW t \in Talents,
                      Primaries(t) # {}, GalleryOf(t)' # {}
               PROVE  Cardinality(Primaries(t)') = 1
    OBVIOUS
  <2>1. PrimariesFollow /\ OnePrimary
    BY <1>1, StepKeepsPrimaries
  <2>2. PICK m : Primaries(t)' = {m}
    <3>1. CASE Primaries(t)' = Primaries(t)
      <4>1. PICK m : m \in Primaries(t)
        OBVIOUS
      <4>2. Primaries(t) = {m}
        BY <2>1, <4>1 DEF OnePrimary
      <4>3. QED BY <3>1, <4>2
    <3>2. QED BY <2>1, <3>1 DEF PrimariesFollow
  <2>3. QED BY <2>2, FS_Singleton
<1>2. QED BY Sequence, <1>1, PTL DEF Spec, PrimaryKept
=============================================================================
