--------------------------- MODULE TalentGallery ---------------------------
(***************************************************************************)
(* The gallery operations of apps/api/src/talent/talent.service.ts: a      *)
(* talent's gallery is a set of talent_media rows, one of them primary,    *)
(* each matched by a media_usages row that keeps the image from Trash.     *)
(*                                                                         *)
(* A $transaction of several statements at READ COMMITTED is two steps     *)
(* where its first statement reads: what that statement found (and locked) *)
(* and the commit.                                                         *)
(***************************************************************************)
EXTENDS MediaStore

(* remove and bulkAction "delete": a soft delete, repeated without effect. *)
TalentRemove(h, t) ==
  /\ Begin(h, "retire", Idle)
  /\ retired' = retired \cup {t}
  /\ UNCHANGED <<asset, usages, gallery, heroIds, remote>>

(* addMedia, its checks: the talent is not deleted, the asset is live.     *)
AddMediaFind(h, t, a) ==
  /\ t \notin retired
  /\ Live(a)
  /\ Begin(h, "gallery", [op |-> "add", talent |-> t, asset |-> a])
  /\ UNCHANGED <<tables, remote>>

(* Mutant: the new image is counted too. *)
AddMediaCountOneMore(h) ==
  LET r == req[h] IN
  /\ r.op = "add"
  /\ Proceed(h, [op |-> "adding", talent |-> r.talent, asset |-> r.asset,
                 existingCount |-> Cardinality(GalleryOf(r.talent)) + 1])
  /\ UNCHANGED <<tables, remote>>

AddMediaCount(h) ==
  LET r == req[h] IN
  /\ r.op = "add"
  /\ Proceed(h, [op |-> "adding", talent |-> r.talent, asset |-> r.asset,
                 existingCount |-> Cardinality(GalleryOf(r.talent))])
  /\ UNCHANGED <<tables, remote>>

(* Its transaction, first statement: makePrimary is what the caller asks,  *)
(* or whether the gallery was empty when counted; then the rows of the     *)
(* gallery, as they are now, are demoted and stay locked to the commit.    *)
AddMediaDemote(h) ==
  LET r == req[h]
      rows == GalleryOf(r.talent)
  IN
  /\ r.op = "adding"
  /\ \E makePrimary \in BOOLEAN :
       /\ makePrimary => Unlocked(h, rows)
       /\ Proceed(h, [op |-> "insert", talent |-> r.talent, asset |-> r.asset,
                      existingCount |-> r.existingCount,
                      isPrimary |-> makePrimary,
                      locked |-> IF makePrimary THEN rows ELSE {}])
  /\ UNCHANGED <<tables, remote>>

Demoted(rows) ==
  [m \in MediaIds |-> IF m \in rows THEN [gallery[m] EXCEPT !.isPrimary = FALSE]
                      ELSE gallery[m]]

(* The two inserts and the commit.  The foreign key wants the asset's row, *)
(* deleted or not; the unique index wants the image new to the gallery.    *)
AddMediaCommit(h) ==
  LET r == req[h] IN
  /\ r.op = "insert"
  /\ HasRow(r.asset)
  /\ \A m \in GalleryOf(r.talent) : gallery[m].asset # r.asset
  /\ \E m \in MediaIds :
       /\ FreshMedia(m)
       /\ gallery' = [Demoted(r.locked) EXCEPT ![m] =
            [talent |-> r.talent, asset |-> r.asset, isPrimary |-> r.isPrimary,
             displayOrder |-> r.existingCount]]
       /\ usages' = usages \cup {[asset |-> r.asset, entity |-> r.talent]}
  /\ Finish(h)
  /\ UNCHANGED <<asset, heroIds, retired, remote>>

(* Otherwise the transaction is rolled back (409, or 500 for the key).     *)
AddMediaRefused(h) ==
  LET r == req[h] IN
  /\ r.op = "insert"
  /\ \/ ~ HasRow(r.asset)
     \/ \E m \in GalleryOf(r.talent) : gallery[m].asset = r.asset
  /\ Finish(h)
  /\ UNCHANGED <<tables, remote>>

-----------------------------------------------------------------------------
(* removeMedia, its checks: what it deletes by, and whether a successor    *)
(* will be needed, is what the row said then.                              *)
RemoveMediaFind(h, m) ==
  /\ InGallery(m)
  /\ gallery[m].talent \notin retired
  /\ Begin(h, "gallery",
       [op |-> "unlist", media |-> m, asset |-> gallery[m].asset,
        talent |-> gallery[m].talent, isPrimary |-> gallery[m].isPrimary])
  /\ UNCHANGED <<tables, remote>>

(* findFirst ordered by displayOrder; rows that tie come in any order.     *)
FirstOf(rows) ==
  {m \in rows : \A n \in rows : gallery[m].displayOrder <= gallery[n].displayOrder}

(* Mutant: the gallery is left without a primary image. *)
RemoveMediaNoSuccessor(h) ==
  LET r == req[h] IN
  /\ r.op = "unlist"
  /\ InGallery(r.media)
  /\ Unlocked(h, {r.media})
  /\ gallery' = [gallery EXCEPT ![r.media] = NoMedia]
  /\ usages' = usages \ {[asset |-> r.asset, entity |-> r.talent]}
  /\ Finish(h)
  /\ UNCHANGED <<asset, heroIds, retired, remote>>

(* Its transaction: the row, its usage, and a new primary if it was one.   *)
RemoveMediaCommit(h) ==
  LET r == req[h]
      rest == GalleryOf(r.talent) \ {r.media}
  IN
  /\ r.op = "unlist"
  /\ InGallery(r.media)
  /\ Unlocked(h, {r.media})
  /\ IF r.isPrimary /\ rest # {}
     THEN \E next \in FirstOf(rest) :
            /\ Unlocked(h, {next})
            /\ gallery' = [gallery EXCEPT ![r.media] = NoMedia,
                                          ![next].isPrimary = TRUE]
     ELSE gallery' = [gallery EXCEPT ![r.media] = NoMedia]
  /\ usages' = usages \ {[asset |-> r.asset, entity |-> r.talent]}
  /\ Finish(h)
  /\ UNCHANGED <<asset, heroIds, retired, remote>>

(* setPrimaryMedia, its checks; a later statement of removeMedia's or of   *)
(* setPrimaryMedia's transaction that misses its row rolls everything back. *)
SetPrimaryFind(h, m) ==
  /\ InGallery(m)
  /\ gallery[m].talent \notin retired
  /\ Begin(h, "gallery", [op |-> "primary", media |-> m,
                          talent |-> gallery[m].talent])
  /\ UNCHANGED <<tables, remote>>

SetPrimaryDemote(h) ==
  LET r == req[h]
      rows == GalleryOf(r.talent)
  IN
  /\ r.op = "primary"
  /\ InGallery(r.media)
  /\ Unlocked(h, rows)
  /\ Proceed(h, [op |-> "promote", media |-> r.media, talent |-> r.talent,
                 locked |-> rows])
  /\ UNCHANGED <<tables, remote>>

SetPrimaryCommit(h) ==
  LET r == req[h] IN
  /\ r.op = "promote"
  /\ gallery' = [Demoted(r.locked) EXCEPT ![r.media].isPrimary = TRUE]
  /\ Finish(h)
  /\ UNCHANGED <<asset, usages, heroIds, retired, remote>>

MediaRowGone(h) ==
  LET r == req[h] IN
  /\ r.op \in {"unlist", "primary"}
  /\ ~ InGallery(r.media)
  /\ Finish(h)
  /\ UNCHANGED <<tables, remote>>

-----------------------------------------------------------------------------
(* The places that a body of as many ids as there are rows gives to those  *)
(* it names, first place 0.  An id given twice has the later place, and    *)
(* then another is not named; the last id of the body has the last place.  *)
Orders(rows) ==
  UNION {{order \in [ids -> 0 .. Cardinality(rows) - 1] :
            /\ \A m, n \in ids : m # n => order[m] # order[n]
            /\ \E m \in ids : order[m] = Cardinality(rows) - 1} :
         ids \in SUBSET rows}

(* reorderMedia, its check: as many ids as rows, every one of a row.       *)
ReorderMediaFind(h, t) ==
  /\ t \notin retired
  /\ GalleryOf(t) # {}
  /\ \E order \in Orders(GalleryOf(t)) :
       Begin(h, "gallery", [op |-> "reorder", order |-> order])
  /\ UNCHANGED <<tables, remote>>

(* One transaction of one update per id; a missing row rolls it back, and  *)
(* an image not named keeps its place, as does one added since.            *)
ReorderMediaCommit(h) ==
  LET r == req[h]
      rows == DOMAIN r.order
  IN
  /\ r.op = "reorder"
  /\ Unlocked(h, rows)
  /\ gallery' = IF \A m \in rows : InGallery(m)
                THEN [m \in MediaIds |->
                        IF m \in rows
                        THEN [gallery[m] EXCEPT !.displayOrder = r.order[m]]
                        ELSE gallery[m]]
                ELSE gallery
  /\ Finish(h)
  /\ UNCHANGED <<asset, usages, heroIds, retired, remote>>

GalleryNext ==
  \E h \in Slots :
    \/ \E t \in Talents : TalentRemove(h, t)
    \/ \E t \in Talents, a \in Assets : AddMediaFind(h, t, a)
    \/ AddMediaCount(h)
    \/ AddMediaDemote(h)
    \/ AddMediaCommit(h)
    \/ AddMediaRefused(h)
    \/ \E m \in MediaIds : RemoveMediaFind(h, m)
    \/ RemoveMediaCommit(h)
    \/ \E m \in MediaIds : SetPrimaryFind(h, m)
    \/ SetPrimaryDemote(h)
    \/ SetPrimaryCommit(h)
    \/ MediaRowGone(h)
    \/ \E t \in Talents : ReorderMediaFind(h, t)
    \/ ReorderMediaCommit(h)
=============================================================================
