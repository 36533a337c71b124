----------------------------- MODULE MediaStore -----------------------------
(***************************************************************************)
(* What the media library, the talent galleries and the hero settings      *)
(* share: the tables media_assets, media_usages, talent_media and          *)
(* hero_settings (apps/api/prisma/schema.prisma), the deletedAt of         *)
(* talents, and the images kept at Cloudinary.                             *)
(*                                                                         *)
(* Any request runs in any slot; between two awaits it keeps what it has   *)
(* read.  An id that no row and no request holds may be used again: the    *)
(* database and Cloudinary would draw a new one, which nobody could tell   *)
(* from it.                                                                *)
(***************************************************************************)
EXTENDS Naturals, FiniteSets

CONSTANTS
  Assets,     \* ids of media_assets rows
  Objects,    \* public ids at Cloudinary
  Hashes,     \* contents of image files, as their SHA-256
  Talents,    \* ids of talents rows
  MediaIds,   \* ids of talent_media rows
  Slots,      \* requests in flight at once
  Workloads   \* bound: sets of operations that one behaviour may use

VARIABLES
  asset,      \* media_assets
  remote,     \* at Cloudinary: absent, or which operation stored the image
  usages,     \* media_usages
  gallery,    \* talent_media
  heroIds,    \* hero_settings.mediaIds
  retired,    \* talents with deletedAt set
  req,        \* what the request in each slot will do next
  workload,   \* the operations of this behaviour, one of Workloads
  overlapped, \* history: two requests have been in flight at once
  faults      \* history: requests cut short, replies lost

tables == <<asset, usages, gallery, heroIds, retired>>
mediaVars == <<tables, remote, req, workload, overlapped, faults>>

None == "none"
HERO == "hero_settings"   \* entityType and HERO_SETTINGS_ID in one
Idle == [op |-> "idle"]
NoAsset == [deletedAt |-> "no row"]
NoMedia == [talent |-> None]

ASSUME NoneAssumption == None \notin Objects
ASSUME HeroAssumption == HERO \notin Talents
ASSUME MediaIdsAssumption == IsFiniteSet(MediaIds)

(* A legacy row (source: "legacy") has neither public id nor hash.         *)
AssetRow == [deletedAt : {"null", "set"},
             publicId : Objects \cup {None}, contentHash : Hashes \cup {None}]

MediaRow == [talent : Talents, asset : Assets, isPrimary : BOOLEAN,
             displayOrder : 0 .. Cardinality(MediaIds)]

Usage == [asset : Assets, entity : Talents \cup {HERO}]

Live(a) == asset[a].deletedAt = "null"
Trashed(a) == asset[a].deletedAt = "set"
HasRow(a) == asset[a] # NoAsset

(* The unique indexes on public_id and content_hash, which ignore nulls.   *)
HasObject(a, o) == HasRow(a) /\ asset[a].publicId = o
HasHash(a, x) == HasRow(a) /\ asset[a].contentHash = x

InGallery(m) == gallery[m] # NoMedia
GalleryOf(t) == {m \in MediaIds : InGallery(m) /\ gallery[m].talent = t}

(* countUsage *)
Used(a) == \E u \in usages : u.asset = a

-----------------------------------------------------------------------------
(* Requests *)

Fields(r) == DOMAIN r
Holds(r, field, v) == field \in Fields(r) /\ r[field] = v

(* Ids the database or Cloudinary may hand out.                            *)
FreshAsset(a) ==
  /\ ~ HasRow(a)
  /\ a \notin heroIds
  /\ \A h \in Slots :
       /\ ~ Holds(req[h], "asset", a)
       /\ "assets" \in Fields(req[h]) => a \notin req[h].assets
       /\ req[h].op = "save" => \A u \in req[h].old : u.asset # a
FreshObject(o) ==
  /\ remote[o] = "absent"
  /\ \A a \in Assets : ~ HasObject(a, o)
  /\ \A h \in Slots : ~ Holds(req[h], "object", o) /\ ~ Holds(req[h], "old", o)
FreshMedia(m) ==
  /\ ~ InGallery(m)
  /\ \A h \in Slots : ~ Holds(req[h], "media", m)

(* talent_media rows locked by another request's open transaction.         *)
Unlocked(h, rows) ==
  \A k \in Slots \ {h} :
    "locked" \in Fields(req[k]) => req[k].locked \cap rows = {}

(* A request of the given operation arrives in slot h, and its first await *)
(* leaves it with r.                                                       *)
Begin(h, operation, r) ==
  /\ operation \in workload
  /\ req[h] = Idle
  /\ req' = [req EXCEPT ![h] = r]
  /\ overlapped' = (overlapped \/ \E k \in Slots : req[k] # Idle)
  /\ UNCHANGED <<workload, faults>>

Proceed(h, r) ==
  /\ req' = [req EXCEPT ![h] = r]
  /\ UNCHANGED <<workload, overlapped, faults>>

Finish(h) == Proceed(h, Idle)

(* The process stops, the database or Cloudinary fails, PostgreSQL aborts  *)
(* a transaction: what was committed stays, the rest does not happen.      *)
Abort(h) ==
  /\ req[h] # Idle
  /\ req' = [req EXCEPT ![h] = Idle]
  /\ faults' = faults \cup {"stop"}
  /\ UNCHANGED <<tables, remote, workload, overlapped>>
=============================================================================
