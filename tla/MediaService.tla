---------------------------- MODULE MediaService ----------------------------
(***************************************************************************)
(* apps/api/src/media/media.service.ts: images are uploaded, replaced,     *)
(* moved to Trash, restored and permanently deleted.  Each touches two     *)
(* systems, PostgreSQL and Cloudinary, which share no transaction.         *)
(* Files that are refused by type, size or dimensions change nothing.      *)
(***************************************************************************)
EXTENDS MediaStore

(* upload, first await: a trashed image with these bytes is restored, a    *)
(* live one is returned as it is, and only new bytes go on to Cloudinary.  *)
UploadFind(h, x) ==
  /\ \A a \in Assets : ~ (HasHash(a, x) /\ Live(a))
  /\ IF \E a \in Assets : HasHash(a, x)
     THEN \E a \in Assets :
            /\ HasHash(a, x)
            /\ Begin(h, "upload", [op |-> "restore", asset |-> a])
     ELSE Begin(h, "upload", [op |-> "upload", hash |-> x])
  /\ UNCHANGED <<tables, remote>>

(* cloudinary.uploadAsset: unique_filename makes every public id new.      *)
UploadRemote(h) ==
  LET r == req[h] IN
  /\ r.op = "upload"
  /\ \E o \in Objects :
       /\ FreshObject(o)
       /\ remote' = [remote EXCEPT ![o] = "upload"]
       /\ Proceed(h, [op |-> "create", hash |-> r.hash, object |-> o])
  /\ UNCHANGED tables

(* Mutant: the catch block reports the conflict and leaves the image.      *)
UploadCreateNoCleanup(h) ==
  LET r == req[h] IN
  /\ r.op = "create"
  /\ IF \E a \in Assets : HasHash(a, r.hash)
     THEN Finish(h) /\ UNCHANGED asset
     ELSE \E a \in Assets :
            /\ FreshAsset(a)
            /\ asset' = [asset EXCEPT ![a] =
                 [deletedAt |-> "null", publicId |-> r.object,
                  contentHash |-> r.hash]]
            /\ Finish(h)
  /\ UNCHANGED <<remote, usages, gallery, heroIds, retired>>

(* The insert, which the unique hash refuses when the same bytes got there *)
(* first: then the catch block takes the image back from Cloudinary.       *)
UploadCreate(h) ==
  LET r == req[h] IN
  /\ r.op = "create"
  /\ IF \E a \in Assets : HasHash(a, r.hash)
     THEN /\ Proceed(h, [op |-> "destroy", object |-> r.object])
          /\ UNCHANGED asset
     ELSE \E a \in Assets :
            /\ FreshAsset(a)
            /\ asset' = [asset EXCEPT ![a] =
                 [deletedAt |-> "null", publicId |-> r.object,
                  contentHash |-> r.hash]]
            /\ Finish(h)
  /\ UNCHANGED <<remote, usages, gallery, heroIds, retired>>

(* The insert commits and its reply is lost: the catch block cannot tell.  *)
UploadReplyLost(h) ==
  LET r == req[h] IN
  /\ r.op = "create"
  /\ \A a \in Assets : ~ HasHash(a, r.hash)
  /\ \E a \in Assets :
       /\ FreshAsset(a)
       /\ asset' = [asset EXCEPT ![a] =
            [deletedAt |-> "null", publicId |-> r.object,
             contentHash |-> r.hash]]
  /\ req' = [req EXCEPT ![h] = [op |-> "destroy", object |-> r.object]]
  /\ faults' = faults \cup {"reply lost"}
  /\ UNCHANGED <<remote, usages, gallery, heroIds, retired, workload, overlapped>>

(* cloudinary.deleteAsset, the last thing upload's catch block, replace    *)
(* and permanentDelete do; its failure is swallowed (Abort).               *)
DestroyObject(h) ==
  LET r == req[h] IN
  /\ r.op = "destroy"
  /\ remote' = [remote EXCEPT ![r.object] = "absent"]
  /\ Finish(h)
  /\ UNCHANGED tables

-----------------------------------------------------------------------------
(* replace, first await: the asset and the public id it has now.           *)
ReplaceFind(h, a, x) ==
  /\ Live(a)
  /\ Begin(h, "replace", [op |-> "replace", asset |-> a, hash |-> x,
                          old |-> asset[a].publicId])
  /\ UNCHANGED <<tables, remote>>

ReplaceRemote(h) ==
  LET r == req[h] IN
  /\ r.op = "replace"
  /\ \E o \in Objects :
       /\ FreshObject(o)
       /\ remote' = [remote EXCEPT ![o] = "replace"]
       /\ Proceed(h, [op |-> "repoint", asset |-> r.asset, hash |-> r.hash,
                      old |-> r.old, object |-> o])
  /\ UNCHANGED tables

(* Mutant: the old image is deleted before the row is known to be moved.   *)
ReplaceUpdateUnchecked(h) ==
  LET r == req[h]
      admitted == /\ HasRow(r.asset)
                  /\ \A b \in Assets \ {r.asset} : ~ HasHash(b, r.hash)
  IN
  /\ r.op = "repoint"
  /\ asset' = IF admitted
              THEN [asset EXCEPT ![r.asset] =
                     [@ EXCEPT !.publicId = r.object, !.contentHash = r.hash]]
              ELSE asset
  /\ IF r.old # None
     THEN Proceed(h, [op |-> "destroy", object |-> r.old])
     ELSE Finish(h)
  /\ UNCHANGED <<remote, usages, gallery, heroIds, retired>>

(* The row is pointed at the new image, wherever the row is by now, then   *)
(* the image it had at the first await is deleted.  A hash another asset   *)
(* has, or a row that is gone, ends the request here with an error.        *)
ReplaceUpdate(h) ==
  LET r == req[h]
      admitted == /\ HasRow(r.asset)
                  /\ \A b \in Assets \ {r.asset} : ~ HasHash(b, r.hash)
  IN
  /\ r.op = "repoint"
  /\ asset' = IF admitted
              THEN [asset EXCEPT ![r.asset] =
                     [@ EXCEPT !.publicId = r.object, !.contentHash = r.hash]]
              ELSE asset
  /\ IF admitted /\ r.old # None
     THEN Proceed(h, [op |-> "destroy", object |-> r.old])
     ELSE Finish(h)
  /\ UNCHANGED <<remote, usages, gallery, heroIds, retired>>

-----------------------------------------------------------------------------
(* remove, first await. *)
RemoveFind(h, a) ==
  /\ Live(a)
  /\ Begin(h, "trash", [op |-> "count", assets |-> {a}])
  /\ UNCHANGED <<tables, remote>>

(* bulkDelete, first await: those of the ids that are live.                *)
BulkDeleteFind(h, ids) ==
  /\ Begin(h, "trash", [op |-> "count", assets |-> {a \in ids : Live(a)}])
  /\ UNCHANGED <<tables, remote>>

(* Mutant: usages are not looked at. *)
CountNothing(h) ==
  LET r == req[h] IN
  /\ r.op = "count"
  /\ Proceed(h, [op |-> "trash", assets |-> r.assets])
  /\ UNCHANGED <<tables, remote>>

(* countUsage: an image in use is refused (remove) or left out (bulkDelete). *)
CountUsage(h) ==
  LET r == req[h]
      deletable == {a \in r.assets : ~ Used(a)}
  IN
  /\ r.op = "count"
  /\ IF deletable = {} THEN Finish(h)
     ELSE Proceed(h, [op |-> "trash", assets |-> deletable])
  /\ UNCHANGED <<tables, remote>>

(* deletedAt is set, whatever happened since the count.                    *)
TrashUpdate(h) ==
  LET r == req[h] IN
  /\ r.op = "trash"
  /\ asset' = [a \in Assets |->
                 IF a \in r.assets /\ HasRow(a)
                 THEN [asset[a] EXCEPT !.deletedAt = "set"] ELSE asset[a]]
  /\ Finish(h)
  /\ UNCHANGED <<remote, usages, gallery, heroIds, retired>>

-----------------------------------------------------------------------------
RestoreFind(h, a) ==
  /\ Trashed(a)
  /\ Begin(h, "restore", [op |-> "restore", asset |-> a])
  /\ UNCHANGED <<tables, remote>>

(* deletedAt back to null, for restore and for an upload of trashed bytes. *)
RestoreUpdate(h) ==
  LET r == req[h] IN
  /\ r.op = "restore"
  /\ asset' = IF HasRow(r.asset)
              THEN [asset EXCEPT ![r.asset].deletedAt = "null"] ELSE asset
  /\ Finish(h)
  /\ UNCHANGED <<remote, usages, gallery, heroIds, retired>>

(* permanentDelete, first await: only from Trash. *)
PermanentDeleteFind(h, a) ==
  /\ Trashed(a)
  /\ Begin(h, "purge", [op |-> "purge", asset |-> a, old |-> asset[a].publicId])
  /\ UNCHANGED <<tables, remote>>

(* Mutant: talent_media refers to media_assets without a foreign key.      *)
PermanentDeleteUnchecked(h) ==
  LET r == req[h] IN
  /\ r.op = "purge"
  /\ HasRow(r.asset)
  /\ asset' = [asset EXCEPT ![r.asset] = NoAsset]
  /\ usages' = {u \in usages : u.asset # r.asset}
  /\ IF r.old # None
     THEN Proceed(h, [op |-> "destroy", object |-> r.old])
     ELSE Finish(h)
  /\ UNCHANGED <<remote, gallery, heroIds, retired>>

(* The row goes, in Trash or not, and its usages with it (ON DELETE        *)
(* CASCADE); a talent_media row that refers to it refuses (ON DELETE       *)
(* RESTRICT), and so does a row already gone.                              *)
PermanentDelete(h) ==
  LET r == req[h]
      admitted == /\ HasRow(r.asset)
                  /\ \A m \in MediaIds :
                       InGallery(m) => gallery[m].asset # r.asset
  IN
  /\ r.op = "purge"
  /\ IF admitted
     THEN /\ asset' = [asset EXCEPT ![r.asset] = NoAsset]
          /\ usages' = {u \in usages : u.asset # r.asset}
          /\ IF r.old # None
             THEN Proceed(h, [op |-> "destroy", object |-> r.old])
             ELSE Finish(h)
     ELSE Finish(h) /\ UNCHANGED <<asset, usages>>
  /\ UNCHANGED <<remote, gallery, heroIds, retired>>

MediaNext ==
  \E h \in Slots :
    \/ \E x \in Hashes : UploadFind(h, x)
    \/ UploadRemote(h)
    \/ UploadCreate(h)
    \/ UploadReplyLost(h)
    \/ DestroyObject(h)
    \/ \E a \in Assets, x \in Hashes : ReplaceFind(h, a, x)
    \/ ReplaceRemote(h)
    \/ ReplaceUpdate(h)
    \/ \E a \in Assets : RemoveFind(h, a)
    \/ \E ids \in SUBSET Assets : BulkDeleteFind(h, ids)
    \/ CountUsage(h)
    \/ TrashUpdate(h)
    \/ \E a \in Assets : RestoreFind(h, a)
    \/ RestoreUpdate(h)
    \/ \E a \in Assets : PermanentDeleteFind(h, a)
    \/ PermanentDelete(h)
=============================================================================
