---------------------------- MODULE MediaFolders ----------------------------
(***************************************************************************)
(* The folders of apps/api/src/media/media.service.ts, and the operations  *)
(* that put an asset into one.  A trashed asset keeps its folder, so trash *)
(* and restore (MediaService) make no difference here.                     *)
(***************************************************************************)
EXTENDS CatalogueStore

FolderIds == {f \in Folders : folders[f] # None}

(* findFolderOrThrow of a folderId or parentId, when one is given.         *)
Found(f) == f \in FolderIds \cup {Root}

FreshFolder(f) ==
  /\ f \notin FolderIds
  /\ \A k \in Slots : \A field \in DOMAIN req[k] \cap {"folder", "parent"} :
       req[k][field] # f

FolderCreateFind(h, parent) ==
  /\ Found(parent)
  /\ Begin(h, "folders", [op |-> "mkdir", parent |-> parent])
  /\ UNCHANGED <<places, taxonomy, talents, media, saved>>

FolderCreate(h) ==
  LET r == req[h] IN
  /\ r.op = "mkdir"
  /\ Found(r.parent)
  /\ \E f \in Folders : /\ FreshFolder(f)
                        /\ folders' = [folders EXCEPT ![f] = r.parent]
  /\ Finish(h)
  /\ UNCHANGED <<places, taxonomy, talents, assets, saved>>

(* updateFolder refuses a folder as its own parent, not a descendant.      *)
FolderUpdateFind(h, f, parent) ==
  /\ f \in FolderIds
  /\ Found(parent)
  /\ parent # f
  /\ Begin(h, "folders", [op |-> "mvdir", folder |-> f, parent |-> parent])
  /\ UNCHANGED <<places, taxonomy, talents, media, saved>>

FolderUpdate(h) ==
  LET r == req[h] IN
  /\ r.op = "mvdir"
  /\ r.folder \in FolderIds
  /\ Found(r.parent)
  /\ folders' = [folders EXCEPT ![r.folder] = r.parent]
  /\ Finish(h)
  /\ UNCHANGED <<places, taxonomy, talents, assets, saved>>

FolderRemoveFind(h, f) ==
  /\ f \in FolderIds
  /\ Begin(h, "folders", [op |-> "rmdir", folder |-> f, counted |-> {}])
  /\ UNCHANGED <<places, taxonomy, talents, media, saved>>

(* Promise.all of the two counts, which may run in any order; one that is  *)
(* not zero refuses.                                                       *)
FolderCountAssets(h) ==
  LET r == req[h] IN
  /\ r.op = "rmdir"
  /\ \A a \in Assets : assets[a] # r.folder
  /\ Proceed(h, [r EXCEPT !.counted = @ \cup {"assets"}])
  /\ UNCHANGED <<places, taxonomy, talents, media, saved>>

(* Mutant: the sub-folders are not counted. *)
FolderCountNoFolders(h) ==
  LET r == req[h] IN
  /\ r.op = "rmdir"
  /\ Proceed(h, [r EXCEPT !.counted = @ \cup {"folders"}])
  /\ UNCHANGED <<places, taxonomy, talents, media, saved>>

FolderCountFolders(h) ==
  LET r == req[h] IN
  /\ r.op = "rmdir"
  /\ \A f \in Folders : folders[f] # r.folder
  /\ Proceed(h, [r EXCEPT !.counted = @ \cup {"folders"}])
  /\ UNCHANGED <<places, taxonomy, talents, media, saved>>

(* ON DELETE SET NULL of folder_id and parent_id: what came into the       *)
(* folder since it was counted is left without one.                        *)
FolderRemove(h) ==
  LET r == req[h]
      Unfiled(x) == IF x = r.folder THEN Root ELSE x
  IN
  /\ r.op = "rmdir"
  /\ r.counted = {"assets", "folders"}
  /\ r.folder \in FolderIds
  /\ folders' = [f \in Folders |-> IF f = r.folder THEN None ELSE Unfiled(folders[f])]
  /\ assets' = [a \in Assets |-> Unfiled(assets[a])]
  /\ Finish(h)
  /\ UNCHANGED <<places, taxonomy, talents, saved>>

-----------------------------------------------------------------------------
(* upload, update and bulkMove: the folder is found first; ids is the new  *)
(* asset's, one asset's, or several.  An upload inserts a row, the others  *)
(* skip or fail on a row that is not there.                                *)
FileFind(h, f, ids) ==
  /\ Found(f)
  /\ Begin(h, "folders", [op |-> "file", folder |-> f, assets |-> ids])
  /\ UNCHANGED <<places, taxonomy, talents, media, saved>>

FileAssets(h) ==
  LET r == req[h] IN
  /\ r.op = "file"
  /\ Found(r.folder)
  /\ assets' = [a \in Assets |-> IF a \in r.assets THEN r.folder ELSE assets[a]]
  /\ Finish(h)
  /\ UNCHANGED <<places, taxonomy, talents, folders, saved>>

FoldersNext ==
  \E h \in Slots :
    \/ \E parent \in Folders \cup {Root} :
         \/ FolderCreateFind(h, parent)
         \/ \E f \in Folders : FolderUpdateFind(h, f, parent)
         \/ \E ids \in SUBSET Assets : FileFind(h, parent, ids)
    \/ FolderCreate(h)
    \/ FolderUpdate(h)
    \/ \E f \in Folders : FolderRemoveFind(h, f)
    \/ FolderCountAssets(h)
    \/ FolderCountFolders(h)
    \/ FolderRemove(h)
    \/ FileAssets(h)
=============================================================================
