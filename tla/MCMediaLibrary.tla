--------------------------- MODULE MCMediaLibrary ---------------------------
(* MediaLibrary for TLC. *)
EXTENDS MediaLibrary, TLC

MCWorkloads ==
  {{"upload", "replace", "trash", "restore", "purge"},
   {"gallery", "trash", "purge"},
   {"gallery", "retire"},
   {"hero", "trash", "restore", "purge"}}

(* Galleries start with every image uploaded: a missing or a legacy one    *)
(* is no different to them.                                                *)
MCInit ==
  /\ Init
  /\ "gallery" \in workload =>
       \A a \in Assets : HasRow(a) /\ asset[a].publicId # None

MCSpec == MCInit /\ [][Next]_mediaVars

(* Ids, contents and slots are interchangeable. *)
Symmetry ==
  Permutations(Assets) \cup Permutations(Talents) \cup Permutations(Objects)
    \cup Permutations(Hashes) \cup Permutations(MediaIds) \cup Permutations(Slots)
=============================================================================
