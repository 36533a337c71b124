---------------------------- MODULE MCCatalogue ----------------------------
(* Catalogue for TLC. *)
EXTENDS Catalogue, TLC

Work(ops, fields, rows) == [ops |-> ops, fields |-> fields, talents |-> rows]

MCWorkloads ==
  {Work({"talents"}, {"isFeatured"}, 3),
   Work({"talents", "taxonomy"}, {"categories"}, 1),
   Work({"talents", "taxonomy"}, {"subCategories"}, 1),
   Work({"talents", "places"}, {"city", "location"}, 1),
   Work({"talents", "places"}, {"preferredCities"}, 1),
   Work({"folders"}, {}, 0)}

(* Ids and slots are interchangeable. *)
Symmetry ==
  Permutations(Talents) \cup Permutations(Slots) \cup Permutations(Folders)
=============================================================================
