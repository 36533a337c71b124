\* Two requests of any kind at once over the tables and Cloudinary.
SPECIFICATION MCSpec
CONSTANTS
  Assets = {a1, a2}
  Objects = {o1, o2, o3}
  Hashes = {x1, x2}
  Talents = {t1, t2}
  MediaIds = {m1, m2}
  Slots = {h1, h2}
  Workloads <- MCWorkloads
SYMMETRY Symmetry
INVARIANTS TypeOK NoBrokenImage UsageMatchesGallery UploadsNeverOrphaned UsedIsLive HeroProtected
PROPERTY PrimaryKept
CHECK_DEADLOCK FALSE
