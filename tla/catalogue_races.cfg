SPECIFICATION Spec
CONSTANTS
  Cities = {city1, city2}
  Locations = {loc1}
  Categories = {cat1}
  SubCategories = {sub1, sub2}
  Talents = {t1, t2, t3}
  Folders = {f1, f2}
  Assets = {a1, a2}
  Slots = {s1, s2}
  MAX_FEATURED_TALENTS = 1
  Workloads <- MCWorkloads
SYMMETRY Symmetry
INVARIANTS TypeOK ReferencesExist FeaturedCap TagsAsSaved
PROPERTY RemovalUnfilesNothing
CHECK_DEADLOCK FALSE
