SPECIFICATION Spec
CONSTANTS
  Pages = {"session", "list", "places", "tags", "dialog", "gallery",
           "site", "checkout"}
  Fetches = {f1, f2}
  MaxTokens = 5
  Rows = {1, 2}
  Found = {2}
  PER_PAGE = 1
  Actions = {"create", "deactivate"}
  MaxLoads = 2
  city1 = city1
  city2 = city2
  loc1 = loc1
  loc2 = loc2
  cat1 = cat1
  cat2 = cat2
  sub1 = sub1
  sub2 = sub2
  Cities = {city1, city2}
  Locations = {loc1, loc2}
  Categories = {cat1, cat2}
  SubCategories = {sub1, sub2}
  CityOf <- MCCityOf
  ParentOf <- MCParentOf
  Active <- MCActive
  MAX_POLLS = 5
  Entries = {e1, e2}
  Contents = {v1, v2}
  Saves = {s1, s2}
  Images = {i1, i2, i3}
  Handlers = {h1, h2}
  Members = {m1, m2}
  Administrators = {a1}
INVARIANTS TypeOK CallsOutliveTheToken SignedOutTabIsClean ShownIsStored FormConsistent BookedAsShown ListNamesItsOwner
PROPERTY WaitingEnds
