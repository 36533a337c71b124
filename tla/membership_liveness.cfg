\* One customer, sequential createOrder requests, one webhook at a time; no
\* symmetry, since the properties are temporal.
SPECIFICATION FairSpec
CONSTANTS
  Users = {u1}
  Plans = {p1}
  Subs = {s1, s2}
  Orders = {o1, o2}
  Prices <- OnePrice
  MemberHandlers = {m1}
  OrderHandlers = {c1}
  HookHandlers = {w1}
PROPERTY EntitlementKept
\* The system rests once every plan is removed and nothing is in flight.
CHECK_DEADLOCK FALSE
