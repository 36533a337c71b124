\* Two customers, two subscriptions, two orders, two createOrder requests and
\* two webhook deliveries at once; administrators and subscribe take turns.
SPECIFICATION Spec
CONSTANTS
  Users = {u1, u2}
  Plans = {p1}
  Subs = {s1, s2}
  Orders = {o1, o2}
  Prices <- OnePrice
  MemberHandlers = {m1}
  OrderHandlers = {c1, c2}
  HookHandlers = {w1, w2}
SYMMETRY Symmetry
INVARIANTS TypeOK OneActivePerUser CapturedIsActive AcknowledgedIsActive
PROPERTY EntitlementSafe
\* The system rests once every plan is removed and nothing is in flight.
CHECK_DEADLOCK FALSE
