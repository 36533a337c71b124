\* Two prices and two concurrent requests of MembershipService, so that a plan
\* changes between the awaits of subscribe; createOrder requests are sequential.
SPECIFICATION Spec
CONSTANTS
  Users = {u1}
  Plans = {p1}
  Subs = {s1, s2}
  Orders = {o1, o2}
  Prices <- MCPrices
  MemberHandlers = {m1, m2}
  OrderHandlers = {c1}
  HookHandlers = {w1}
SYMMETRY Symmetry
INVARIANTS ActiveIsPaidInFull AmountsAgree OneOrderInFlight
\* The system rests once every plan is removed and nothing is in flight.
CHECK_DEADLOCK FALSE
