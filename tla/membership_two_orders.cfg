\* Two concurrent createOrder requests of one customer.
SPECIFICATION Spec
CONSTANTS
  Users = {u1}
  Plans = {p1}
  Subs = {s1}
  Orders = {o1, o2}
  Prices <- OnePrice
  MemberHandlers = {m1}
  OrderHandlers = {c1, c2}
  HookHandlers = {w1}
INVARIANT OneOrderInFlight
\* The system rests once every plan is removed and nothing is in flight.
CHECK_DEADLOCK FALSE
