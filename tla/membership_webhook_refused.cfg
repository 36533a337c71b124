\* The instance of membership_liveness. A customer pays for two subscriptions:
\* the capture of the second one is refused by the unique index for ever.
SPECIFICATION FairSpec
CONSTANTS
  Users = {u1}
  Plans = {p1}
  Subs = {s1, s2}
  Orders = {o1, o2}
  Prices <- OnePrice
  MemberHandlers = {m1}
  OrderHandlers = {c1}
  HookHandlers = {w1}
PROPERTY CaptureAcknowledged
\* The system rests once every plan is removed and nothing is in flight.
CHECK_DEADLOCK FALSE
