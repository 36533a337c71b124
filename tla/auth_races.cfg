\* Two requests of any kind at once over accounts and sessions.
SPECIFICATION MCSpec
CONSTANTS
  Users = {u1, u2}
  Admins = {a1, a2}
  Emails = {e1, e2}
  Passwords = {p1, p2}
  Tokens = {k1, k2, k3}
  Browsers = {b1, b2}
  Slots = {h1, h2}
  Workloads <- MCWorkloads
  LOCKOUT_THRESHOLD = 5
  MaxWrong = 6
SYMMETRY Symmetry
INVARIANTS TypeOK LockNeedsFailures RotationIsBounded CookieStaysValid LogoutEndsSession
PROPERTIES LockoutFollowed
CHECK_DEADLOCK FALSE
