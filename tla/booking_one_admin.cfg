\* One updateStatus request at a time, to the end of every lifecycle.
SPECIFICATION Spec
CONSTANTS
  Bookings = {b1, b2}
  Talents = {t1, t2}
  SubmitHandlers = {c1, c2}
  AdminHandlers = {a1}
  MaxRows = 6
PROPERTY LifecycleFollowed
