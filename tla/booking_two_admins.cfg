\* Two updateStatus requests read the same status: the second one to commit
\* makes a transition that is not in STATUS_TRANSITIONS.
SPECIFICATION Spec
CONSTANTS
  Bookings = {b1}
  Talents = {t1}
  SubmitHandlers = {c1}
  AdminHandlers = {a1, a2}
  MaxRows = 4
PROPERTY LifecycleFollowed
