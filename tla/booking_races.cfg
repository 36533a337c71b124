\* Two administrators work on two bookings at once.
SPECIFICATION Spec
CONSTANTS
  Bookings = {b1, b2}
  Talents = {t1}
  SubmitHandlers = {c1}
  AdminHandlers = {a1, a2}
  MaxRows = 4
SYMMETRY Symmetry
INVARIANTS TypeOK HistoryEndsInStatus RowsAreLegal PreviousStatusWasHeld
