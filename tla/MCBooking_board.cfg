SPECIFICATION Spec
CONSTANTS
  Clerks = {k1}
  Bookings = {b1, b2}
  Centres = {c1}
  Technicians = {t1}
  MaxTime = 2
  Starts = {0, 2}
  Durations = {3}
  Break = {}
  Capacity = 2
  MaxRewrites = 0
  DailyCap = 2
  Midnight = 0
  BookedFor = {None}
  None = None
SYMMETRY Symmetry
INVARIANTS NoDoubleBooking
CHECK_DEADLOCK FALSE
