SPECIFICATION Spec
CONSTANTS
  Clerks = {k1, k2}
  Bookings = {b1, b2, b3}
  Centres = {c1}
  Technicians = {t1}
  MaxTime = 4
  Starts = {0, 2}
  Durations = {3}
  Break = {}
  Capacity = 1
  MaxRewrites = 1
  DailyCap = 3
  Midnight = 0
  BookedFor = {t1}
  None = None
SYMMETRY Symmetry
INVARIANTS RushIsBounded PickedNeverClash
CHECK_DEADLOCK FALSE
