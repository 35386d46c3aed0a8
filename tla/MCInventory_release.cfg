CONSTANTS
  Parts = {p1}
  Quantities = {1}
  MaxReservations = 2
  MaxReceived = 2
  MaxOnHand = 3
  Jobs = {w1, w2}
  OnSiteJobs = {}
  Requests = {q1}
SPECIFICATION Spec
INVARIANT HeldIsWithheld
CHECK_DEADLOCK FALSE
