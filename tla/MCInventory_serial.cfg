CONSTANTS
  Parts = {p1, p2}
  Jobs = {w1, s1}
  OnSiteJobs = {s1}
  Requests = {q1}
  Quantities = {1, 2}
  MaxReservations = 2
  MaxReceived = 1
  MaxOnHand = 3
SPECIFICATION Spec
INVARIANTS NothingWithheld BooksMatchReservations PassedJobsAreSettled RowsTellOneStory WaitingIsForParts
PROPERTIES TerminalIsFinal
CHECK_DEADLOCK FALSE
