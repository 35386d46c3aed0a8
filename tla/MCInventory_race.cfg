CONSTANTS
  Parts = {p1}
  Jobs = {s1}
  OnSiteJobs = {s1}
  Requests = {q1, q2}
  Quantities = {1}
  MaxReservations = 2
  MaxReceived = 1
  MaxOnHand = 2
SYMMETRY SlotSymmetry
SPECIFICATION Spec
INVARIANTS TypeOK StockNeverOversold RowsWithinRequest
PROPERTIES MovesAreExplained LedgerSpec
CHECK_DEADLOCK FALSE
