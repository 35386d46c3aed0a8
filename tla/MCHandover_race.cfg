CONSTANTS
  Cards = {c1}
  MaxSaves = 2
  Requests = {q1, q2}
  Amounts = {0, 2}
  PaymentAmounts = {1, 2}
  MaxInvoices = 2
  MaxDeliveries = 2
SYMMETRY SlotSymmetry
SPECIFICATION Spec
INVARIANTS TypeOK PaidIsCovered PostedIsPaid
PROPERTIES HandoverCovered NoDoubleClaim
CHECK_DEADLOCK FALSE
