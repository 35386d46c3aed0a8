CONSTANTS
  Requests = {q1}
  MaxEstimates = 3
SPECIFICATION Spec
INVARIANTS TypeOK OneActiveEstimate RwrIsNoDeadEnd
PROPERTIES WorkStartsAgreed DecidedIsFinal
CHECK_DEADLOCK FALSE
