SPECIFICATION Spec
CONSTANTS
  t1 = t1
  t2 = t2
  Technicians = {t1, t2}
  None = None
  MaxTime = 4
  MaxPauses = 3
SYMMETRY TechnicianSymmetry
INVARIANTS TypeOK ExcludedWithinElapsed NobodyTwice CustodyIsAssignee
CHECK_DEADLOCK FALSE
