CONSTANTS
  v1 = v1
  v2 = v2
  Visits = {v1, v2}
  Plans <- SmallPlans
  Technicians = {t1, t2}
  MaxRewrites = 1
  None = None
SYMMETRY TechnicianSymmetry
SPECIFICATION Spec
INVARIANTS TypeOK OneActivityAtATime QcMeansVisitOver NeverFinishedAndPaused
PROPERTIES AmcVisitsAreRecorded
CHECK_DEADLOCK FALSE
