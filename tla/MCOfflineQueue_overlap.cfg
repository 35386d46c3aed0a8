CONSTANTS
  Kinds = {startVisit, needSpare}
  Taps = {t1}
  Serial = FALSE
  MaxActions = 2
SPECIFICATION Spec
PROPERTIES OfflineSyncIsHarmless
CHECK_DEADLOCK FALSE
