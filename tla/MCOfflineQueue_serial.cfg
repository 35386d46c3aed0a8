CONSTANTS
  Kinds = {startVisit, needSpare}
  Taps = {t1}
  Serial = TRUE
  MaxActions = 3
SPECIFICATION Spec
INVARIANTS TypeOK
PROPERTIES OutboxSpec LastQueuedWins ReplayFinishes
