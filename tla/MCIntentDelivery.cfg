SPECIFICATION Spec
CONSTANTS
  Intents = {i1}
  Workers = {w1, w2}
  NoWorker = NoWorker
  MaxAttempts = 2
  MaxReconciliations = 2
  MaxJobs = 1
  MaxFailures = 1
  MaxFaults = 1
INVARIANTS NoIntentForgotten
PROPERTIES LateHoldersInert EventuallySettled
CHECK_DEADLOCK FALSE
