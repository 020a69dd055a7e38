SPECIFICATION FairSpec
CONSTANTS
  w1 = w1
  w2 = w2
  Executors = {w1, w2}
  NumJobs = 2
  Resource <- SharedSink
  LastPage = 1
  Through <- ThroughOne
  MaxAttempts = 1
  MaxRestarts = 1
  PatientOperator = TRUE
  MaxFaults = 1
  MaxResumes = 1
INVARIANTS
  ExactCounts
  SerializedSinks
PROPERTIES
  KeepsPromise
  CancelTakesEffect
  QueuedJobSettles
