SPECIFICATION Spec
CONSTANTS
  w1 = w1
  w2 = w2
  Executors = {w1, w2}
  NumJobs = 1
  Resource <- SharedSink
  LastPage = 2
  Through <- ThroughFull
  MaxAttempts = 1
  MaxRestarts <- NoRestarts
  PatientOperator = FALSE
  MaxFaults = 0
  MaxResumes = 1
INVARIANTS
  SerializedSinks
