SPECIFICATION Spec
CONSTANTS
  w1 = w1
  w2 = w2
  Executors = {w1, w2}
  NumJobs = 1
  Resource <- SharedSink
  LastPage = 3
  Through <- ThroughEmptyMiddle
  MaxAttempts = 2
  MaxRestarts = 1
  PatientOperator = FALSE
  MaxFaults = 2
  MaxResumes = 2
SYMMETRY ExecutorSymmetry
INVARIANTS
  NoPageSkipped
  NoOrphan
