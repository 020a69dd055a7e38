SPECIFICATION FairSpec
CONSTANTS
  NumJobs = 1
  LastPage = 2
  LeaseTicks = 6
  TimerTicks = 3
  RequestTicks = 2
  PolicyMayChange = FALSE
  MaxFaults = 2
  MaxResumes = 1
INVARIANTS
  TypeOK
  WorksUnderLease
  NoSilentRestart
PROPERTIES
  KeepsPromise
  CancelTakesEffect
  QueuedJobSettles
