SPECIFICATION Spec
CONSTANTS
  NumJobs = 2
  LastPage = 1
  LeaseTicks = 4
  TimerTicks = 2
  RequestTicks = 1
  PolicyMayChange = TRUE
  MaxFaults = 1
  MaxResumes = 0
INVARIANTS
  WorksUnderLease
  OneLiveLease
PROPERTIES
  KeepsAllButRefusals
