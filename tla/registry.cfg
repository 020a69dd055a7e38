SPECIFICATION FairSpec
CONSTANTS
  c1 = c1
  c2 = c2
  Clients = {c1, c2}
  NoClient = NoClient
  MaxEntries = 1
  MaxActive = 1
  Nonces <- SmallNonces
  MaxFaults = 2
INVARIANTS
  AnswersFromFile
  AcknowledgedStays
PROPERTIES
  RevocationBlocks
  NeverBusy
  EnrollmentRetried
  WorkerReturns
