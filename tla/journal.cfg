SPECIFICATION Spec
CONSTANTS
  NumJobs = 3
  Keys <- TwoKeys
  Specs <- TwoSpecs
  MaxLines = 5
INVARIANTS
  ChainIntact
  AppendsLast
  AnswersOutlive
PROPERTIES
  KeepsContract
