SPECIFICATION Spec
CONSTANTS
  NumJobs = 3
  Keys <- OneKey
  Specs <- TwoSpecs
  MaxLines = 3
INVARIANTS
  AnswersKept
