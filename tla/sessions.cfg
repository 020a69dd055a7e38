SPECIFICATION Spec
CONSTANTS
  l1 = l1
  l2 = l2
  l3 = l3
  h1 = h1
  h2 = h2
  Logins = {l1, l2, l3}
  Handlers = {h1, h2}
  Idle = Idle
  Capacity = 2
  MaxSessions = 3
  MaxTokens = 2
INVARIANTS
  WithinCapacity
  OneSessionPerLogin
  TokensAccounted
  EndedStaysEnded
SYMMETRY Symmetric

