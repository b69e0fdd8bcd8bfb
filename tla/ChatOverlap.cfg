CONSTANTS
  r1 = r1
  r2 = r2
  r3 = r3
  s1 = s1
  s2 = s2
  NoOne = NoOne
  Sessions = {s1, s2}
  Requests = {r1, r2, r3}
  SessionOf <- TwoSessions
  SubscriberBuffer = 8
  MessageBuffer = 2
  Resumes = {r1, r2}
  Confirming = {}
  MaxChunks = 1
  Overlap = TRUE
  Cancels = {s2}
SPECIFICATION Spec
SYMMETRY SymmetricPair
CONSTRAINT TwoRequests
CONSTRAINT ChunksAmidSubscribers
INVARIANT TypeOK
INVARIANT RegisteredChannelsOpen
INVARIANT TurnRunsOnce
INVARIANT TurnOrder
INVARIANT SessionIsolation
CHECK_DEADLOCK FALSE
