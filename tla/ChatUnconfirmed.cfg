CONSTANTS
  r1 = r1
  r2 = r2
  r3 = r3
  s1 = s1
  s2 = s2
  NoOne = NoOne
  Sessions = {s1}
  Requests = {r1, r2}
  SessionOf <- OneSession
  SubscriberBuffer = 8
  MessageBuffer = 2
  Resumes = {}
  Confirming = {r1, r2}
  MaxChunks = 0
  Overlap = TRUE
  Cancels = {}
SPECIFICATION Spec
INVARIANT ConfirmedByUser
CHECK_DEADLOCK FALSE
