CONSTANTS
  r1 = r1
  r2 = r2
  r3 = r3
  s1 = s1
  s2 = s2
  NoOne = NoOne
  Sessions = {s1}
  Requests = {r1, r2}
  SessionOf <- OneSession
  SubscriberBuffer = 8
  MessageBuffer = 2
  Resumes = {r2}
  Confirming = {r2}
  MaxChunks = 1
  Overlap = FALSE
  Cancels = {}
SPECIFICATION FairSpec
INVARIANT ConfirmedByUser
INVARIANT OwnTurnOnly
INVARIANT WholeTurn
PROPERTY StreamCloses
CHECK_DEADLOCK FALSE
