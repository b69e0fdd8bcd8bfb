CONSTANTS
  Parts = {"graph", "transfer", "stream"}
  None = None
  b1 = b1
  b2 = b2
  x = x
  y = y
  e = e
  q1 = q1
  q2 = q2
  u1 = u1
  u2 = u2
  g1 = g1
  g2 = g2
  a1 = a1
  a2 = a2
  m1 = m1
  v1 = v1
  s1 = s1
  builder = builder
  Bundles = {b1, b2}
  EntityTypes = {x, y}
  Ids = {e}
  GraphRequests = {q1, q2}
  Payloads <- SomePayloads
  MaxReleases = 3
  Configurations <- SomeConfigurations
  HandWritten <- SomeFiles
  Masked = "masked"
  Defaults <- SomeDefaults
  DefaultVersion = 1
  PageSize = 2
  MaxEdits = 1
  MaxTransfers = 3
  Senders = {u1}
  Streams = {g1, g2}
  MaxAttempts = 2
CONSTRAINT FewSingleWrites
SPECIFICATION PlatformSpec
CHECK_DEADLOCK FALSE
INVARIANT PlatformTypeOK
INVARIANT ReleaseLandsWhole
INVARIANT GatesHoldAlone
INVARIANT RoundTrip
INVARIANT FileIsTruth
INVARIANT StreamKept
PROPERTY ImportPreserves
PROPERTY SendsReturn
