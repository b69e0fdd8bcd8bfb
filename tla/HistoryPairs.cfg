CONSTANTS
  Parts = {"transcripts"}
  None = None
  c1 = c1
  c2 = c2
  u1 = u1
  u2 = u2
  u3 = u3
  i1 = i1
  i2 = i2
  q1 = q1
  q2 = q2
  t1 = t1
  t2 = t2
  t3 = t3
  Slots = {q1, q2}
  Sessions = {u1, u2, u3}
  Users = {u1, u2, u3}
  UserOf <- OwnUser
  KeyOwners = {u2, u3}
  TenantLimit = 1
  UserLimit = None
  ActiveLimit = 1
  MaxSteps <- StepsOfUser
  Interrupts = {i1, i2}
  Resumers = {q1, q2}
  MaxEvents = 2
  Servers = {c1, c2}
  McpCallers = {q1, q2}
  TimedVersions = {2}
  MaxWrites = 2
  MaxClients = 3
  Readers = {q1, q2}
  Writers = {u1}
  CacheTTL = 2
  LoadTicks = 1
  MaxChanges = 2
  Rounds <- RoundsOfTools
  ReturnDirectly = {"w"}
  Widgets = {}
  StepLimits = {0, 3}
  UnlimitedBackstop = 8
  ErrLoopThreshold = 2
  SameArgsThreshold = 2
  CorrectionBudget = 1
  TightWindow = 1
  MaxTurnDuration = 5
  Delays = {1, 2}
  RoundsOfCalls <- OneOrTwoCalls
  Sizes = {1, 3}
  LiveBudget = 6
  StoredBudget = 7
  Modes = {"sequential"}
  MaxTurns = 3
  MaxRounds = 1
  AgentKeys = {u1}
  Delegations = {t1, t2, t3}
  MaxModeChanges = 1
  Documents = {i1, i2}
  Removers = {q1, q2}
  MaxChunks = 2
SPECIFICATION ServicesSpec
CHECK_DEADLOCK FALSE
INVARIANT PairingPreserved
