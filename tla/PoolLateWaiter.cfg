CONSTANTS
  Parts = {"pool"}
  a1 = a1
  a2 = a2
  b1 = b1
  b2 = b2
  t1 = t1
  w1 = w1
  NoTask = NoTask
  Agents = {a1}
  Tasks = {t1}
  Waiters = {w1}
  NoBreaker = NoBreaker
  ToolUsers = {a1, a2}
  Breakers = {b1, b2}
  Threshold = 2
  Window = 2
  ResetInterval = 2
SPECIFICATION AgentsSpec
PROPERTY ResumeAfterEvents
