CONSTANTS
  t1 = t1
  t2 = t2
  t3 = t3
  c1 = c1
  c2 = c2
  NoTask = NoTask
  NoCall = NoCall
  Tasks = {t1, t2}
  Calls = {c1, c2}
  MaxTaskDepth = 2
  MaxBlockers = 1
SPECIFICATION FairSpec
CONSTRAINT CreatedInOrder
INVARIANT TypeOK
INVARIANT RowsConsistent
INVARIANT NoCircularWait
PROPERTY CallsReturn
