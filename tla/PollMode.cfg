SPECIFICATION FairSpec
CONSTANTS
  e1 = e1
  e2 = e2
  x1 = x1
  y1 = y1
  y2 = y2
  Engines = {e1, e2}
  Blocking = {e1}
  Xfers = {x1, y1, y2}
  EngineOf <- MCEngineOf
  DescNum <- MCDescNum
  MaxThreads = 1
  Faulty = {e2}
INVARIANTS
  GoneIsUnused
PROPERTIES
  PolledKeepsContract
  PolledSettles
CHECK_DEADLOCK FALSE
