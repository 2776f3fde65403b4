SPECIFICATION FairSpec
CONSTANTS
  s1 = s1
  s2 = s2
  a1 = a1
  a2 = a2
  Syncs = {s1}
  Asyncs = {a1, a2}
  NoXfer = NoXfer
  DescNum <- MCDescNum
  Parts <- MCParts
  U32 = 16
  MayTimeout = FALSE
  MayFail = TRUE
  MayOffline = FALSE
  BusyRace = FALSE
  StopDrains = TRUE
INVARIANTS
  CompletedMeansMoved
  QueueIsLive
  NoLostCompletion
PROPERTIES
  QueuedSettles
  ImplementsContract
CHECK_DEADLOCK FALSE
