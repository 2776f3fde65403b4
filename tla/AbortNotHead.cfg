SPECIFICATION Spec
CONSTANTS
  s1 = s1
  s2 = s2
  a1 = a1
  a2 = a2
  Syncs = {s1}
  Asyncs = {a1}
  NoXfer = NoXfer
  DescNum <- MCDescNum
  Parts <- MCParts
  U32 = 16
  MayTimeout = TRUE
  MayFail = FALSE
  MayOffline = FALSE
  BusyRace = FALSE
  StopDrains = FALSE
INVARIANTS
  QueueIsLive
