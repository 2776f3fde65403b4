SPECIFICATION FairSpec
CONSTANTS
  TableLen = 3
  Data = {"a", "b"}
  PBUF_POOL_SIZE = 2
  RW_MAX_SIZE = 2
  U64 = 64
  MaxSize = 5
  MaxCount = 2
  Addrs = {0, 8}
  Callers = {c1, c2}
  NoCaller = NoCaller
  WORD = 4
  BYTE = 2
  MaxBits = 9
INVARIANTS
  ClockProgrammed
  RoundIsOver
  ReceivedIsSeen
  PbufsAccounted
  ExitZeroMeansAll
  ShiftIsExact
PROPERTIES
  LoopGoesOn
  ServerIsAsked
CHECK_DEADLOCK FALSE
