SPECIFICATION FairSpec
CONSTANTS
  c1 = c1
  c2 = c2
  Calls = {c1, c2}
  Brings <- MCBrings
  Ring = 4
  Block = 3
  BlenMax = 2
  Faults = {"align first", "align later", "pin", "refuse", "queue first",
            "queue later", "first descriptor"}
INVARIANTS
  AnsweredExactly
  RingIntact
  MemoryKept
PROPERTIES
  QueuedIsAnswered
CHECK_DEADLOCK FALSE
