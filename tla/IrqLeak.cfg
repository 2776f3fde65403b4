SPECIFICATION Spec
CONSTANTS
  MAX_USER_IRQ = 2
  XDMA_CHANNEL_NUM_MAX = 2
  Faults = {"later irq"}
INVARIANTS
  NothingLeft
CHECK_DEADLOCK FALSE
