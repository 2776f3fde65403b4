SPECIFICATION Spec
CONSTANTS
  MAX_USER_IRQ = 16
  XDMA_CHANNEL_NUM_MAX = 4
  Faults = {"xdev", "enabled", "regions", "bars", "mask", "vectors", "first irq", "later irq", "chrdev", "group head", "inside group", "slot reset", "online irq", "ioctl"}
INVARIANTS
  CleanUnlessLeaky
  ReleasedOnce
  InService
CHECK_DEADLOCK FALSE
