SPECIFICATION HSpec
CONSTANTS
  gui = gui
  t1 = t1
  Gui = gui
  Threads <- MCThreads
  QueueSize = 2
  Levels = {"err"}
  MaxLogs = 2
  MaxPosted = 4
  OverflowPolicy = "overrun_oldest"
INVARIANT
  QueueInv
PROPERTY
  InOrder
CHECK_DEADLOCK FALSE
