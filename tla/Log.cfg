SPECIFICATION FairSpec
CONSTANTS
  gui = gui
  t1 = t1
  Gui = gui
  Threads <- MCThreads
  QueueSize = 1
  Levels = {"info"}
  MaxLogs = 1
  OverflowPolicy = "block"
INVARIANTS
  NobodyLeftBehind
  ExitKeepsMessages
PROPERTIES
  CallsReturn
  MessagesReachDisk
  ExitEnds
CHECK_DEADLOCK FALSE
