CONSTANTS
  Chunk = 1
  AppThreads = {p1, p2}
  Targets = {"x", "y"}
  MaxSlots = 2
  MaxTables = 2
  MaxDrops = 2
  MaxDown = 1
  Modes = {"request", "listen", "file"}
SPECIFICATION Spec
INVARIANTS  ClearMeansQuiet AnsweredOnce 
PROPERTIES KeepsAsking CollectorEnds
\* the thread ends after a close
CHECK_DEADLOCK FALSE
