SPECIFICATION FairSpec
CONSTANTS
  Xid = {x1, x2, x3, x4}
  NIL = NIL
  Waits = {"timed"}
  Interrupts = FALSE
CHECK_DEADLOCK FALSE
INVARIANTS ResponseIsOwn
