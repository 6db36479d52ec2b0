SPECIFICATION FairSpec
CONSTANTS
  Xid = {x1, x2, x3}
  NIL = NIL
  Waits = {"timed", "forever"}
  Interrupts = TRUE
CHECK_DEADLOCK FALSE
INVARIANTS ResponseMatches NoResponseLost NoUseAfterFree
PROPERTIES ResponseReturned TimedCallReturns
