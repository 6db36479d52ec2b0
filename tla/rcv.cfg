SPECIFICATION RcvFairSpec
CONSTANTS
  NElements = 3
  Producers = {p1}
  Consumers = {c1, c2}
  Msg = {m1, m2, m3}
  NIL = NIL
  EventfdMax = 4
  RGate = "block"
  WGate = FALSE
  SplitIndex = TRUE
  Modes = {"block", "timed"}
INVARIANTS SemCounts
PROPERTIES WaitGetsMessage MessageReceived
