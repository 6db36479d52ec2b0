SPECIFICATION MixedSpec
CONSTANTS
  NElements = 3
  Producers = {p1}
  Consumers = {c1, c2}
  Msg = {m1, m2, m3, m4}
  NIL = NIL
  EventfdMax = 4
  RGate = "block"
  WGate = FALSE
  SplitIndex = FALSE
  Modes = {"block", "poll"}
SYMMETRY MsgSymmetry
INVARIANTS NotStranded
