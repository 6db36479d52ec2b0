SPECIFICATION Spec
CONSTANTS
  NElements = 3
  Producers = {p1, p2}
  Consumers = {c1, c2}
  Msg = {m1, m2, m3, m4}
  NIL = NIL
  SplitIndex = FALSE
  EventfdMax = 4
  RGate = "try"
  WGate = TRUE
INVARIANTS NoOverwrite PfdCovers
PROPERTIES RefusedOnlyWhenFull NilOnlyWhenEmpty ImplementsFifo
SYMMETRY MsgSymmetry
