SPECIFICATION Spec
CONSTANTS
  Tbl = {t1, t2, t3}
  Rte = {r1, r2, r3, r4}
  Key = {k1, k2}
  TypeKey = k1
  Val = {v1}
  Meid = {m1}
  Owner = {o1}
  Senders = {s1, s2}
  NIL = NIL
  MaxUpdates = 2
  CloneFails = TRUE
  LostStart = TRUE
INVARIANTS HeldIsStable RefsExact TablesAccounted
PROPERTIES OtherSpaceKept
SYMMETRY Symm
