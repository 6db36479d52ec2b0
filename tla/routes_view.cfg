SPECIFICATION FairSpec
CONSTANTS
  Tbl = {t1, t2, t3}
  Rte = {r1, r2}
  Key = {k1}
  TypeKey = k1
  Val = {v1, v2}
  Meid = {m1}
  Owner = {o1}
  Senders = {s1, s2}
  NIL = NIL
  MaxUpdates = 1
  CloneFails = FALSE
  LostStart = FALSE
PROPERTIES ImplementsView DrainEnds
