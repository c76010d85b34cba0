SPECIFICATION Spec
CONSTANTS
  Nodes = {n1, n2}
  Tokens = {t1}
  Metas = {m1}
  Publishers = {p1}
  Finalizers = {f1}
  Pending = Pending
  MaxDrops = 0
  None = None
PROPERTY TombstoneIsFinal
CHECK_DEADLOCK FALSE
