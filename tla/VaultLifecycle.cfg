\* Two nodes, two mints, two finalizations at a time, a dropped handler and desktop restarts.
CONSTANTS
  Nodes = {n1, n2}  Tokens = {t1, t2}  Metas = {m1}
  Publishers = {p1}  Finalizers = {f1, f2}
  Pending = Pending  None = None  MaxDrops = 1
CHECK_DEADLOCK FALSE
SYMMETRY Symmetry
SPECIFICATION Spec
INVARIANTS TypeOK LinkedIsReadable ErasedMeansGone MintRecoverable
