\* Uploads and deletes of one fragment, with the clock running past the tokens' expiry.
CONSTANTS
  k1 = k1  k2 = k2  n1 = n1
  Keys = {k1, k2}  UnsafeKeys = {k2}
  Bodies = {b1, b2}  Oversized = {}
  Jtis = {j1, j2}  Reqs = {r1, r2}  TempNames = {t1, t2}
  Nodes = {n1}  NodeId = n1
  Scopes <- FragmentScopes
  RequireAuth = TRUE  HasOracleKey = TRUE
  TokenLife = 1  MaxTime = 2
  NoFile = NoFile  Symlink = Symlink  Partial = Partial  None = None
SYMMETRY Interchangeable
SPECIFICATION Spec
INVARIANTS TypeOK AckMeansStored ReuseOnlyAfterExpiry
PROPERTY ImplementsFragmentStore
