\* Two identities, two objects, a grant and two concurrent calls.
CONSTANTS
  Identities = {a, b}  Objects = {o1, o2}  GrantIds = {g1}
  MaxKeys = 2  RequireAuth = FALSE
  Calls = {c1, c2}  None = None
CHECK_DEADLOCK FALSE
SYMMETRY Interchangeable
SPECIFICATION Spec
INVARIANTS TypeOK SharedAsChosen TrustIsTold
PROPERTIES KeyFitsFile ClosedHandsOutNothing
