\* Two commands at a time over the life of a session, with a fault.
CONSTANTS
  AccessLife = 1  Margin = 1  SessionLife = 2  RefreshLife = 4  QrRefreshLife = 5
  MaxTime = 3  MaxPairs = 2  MaxFaults = 1
  Calls = {c1, c2}  Empty = Empty  None = None
CHECK_DEADLOCK FALSE
SYMMETRY Interchangeable
SPECIFICATION Spec
INVARIANTS TypeOK NotExpiredEarly RotationAgrees RevokedStaysRefused
