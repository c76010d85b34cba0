\* All four kinds, two confirmations and two polls at a time, a dropped handler.
CONSTANTS
  ShortLife = 1  LongLife = 2  MaxTime = 4
  Confirms = {c1, c2}  Polls = {p1, p2}  MaxDrops = 1  None = None
CHECK_DEADLOCK FALSE
SPECIFICATION Spec
INVARIANTS TypeOK ApprovedHasEffect 
PROPERTY SettledIsFinal
