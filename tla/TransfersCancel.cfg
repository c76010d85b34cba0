\* Can an accepted transfer still be cancelled?
CONSTANTS
  Users = {alice, bob}  Outsiders = {carol}  Minter = alice
  MaxTransfers = 1  Offers = {o1}  Tasks = {h1}
  MaxReads = 0  MaxMoves = 0  MaxDrops = 0  None = None
SPECIFICATION Spec
INVARIANT AcceptedNotCancelled
