\* Can the recipient of a second transfer decrypt?
CONSTANTS
  Users = {alice, bob}  Outsiders = {carol}  Minter = alice
  MaxTransfers = 2  Offers = {o1, o2}  Tasks = {h1}
  MaxReads = 0  MaxMoves = 0  MaxDrops = 0  None = None
SPECIFICATION Spec
INVARIANT RecipientCanDecrypt
