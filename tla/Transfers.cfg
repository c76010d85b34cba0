\* One transfer, two concurrent tasks (handlers or synchronisations) of which one
\* may be dropped, a move outside the application, and a command that reads the
\* file.
CONSTANTS
  Users = {alice, bob}  Outsiders = {carol}  Minter = alice
  MaxTransfers = 1  Offers = {o1}  Tasks = {h1, h2}
  MaxReads = 1  MaxMoves = 1  MaxDrops = 1  None = None
SYMMETRY Interchangeable
SPECIFICATION Spec
INVARIANTS TypeOK OwnerHeldOrNamed KeyOfConfirmed TransferringIsOpen OpenedByHolder
