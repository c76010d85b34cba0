CONSTANTS
  None = None
  Wallets = {a, b}
  Tokens = {t1}
  FirstOwner = a
  Balance = 5
  Reserve = 2
  Fee = 1
  Amount = 1
  Window = 1
  MaxPolls = 2
  MaxHeight = 2
  MaxCommands = 2
  MaxSignIns = 2
  MaxFaults = 1
  Calls = {c1, c2}
SPECIFICATION Spec
CHECK_DEADLOCK FALSE
SYMMETRY Symmetry
INVARIANTS TypeOK SentOncePerApproval AnswersFit ErasedIsBurned ConfirmedFits
PROPERTIES ReserveKept CommandsRunOut
