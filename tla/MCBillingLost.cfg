CONSTANTS
  Handlers = {h1, h2}
  h1 = h1
  h2 = h2
  Prices = {"STARTER_MONTHLY", "PRO_MONTHLY", "PRO_YEARLY"}
  MaxSubs = 1
  MaxRequests = 2
  MaxMoves = 1
  MaxFaults = 0
  NoHandler = NoHandler
  None = None
SPECIFICATION Spec
CHECK_DEADLOCK FALSE
SYMMETRY HandlerSymmetry
PROPERTY ScheduledChangeKept
