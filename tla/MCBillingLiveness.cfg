CONSTANTS
  Handlers = {h1, h2}
  h1 = h1
  h2 = h2
  Prices = {"STARTER_MONTHLY", "PRO_MONTHLY"}
  MaxSubs = 2
  MaxRequests = 1
  MaxMoves = 1
  MaxFaults = 2
  NoHandler = NoHandler
  None = None
SPECIFICATION FairSpec
CHECK_DEADLOCK FALSE
PROPERTY PlanConverges
