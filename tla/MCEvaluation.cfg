\* One pass at a time, given up at any statement; the owner edits in between.
SPECIFICATION Spec
CONSTANTS
  Passes = {p1}
  p1 = p1
  Logics = {"plain", "either"}
  NoLogic = "none"
  Contents = {"plain", "either", "none"}
  Days <- FourDays
  MaxSession = 3
  Window = 1
  MaxEdits = 1
  PassesOverlap = FALSE
  None = None
INVARIANT TypeOK
INVARIANT StateIsExact
INVARIANT OpenMeansActive
INVARIANT HistoryIsAChain
PROPERTY NoSessionTwice
PROPERTY ProgressNeverBack
PROPERTY ReconstructionIsExact
