\* A displaced pass goes on beside its successor; nothing is edited.
SPECIFICATION Spec
CONSTANTS
  Passes = {p1, p2}
  p1 = p1
  p2 = p2
  Logics = {"plain", "either"}
  NoLogic = "none"
  Contents = {"plain", "either"}
  Days <- FourDays
  MaxSession = 2
  Window = 1
  MaxEdits = 0
  PassesOverlap = TRUE
  None = None
SYMMETRY PassSymmetry
INVARIANT StateIsExact
