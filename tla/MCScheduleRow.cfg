SPECIFICATION Spec
CONSTANTS
  Workers = {w1, w2}
  Monitors = {m1, m2}
  MaxFailures = 2
  StallsOutlastLeases = TRUE
  MaxDisruptions = 1
  NoWorker = NoWorker
SYMMETRY ScheduleSymmetry
INVARIANTS ScheduleInv CatchUpNeverWaits
PROPERTIES ClaimTakenOnlyFromTheDead SuccessMeansWholePass
