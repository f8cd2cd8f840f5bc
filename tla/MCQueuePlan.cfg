SPECIFICATION Spec
CONSTANTS
  u1 = u1
  u2 = u2
  r1 = r1
  r2 = r2
  w1 = w1
  w2 = w2
  Users = {u1}
  Runs = {r1, r2}
  Owner <- OneOwner
  Workers = {w1, w2}
  MaxAttempts = 1
  GlobalMaxRunning = 2
  QueueMaxQueued = 2
  CandidateBatch = 20
  Plans = {1, 2}
  StallsOutlastLeases = FALSE
  MaxDisruptions = 1
  NoWorker = NoWorker
  NoRun = NoRun
SYMMETRY WorkerSymmetry
INVARIANTS PlanReserved
PROPERTIES SubmissionWithinPlan StartsWithinPlan
