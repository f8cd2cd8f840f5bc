SPECIFICATION Spec
CONSTANTS
  u1 = u1
  u2 = u2
  r1 = r1
  r2 = r2
  w1 = w1
  w2 = w2
  Users = {u1}
  Runs = {r1}
  Owner <- OneRun
  Workers = {w1, w2}
  MaxAttempts = 2
  GlobalMaxRunning = 1
  QueueMaxQueued = 2
  CandidateBatch = 20
  Plans = {1}
  StallsOutlastLeases = TRUE
  MaxDisruptions = 2
  NoWorker = NoWorker
  NoRun = NoRun
SYMMETRY WorkerSymmetry
INVARIANTS TypeOK JobMatchesRun AttemptsNeverMix CompleteMeansResult WaitingIsClean QueueInv
PROPERTIES ImplementsLifecycle EndedIsFinal NoAttemptAfterCancel LiveClaimsLeftAlone
