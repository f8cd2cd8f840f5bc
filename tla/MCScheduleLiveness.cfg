SPECIFICATION FairSpec
CONSTANTS
  Workers = {w1}
  Monitors = {m1}
  MaxFailures = 1
  StallsOutlastLeases = TRUE
  MaxDisruptions = 2
  NoWorker = NoWorker
PROPERTIES EveryMonitorTakenUp ScanningNeverStops
