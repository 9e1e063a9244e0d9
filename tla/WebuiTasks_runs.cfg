SPECIFICATION MCSpec
CONSTANTS
  Clicks = {a, b}
  Stops = {s}
  Children = {p, q}
  Kinds = {"train", "extract"}
  Width <- MCWidth
  Idle = idle
  TotalEpoch = 4
  LatestModes = {TRUE, FALSE}
  Intervals = {1, 2}
  Ddp = FALSE
  Torn = torn
  Separations = {c, d}
  PymssStops = {t}
  Workers = {u, v}
  Attempts <- MCAttempts
  NoWorker = noworker
INVARIANTS TypeOK StoppedLeavesNoChild OrphansOnlyFromFailure NoWorkerOutlivesTask StoppedWorkerIsCancelled FinishedTrainingRepairs
PROPERTIES PairWithinOneSave FallbackIsRemembered StopEndsTask StopFreesPage
\* The buttons are pressed a bounded number of times.
CHECK_DEADLOCK FALSE
