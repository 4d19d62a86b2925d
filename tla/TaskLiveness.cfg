\* Two tasks over one loop; the agent may never return.
CONSTANTS
  Job = {j1, j2}
  Worker = {w1}
  Click = {c1}
  None = None
  MaxRetry = 1
  UpdatesMayFail = FALSE
  BackoffOutlastsCleanup = TRUE
SPECIFICATION TaskFairSpec
CHECK_DEADLOCK FALSE
PROPERTIES
  EveryTaskEnds
  CancelFreesWorker
