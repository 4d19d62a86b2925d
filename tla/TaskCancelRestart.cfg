\* A task whose cancellation was accepted is started again.
CONSTANTS
  Job = {j1}
  Worker = {w1}
  Click = {c1}
  None = None
  MaxRetry = 1
  UpdatesMayFail = FALSE
  BackoffOutlastsCleanup = TRUE
SPECIFICATION TaskSpec
CHECK_DEADLOCK FALSE
PROPERTIES
  CancelledTaskIsNotRestarted
