\* One task, with the backoff racing the worker that requeued it, updates of
\* the control message that are lost, and the default of two retries.
CONSTANTS
  Job = {j1}
  Worker = {w1, w2}
  Click = {c1, c2}
  None = None
  MaxRetry = 2
  UpdatesMayFail = TRUE
  BackoffOutlastsCleanup = FALSE
SPECIFICATION TaskSpec
SYMMETRY TaskSymmetry
CHECK_DEADLOCK FALSE
INVARIANTS
  TokenIsLive
  CancelledNamesRequester
