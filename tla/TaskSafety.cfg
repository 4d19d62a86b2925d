\* Two loops, two tasks, two clicks, one retry; every update of the control
\* message arrives.
CONSTANTS
  Job = {j1, j2}
  Worker = {w1, w2}
  Click = {c1, c2}
  None = None
  MaxRetry = 1
  UpdatesMayFail = FALSE
  BackoffOutlastsCleanup = TRUE
SPECIFICATION TaskSpec
SYMMETRY TaskSymmetry
CHECK_DEADLOCK FALSE
INVARIANTS
  EachJobInOnePlace
  ExclusiveExecution
  NoJobLost
  RequestReachesAttempt
  OnlyCancelledOnRequest
  CompletedMeansReported
  SettledMessage
PROPERTIES
  NoOvertaking
  RetryWaitsForBackoff
  ImplementsLifecycle
