\* Two objectives that come due at any time, also during a tick, with an agent
\* that may never return and requests that fail; no items.
CONSTANTS
  Objective = {o1, o2}
  Default = o1
  Item = {i1}
  Cycle = {k1, k2}
  None = None
  MaxEdits = 0
  MaxNewWorkItems = 0
  TrackerMayFail = TRUE
SPECIFICATION ObjectiveFairSpec
CHECK_DEADLOCK FALSE
PROPERTIES
  DueObjectiveRuns
  CyclesEnd
