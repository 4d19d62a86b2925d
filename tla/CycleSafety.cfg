\* One objective that takes unlinked work, two items, requests that fail.
CONSTANTS
  Objective = {o1}
  Default = o1
  Item = {i1, i2}
  Cycle = {k1, k2}
  None = None
  MaxEdits = 2
  MaxNewWorkItems = 1
  TrackerMayFail = TRUE
SPECIFICATION ObjectiveSpec
CHECK_DEADLOCK FALSE
SYMMETRY CycleSymmetry
INVARIANTS
  OneCyclePerObjective
  WritesGoToOwnItems
  UpdateMatchesReport
PROPERTIES
  OnlyOwnItemsClosed
