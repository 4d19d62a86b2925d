\* A lead and its sub-agent, three steps, six events, and no call that fails.
CONSTANTS
  lead = lead
  sub = sub
  t1 = t1
  Lead = lead
  Owner = {lead, sub}
  Tool = {t1, t2}
  SpawnCall <- MCSpawnCall
  MaxSteps = 3
  CharacterLimit = 2
  MaxEvents = 6
  MaxFaults = 0
SPECIFICATION StreamSpec
CHECK_DEADLOCK FALSE
INVARIANT RotationClosesOldSteps
