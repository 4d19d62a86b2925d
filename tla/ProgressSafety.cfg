\* A lead and its sub-agent, two call ids each, three steps, five events, a
\* stream of three chunks and two failing calls.
CONSTANTS
  lead = lead
  sub = sub
  t1 = t1
  Lead = lead
  Owner = {lead, sub}
  Tool = {t1, t2}
  SpawnCall <- MCSpawnCall
  MaxSteps = 3
  CharacterLimit = 3
  MaxEvents = 5
  MaxFaults = 2
SPECIFICATION StreamSpec
CHECK_DEADLOCK FALSE
INVARIANTS
  ScopesAreOpenSteps
  ActiveScopesAreShown
  SuccessLeavesNothingRunning
  NoStreamLeftOpen
  ClosedMessagesAreSettled
