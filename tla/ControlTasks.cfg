SPECIFICATION TasksSpec
CONSTANTS
  Scan = {s1, s2}
  Agent = {a1, a2}
  ScanPool = 1
  AgentPool = 1
  NoTask = NoTask
  Pair = {s1, a1}
  MaxRestarts = 1
INVARIANTS
  CancelKept
  NoEvidenceOnceStopped
  EventsAgree
PROPERTIES
  EverySubmittedSettles
CHECK_DEADLOCK FALSE
