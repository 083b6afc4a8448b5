SPECIFICATION Spec
CONSTANTS
  Scan = {s1}
  Agent = {}
  ScanPool = 1
  AgentPool = 1
  NoTask = NoTask
  MaxRestarts = 0
PROPERTIES
  CancelIsFinal
CHECK_DEADLOCK FALSE
