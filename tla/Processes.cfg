SPECIFICATION ProcessesSpec
CONSTANTS
  first = first
  second = second
  Terminal = {first, second}
  Busy = {first}
  Number = {3, 4}
  MaxCommands = 2
  MaxCloses = 2
  p1 = p1
  p2 = p2
  MaxLines = 2
  Process = {p1, p2}
  NoProcess = NoProcess
  Old = 2
  MaxCheckpoints = 3
  MaxCrashes = 1
  Keep = 1
  Nobody = Nobody
  NoCommand = NoCommand
INVARIANTS
  DescriptorKept
  CommandsEnd
  BlobsKept
PROPERTIES
  EveryExitTold
  EveryRunEnds
  EveryStartSucceeds
CHECK_DEADLOCK FALSE
