\* Two backends of this host, swap that can rise past its limit, one interrupt.
SPECIFICATION Spec
CONSTANTS
  b1 = b1
  b2 = b2
  Pids <- MCPids
  MaxSwap = 2
  MaxSwapRise = 1
  AbsentPolls = 2
  MaxStatements = 2
  MaxInterrupts = 1
  None = None
INVARIANTS
  ExitCodeTellsTheEnd
PROPERTIES
  StopsEnd
CHECK_DEADLOCK FALSE
