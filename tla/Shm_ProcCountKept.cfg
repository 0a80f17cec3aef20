\* One place, two processes that attach at the same time.
CONSTANTS
  Procs = {p1, p2}
  ProcCount = 1
  MaxBlocks = 1
  MaxMsgs = 1
  p1 = p1
  p2 = p2

SPECIFICATION Spec
INVARIANT ProcCountKept

\* A process that crashed, waits for a lost token or found no block left stops.
CHECK_DEADLOCK FALSE
