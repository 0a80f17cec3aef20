\* A writer and a process that attaches late.
CONSTANTS
  Procs = {p1, p2}
  ProcCount = 2
  MaxBlocks = 1
  MaxMsgs = 1
  p1 = p1
  p2 = p2

SPECIFICATION Spec
PROPERTY ReadyUntilRead

\* A process that crashed, waits for a lost token or found no block left stops.
CHECK_DEADLOCK FALSE
