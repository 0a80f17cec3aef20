\* Two processes, two segments; the name is unlinked and created again once.
CONSTANTS
  Procs = {p1, p2}
  ProcCount = 2
  MaxBlocks = 2
  MaxMsgs = 2
  p1 = p1
  p2 = p2

SPECIFICATION FairSpec
INVARIANT OneCopier
PROPERTIES WholeAndOnce Rendezvous

\* A process that crashed, waits for a lost token or found no block left stops.
CHECK_DEADLOCK FALSE
