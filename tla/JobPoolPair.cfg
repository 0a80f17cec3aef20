\* Two workers in round-robin; each queue holds two records.
CONSTANTS
  ThreadCount = 2
  QueueSize = 36
  MaxJobs = 3
  Wrap = 6

SPECIFICATION Spec
INVARIANTS DrainedAtReset CountLedger
PROPERTY InOrder

\* The pool really stops: after destroy, or in a join that never returns.
CHECK_DEADLOCK FALSE
