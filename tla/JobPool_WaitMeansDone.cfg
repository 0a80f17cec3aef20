\* One worker and two jobs are enough for the disagreement.
CONSTANTS
  ThreadCount = 1
  QueueSize = 36
  MaxJobs = 2
  Wrap = 6

SPECIFICATION Spec
INVARIANT WaitMeansDone

\* The pool really stops: after destroy, or in a join that never returns.
CHECK_DEADLOCK FALSE
