\* One worker, a queue of two records and four bytes: three jobs fill it.
CONSTANTS
  ThreadCount = 1
  QueueSize = 36
  MaxJobs = 3
  Wrap = 6

SPECIFICATION FairSpec
INVARIANT WritesInBounds
PROPERTIES AtMostOnce CallsReturn

\* The pool really stops: after destroy, or in a join that never returns.
CHECK_DEADLOCK FALSE
