\* Three threads in two processes, one line each, with one or two open file
\* descriptions between them, and one change of writefd.
CONSTANTS
  Threads = {t1, t2, t3}
  Process <- SomeProcess
  Opened = {d1, d2}
  Unlocked = Unlocked
  MaxLines = 1
  MaxChanges = 1
  q1 = q1
  q2 = q2
  d1 = d1
  d2 = d2
  t1 = t1
  t2 = t2
  t3 = t3

SPECIFICATION LogSpec
INVARIANT WholeLines
PROPERTY LineEnds

\* Every thread logs MaxLines lines.
CHECK_DEADLOCK FALSE
