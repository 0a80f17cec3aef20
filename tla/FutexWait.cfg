\* A process waits for the value 3; the creator unlocks, another process
\* stores 3 or forces, once.
CONSTANTS
  Lockers = {p1}
  Waiters = {w1}
  Others = {f}
  Creator = p1
  Desired = 3
  MaxForces = 1
  p1 = p1
  w1 = w1
  f = f

SPECIFICATION FairSpec
PROPERTY AbstractSpec
