\* One waiter, the creator, and a process that forces twice.
CONSTANTS
  Lockers = {p1}
  Waiters = {w1}
  Others = {f}
  Creator = p1
  Desired = 3
  MaxForces = 2
  p1 = p1
  w1 = w1
  f = f

SPECIFICATION FairSpec
PROPERTY ForceReachesWaiters
