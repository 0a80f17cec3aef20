\* Two lockers and one process that forces or stores another value.
CONSTANTS
  Lockers = {p1, p2}
  Waiters = {}
  Others = {f}
  Creator = p1
  Desired = 3
  MaxForces = 2
  p1 = p1
  p2 = p2
  f = f

SPECIFICATION FairSpec
INVARIANTS MutualExclusion NoLostWakeup
PROPERTY AbstractSpec
