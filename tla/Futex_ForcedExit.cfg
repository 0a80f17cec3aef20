\* One contender, the creator and a forcing process.
CONSTANTS
  Lockers = {p1, p2}
  Waiters = {}
  Others = {f}
  Creator = p1
  Desired = 3
  MaxForces = 1
  p1 = p1
  p2 = p2
  f = f

SPECIFICATION Spec
PROPERTY ForcedExit
