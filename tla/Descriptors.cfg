\* Two files and a socket that are created three times between them, with too few
\* numbers for all of them.
CONSTANTS
  Files = {f1, f2}
  Socks = {s1}
  MaxFd = 4
  MaxCreates = 3
  f1 = f1
  f2 = f2
  s1 = s1

SYMMETRY FilesAlike
SPECIFICATION Spec
INVARIANT NoLeak
PROPERTY ClosesOwn

\* The contexts are created MaxCreates times.
CHECK_DEADLOCK FALSE
