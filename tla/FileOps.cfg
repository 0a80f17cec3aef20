\* Two files of three bytes through a pipe that holds two; two contexts that map one file
\* of up to four bytes; three creates with directories, and a removal next to them; three callers
\* that add two flags, in four calls.
CONSTANTS
  Copies = {k1, k2}
  Length = 3
  MaxSize = 3
  Cap = 2
  k1 = k1
  k2 = k2
  Maps = {m1, m2}
  Page = 2
  AskedSizes = {0, 3}
  Contents <- SomeContents
  MaxLength = 3
  MaxOpens = 2
  m1 = m1
  m2 = m2
  Paths <- SomePaths
  Tops <- SomeTops
  Links <- SomeLinks
  MaxPaths = 3
  Setters = {s1, s2, s3}
  Flags = {nonblock, append}
  MaxCalls = 4
  s1 = s1
  s2 = s2
  s3 = s3
  nonblock = nonblock
  append = append

SPECIFICATION FilesSpec
INVARIANTS FilesTypeOK WholeCopies HandedOn LineRight PathRight RemovedAll FlagsKept
PROPERTY Returns

\* Both copies end, and so do the creates.
CHECK_DEADLOCK FALSE
