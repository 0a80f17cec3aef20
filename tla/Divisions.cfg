\* A pool of up to five threads, with every size from 1 byte to beyond what the word
\* holds; two processes that ask for up to three shared segments; regions of up to
\* 14 words, with four blocks of up to four words.
CONSTANTS
  ThreadsMax = 6
  PageSize = 32
  Word = 1024
  Sizes <- SomeSizes
  Users = {u1, u2}
  ProcMax = 4
  SizeWord = 256
  ShmSizes <- SomeShmSizes
  MaxWords = 14
  MaxBlocks = 4
  MaxSize = 4
  u1 = u1
  u2 = u2

SPECIFICATION AllSpec
INVARIANTS Disjoint RecordsFit SegmentsApart Tiled
PROPERTY FreeKeepsWhatFits

\* The pool is laid out once; a caller of the region may have used up every block, or
\* damaged what it had.
CHECK_DEADLOCK FALSE
