SPECIFICATION Spec
CONSTANTS
  MaxProcs = 2
  File <- MixedFile
  Resubmitted = {}
  Code <- MixedCode
  Priority <- MixedOnes
  SegmentId <- MixedSegmentId
  Pages <- MixedOnes
  Sem = {"s"}
  QUANTUM_TIME_TOTAL = 4
  P_TIME = 1
  NUM_PAGES = 1
  MAX_DISK_TRACK = 3
  NULL = NULL
INVARIANTS
  FreePagesBounded
