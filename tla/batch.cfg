SPECIFICATION FairBatchSpec
CONSTANTS
  MaxProcs = 3
  File <- BatchFile
  Resubmitted = {"all"}
  Code <- BatchCode
  Priority <- BatchPriority
  SegmentId <- BatchOnes
  Pages <- BatchPages
  Sem = {"s"}
  QUANTUM_TIME_TOTAL = 4
  P_TIME = 3
  NUM_PAGES = 2
  MAX_DISK_TRACK = 3
  NULL = NULL
INVARIANTS
  OnePlace
  StatusAgrees
  NoFault
  NeverStranded
PROPERTIES
  EventuallyFinished
