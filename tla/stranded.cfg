SPECIFICATION Spec
CONSTANTS
  MaxProcs = 3
  File <- SharedFile
  Resubmitted = {}
  Code <- SharedCode
  Priority <- SharedPriority
  SegmentId <- SharedSegmentId
  Pages <- SharedPages
  Sem = {"s"}
  QUANTUM_TIME_TOTAL = 4
  P_TIME = 1
  NUM_PAGES = 5
  MAX_DISK_TRACK = 3
  NULL = NULL
INVARIANTS
  NeverStranded
