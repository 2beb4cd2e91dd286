SPECIFICATION Spec
CONSTANTS
  MaxProcs = 2
  File <- DeviceFile
  Resubmitted = {}
  Code <- DeviceCode
  Priority <- DevicePriority
  SegmentId <- DeviceSegmentId
  Pages <- DeviceOnes
  Sem = {"s"}
  QUANTUM_TIME_TOTAL = 4
  P_TIME = 1
  NUM_PAGES = 3
  MAX_DISK_TRACK = 3
  NULL = NULL
INVARIANTS
  TypeOK
  LocalsOK
  HostLocks
  NoHostDeadlock
  ReadySorted
PROPERTIES
  SweepAscends
