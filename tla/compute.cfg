SPECIFICATION FairSpec
CONSTANTS
  MaxProcs = 3
  File <- SharedFile
  Resubmitted = {}
  Code <- SharedCode
  Priority <- SharedPriority
  SegmentId <- SharedSegmentId
  Pages <- SharedPages
  Sem = {"s"}
  QUANTUM_TIME_TOTAL = 4
  P_TIME = 3
  NUM_PAGES = 3
  MAX_DISK_TRACK = 3
  NULL = NULL
INVARIANTS
  OnePlace
  FaultNeedsLostPCB
  FreePageCount
  ListedIfLoaded
  OwnerInside
  FinishedIsGone
  FinishesOnlyDone
  ReadsAnInstruction
PROPERTIES
  NoOvertaking
  KeepsItsPromise
  EventuallyFinished
  KeepsExecuting
