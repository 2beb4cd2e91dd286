SPECIFICATION Spec
CONSTANTS
  Thread <- MCThread
  Calls <- MCCalls
  HalfScreen = 4
  MaxLogs = 5
INVARIANTS
  TypeOK
  OwnMessage
  ShowsTheLog
  OneReport
