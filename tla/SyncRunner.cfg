SPECIFICATION Spec
CONSTANTS
  p1 = p1
  p2 = p2
  r1 = r1
  r2 = r2
  Process <- MCProcess
  Run <- MCRun
  Free = Free
  NoRun = NoRun
  Heartbeat = 1
  Delay = 0
  StaleAfter = 2
  StepCount = 2
  MaxAttempts = 1
SYMMETRY Symmetry
INVARIANTS
  TypeOK
  ProtectedOwnsLease
PROPERTIES
  StepsStartUnderLease
  LiveLeaseIsKept
  LiveRunIsNotInterrupted
  SuccessUnderLease
  HistoryIsFinal
  ImplementsExclusiveAccess
