SPECIFICATION FairSpec
CONSTANTS
  p1 = p1
  p2 = p2
  r1 = r1
  r2 = r2
  Process <- MCProcess
  Run <- OneRun
  Free = Free
  NoRun = NoRun
  Heartbeat = 1
  Delay = 0
  StaleAfter = 1
  StepCount = 1
  MaxAttempts = 1
PROPERTIES
  EveryOperationEnds
  LockComesFree
