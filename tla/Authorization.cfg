SPECIFICATION FairSpec
CONSTANTS
  app = app
  cli = cli
  c1 = c1
  c2 = c2
  s1 = s1
  s2 = s2
  x1 = x1
  x2 = x2
  Process <- MCProcess
  App = app
  Free = Free
  None = None
  Connection <- TwoConnections
  State <- TwoStates
  Session <- TwoSessions
CONSTRAINT DrawnInOrder
INVARIANTS
  AuthorizedMeansOneSession
  OneOpenState
  CompletionHoldsLock
PROPERTIES
  CompletedConnectionStays
  NoConsentIsForgotten
  WorkingSessionIsKept
  CooldownSurvives
  LockIsReturned
