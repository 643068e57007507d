SPECIFICATION Spec
CONSTANTS
  app = app
  cli = cli
  c1 = c1
  c2 = c2
  s1 = s1
  s2 = s2
  x1 = x1
  x2 = x2
  Process <- MCProcess
  App = app
  Free = Free
  None = None
  Connection <- OneConnection
  State <- TwoStates
  Session <- TwoSessions
PROPERTIES
  RejectedConnectionIsRetained
