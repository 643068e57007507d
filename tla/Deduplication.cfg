SPECIFICATION Spec
CONSTANTS
  m1 = m1
  m2 = m2
  m3 = m3
  main = main
  copy = copy
  Movement = {m1, m2, m3}
  Day <- MCDay
  Detail <- MCDetail
  Account = {main, copy}
  Main = main
  Card = {c1}
  Bank <- MCBank
  Window = 14
  None = None
SYMMETRY Symmetry
CHECK_DEADLOCK FALSE
INVARIANTS
  NoMovementTwice
  BookedAreKept
  Repeatable
PROPERTIES
  ReconciliationsSurvive
