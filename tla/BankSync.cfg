SPECIFICATION Spec
CONSTANTS
  c1 = c1
  c2 = c2
  a1 = a1
  a2 = a2
  a3 = a3
  p1 = p1
  Connection = {c1, c2}
  Account = {a1, a2, a3}
  Owner <- MCOwner
  Page = {p1}
  MaxPages = 2
  MaxRenewals = 1
  None = None
INVARIANTS
  LimitedAreNotQueried
PROPERTIES
  BalancesInsertedOnce
  SuccessIsWhole
  LimitsOutliveRuns
