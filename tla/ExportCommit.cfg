SPECIFICATION FairSpec
CONSTANTS
  Key = {k1}
  Layout = {plain}
  None = None
  MaxFaults = 3
INVARIANTS
  EntriesAreKept
  StateDescribesResult
PROPERTIES
  RollbackRestores
  PendingIsResolved
