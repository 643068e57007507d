SPECIFICATION Spec
CONSTANTS
  Key = {k1}
  Layout = {plain}
  None = None
  MaxFaults = 3
PROPERTIES
  InterruptedExportKeepsEntries
