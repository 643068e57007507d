SPECIFICATION Spec
CONSTANTS
  Key = {k1}
  Layout = {plain}
  None = None
  MaxFaults = 1
PROPERTIES
  FailedExportKeepsResult
