SPECIFICATION Spec
CONSTANTS
  a = a
  b = b
  c = c
  d = d
  p = p
  q = q
  Key <- MCKey
  Path <- MCPath
  MaxMovements = 4
  MaxCorrections = 1
  MaxImports = 3
  None = None
SYMMETRY Symmetry
CHECK_DEADLOCK FALSE
INVARIANTS
  NoMovementTwice
  ImportIsSafe
