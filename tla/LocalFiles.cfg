SPECIFICATION Spec
CONSTANTS
  a = a
  b = b
  ra = ra
  rb = rb
  food = food
  Account = {a, b}
  RawFile = {ra, rb}
  Category = {food}
SYMMETRY Symmetries
CONSTRAINT Apart
INVARIANTS
  FilesAgree
  RowsKeepTheirFiles
  FailuresUndo
