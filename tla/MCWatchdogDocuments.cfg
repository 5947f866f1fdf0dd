SPECIFICATION Spec
CONSTANTS
  doc = doc
  note = note
  memo = memo
  tab = tab
  tab2 = tab2
  v1 = v1
  v2 = v2
  Paths <- AllDocuments
  Kind <- MCKind
  Scope <- MCScope
  Key <- MCKey
  Versions = {v1, v2}
  NoRows = NoRows
  NoSource = NoSource
  Temporary = {note}
  MaxFileOps = 2
  MaxRebuilds = 1
  NoFile = NoFile
  NoPath = NoPath
  NoRead = NoRead
INVARIANTS
  DivergenceExplained
PROPERTIES
  ReportKeepsFailure
SYMMETRY Symmetry
CHECK_DEADLOCK FALSE
