SPECIFICATION Spec
CONSTANTS
  doc = doc
  note = note
  memo = memo
  tab = tab
  tab2 = tab2
  v1 = v1
  v2 = v2
  Paths <- AllTables
  Kind <- MCKind
  Scope <- MCScope
  Key <- MCKey
  Versions = {v1, v2}
  NoRows = NoRows
  NoSource = NoSource
  Temporary = {}
  MaxFileOps = 2
  MaxRebuilds = 0
  NoFile = NoFile
  NoPath = NoPath
  NoRead = NoRead
INVARIANT DeletedTablesInvisible
SYMMETRY Symmetry
CHECK_DEADLOCK FALSE
