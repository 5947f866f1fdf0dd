SPECIFICATION Spec
CONSTANTS
  rebuild = rebuild
  refresh = refresh
  refresh2 = refresh2
  reader = reader
  query = query
  discovery = discovery
  Sheets <- BookAndCsv
  KeyOrder <- BookAndCsvKeys
  RelationOf <- CutRelations
  Rebuilders = {rebuild}
  Refreshers = {refresh, refresh2}
  Readers = {}
  Queries = {}
  Discoverers = {}
  FileOf <- MCFileOf
  SchemaOf <- MCSchemaOf
  NoTable = NoTable
INVARIANTS
  RowsHaveTables
  OrphansNeedOverlap
CHECK_DEADLOCK FALSE
