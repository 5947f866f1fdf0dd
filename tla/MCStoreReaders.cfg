SPECIFICATION Spec
CONSTANTS
  rebuild = rebuild
  refresh = refresh
  refresh2 = refresh2
  reader = reader
  query = query
  discovery = discovery
  Sheets <- BookAndCsv
  KeyOrder <- BookAndCsvKeys
  RelationOf <- OwnRelations
  Rebuilders = {}
  Refreshers = {refresh, refresh2}
  Readers = {reader}
  Queries = {query}
  Discoverers = {}
  FileOf <- MCFileOf
  SchemaOf <- MCSchemaOf
  NoTable = NoTable
INVARIANTS
  DeadlocksNeedSeveralDrops
  ReadsAreStable
CHECK_DEADLOCK FALSE
