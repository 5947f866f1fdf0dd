SPECIFICATION FairSpec
CONSTANTS
  rebuild = rebuild
  refresh = refresh
  refresh2 = refresh2
  reader = reader
  query = query
  discovery = discovery
  Sheets <- TwoFiles
  KeyOrder <- TwoKeys
  RelationOf <- OwnRelations
  Rebuilders = {rebuild}
  Refreshers = {refresh2}
  Readers = {reader}
  Queries = {}
  Discoverers = {discovery}
  FileOf <- MCFileOf
  SchemaOf <- MCSchemaOf
  NoTable = NoTable
INVARIANTS
  JoinsReferToRows
  DeadlocksNeedSeveralDrops
PROPERTIES
  EveryTransactionEnds
CHECK_DEADLOCK FALSE
