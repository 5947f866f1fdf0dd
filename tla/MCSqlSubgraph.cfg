SPECIFICATION Spec
CONSTANTS
  orders = orders
  staff = staff
  id = id
  name = name
  Keys = {orders, staff}
  ColumnNames = {id, name}
  ScopeOf <- MCScopeOf
  Datasets <- MCDatasets
  Users <- MCUsers
  Ungranted = Ungranted
  MaxChanges = 2
  NoSql = NoSql
  NoSelection = NoSelection
  NoRows = NoRows
  NoResult = NoResult
INVARIANTS
  KeepsContract
  SelectionFitsSchema
  GenerationBounded
