SPECIFICATION Spec
CONSTANTS
  customers = customers
  orders = orders
  regions = regions
  earlier = earlier
  refresh = refresh
  rebuild = rebuild
  batch = batch
  Keys = {customers, orders, regions}
  ColumnsOf <- MCColumnsOf
  Refreshes = {earlier, refresh}
  Earlier = earlier
  Rebuilds = {rebuild}
  Batches = {batch}
  MaxResources = 2
  Invented = Invented
  MaxCandidates = 2
  MaxItems = 2
SYMMETRY TableSymmetry
INVARIANTS
  JoinsRestOnTheirEvidence
  OneDiscoveryUnlessOverlapped
  HonestReports
  LossIsAnnounced
CHECK_DEADLOCK FALSE
