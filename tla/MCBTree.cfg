SPECIFICATION Spec
CONSTANTS
  Key <- MCKeys
  Rid = {r}
  leaf_node_max_size = 2
  internal_node_max_size = 2
  MaxRecords = 7
  None = None
INVARIANTS
  TypeOK
  SeparatorsBound
  Balanced
  LeavesChained
  PathReachesRoot
  ScanIsComplete
  SearchesAgree
  ParentHasLeft
PROPERTIES
  StoreSpec
  InsertsAdvance
