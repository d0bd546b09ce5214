SPECIFICATION OnPoolSpec
CONSTANTS
  Key <- MCKey
  Rid = {r}
  leaf_node_max_size = 3
  internal_node_max_size = 3
  MaxRecords = 64
  None = None
  MaxPages = 70
  Frames = 10
  U32 = 1000
  USize = 1000
  Absent = absent
  Zero = zero
  Flusher = flusher
INVARIANT InsertDoesNotBlockItself
