CONSTANTS
  replacer_size = 2
  FrameId <- MCFrameId
  PageId <- MCPages3
  U32 = 16
  OverflowChecks = TRUE
  NoPage = NoPage
  Guard = {g1}
  Flusher = flusher
  Data = {zero}
  Zero = zero
  Absent = absent
  USize = 4
SPECIFICATION SpecDelete
INVARIANTS
  FramePartition
  UnusedFramesAreEvictable
PROPERTIES
  ReplacerSpec
CHECK_DEADLOCK FALSE
