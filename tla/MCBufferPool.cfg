CONSTANTS
  replacer_size = 1
  FrameId <- MCFrameId
  PageId <- MCPages2
  U32 = 16
  OverflowChecks = TRUE
  NoPage = NoPage
  Guard = {g1, g2}
  Flusher = flusher
  Data = {zero, a}
  Zero = zero
  Absent = absent
  USize = 4
SPECIFICATION SpecFaulty
SYMMETRY Symmetry
INVARIANTS
  TypeOK
  FramePartition
  PinCountIsGuards
  GuardsOnTheirPage
  NoUpdateLost
  UnusedFramesAreEvictable
  RequestsWaitForNobody
CHECK_DEADLOCK FALSE
