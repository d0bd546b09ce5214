CONSTANTS
  replacer_size = 1
  FrameId <- MCFrameId
  PageId <- MCPages4
  U32 = 16
  OverflowChecks = TRUE
  NoPage = NoPage
  Guard = {g1}
  Flusher = flusher
  Data = {zero}
  Zero = zero
  Absent = absent
  USize = 4
SPECIFICATION SpecDelete
PROPERTIES
  UnusedFramesAreVictims
CHECK_DEADLOCK FALSE
