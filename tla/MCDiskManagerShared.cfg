CONSTANTS
  PageId <- MCPageId
  Data = {zero}
  Zero = zero
  Absent = absent
  InitialCapacity = 2
  FileLengths <- MCFileLengths
SPECIFICATION SpecAny
INVARIANT PagesDoNotShareSlots
