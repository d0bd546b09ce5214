CONSTANTS
  PageId <- MCPageId3
  Data = {zero, a}
  Zero = zero
  Absent = absent
  InitialCapacity = 1
  FileLengths <- MCFileLengths1
SPECIFICATION SpecAny
INVARIANTS
  SlotsInFile
PROPERTIES
  OthersUntouched
