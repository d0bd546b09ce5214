CONSTANTS
  PageId <- MCPageId
  Data = {zero, a}
  Zero = zero
  Absent = absent
  InitialCapacity = 2
  FileLengths <- MCFileLengths
SPECIFICATION Spec
INVARIANTS
  TypeOK
  SlotPartition
PROPERTIES
  StoreSpec
