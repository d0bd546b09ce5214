SPECIFICATION FairSpec
CONSTANTS
  PageId = {p, q}
  Data = {zero, a}
  Zero = zero
  Absent = absent
  Client = {pool, g, h}
  Pool = pool
INVARIANTS
  TypeOK
  OneAnswerEach
  ShutsDownLast
PROPERTIES
  CallStoreSpec
  RequestsAnswered
  DropReturns
CHECK_DEADLOCK FALSE
