CONSTANTS
  replacer_size = 2
  FrameId <- MCFrameId
  PageId <- MCPageId
  U32 = 9
  OverflowChecks = FALSE
  NoPage = NoPage
SPECIFICATION CountingSpec
INVARIANTS
  TypeOK
  ListsMatchFrames
  GhostsAreNotLoaded
  SizesBounded
  CountCoversEvictable
PROPERTY TargetMovesTowardTheHit
