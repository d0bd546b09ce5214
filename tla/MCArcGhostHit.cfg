CONSTANTS
  replacer_size = 2
  FrameId <- MCFrameId
  PageId <- MCPageId
  U32 = 9
  OverflowChecks = TRUE
  NoPage = NoPage
SPECIFICATION CountingSpec
INVARIANT GhostHitsAreServed
