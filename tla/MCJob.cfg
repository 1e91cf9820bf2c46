SPECIFICATION FairSpec
CONSTANTS
  Batches <- MCBatches
  Order <- MCOrder
  Leavings <- MCLeavings
  Scrub <- MCScrub
  Masked <- MCMasked
  MaxMessages = 2
  MaxRuns = 2
INVARIANTS TypeOK ExitHonest TranscriptDelivered TornDown RowsKeyed RecordedInFull CutShortIsCrash OutputsPromoted
PROPERTIES HistoryKept JobEnds
CHECK_DEADLOCK FALSE
