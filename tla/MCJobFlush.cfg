SPECIFICATION Spec
CONSTANTS
  Batches <- MCBatches
  Order <- MCOrder
  Leavings <- MCLeavings
  Scrub <- MCScrub
  Masked <- MCMasked
  MaxMessages = 1
  MaxRuns = 1
INVARIANTS ServerTornDown
CHECK_DEADLOCK FALSE
