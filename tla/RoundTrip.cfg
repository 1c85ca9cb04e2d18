SPECIFICATION FairSpec
CONSTANTS
  Calls = {c1, c2}
  MaxDials = 2
INVARIANTS NoOrphanedCall CancelFollowsRequest
PROPERTIES EveryCallEnds KeepsPromise
CHECK_DEADLOCK FALSE
