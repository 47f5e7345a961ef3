SPECIFICATION FairSpec
CONSTANTS
  MaxPrints = 1
  MaxWaits = 2
  Sizes = {1}
  MayFail = TRUE
  Slow = TRUE
CHECK_DEADLOCK FALSE
INVARIANTS NothingSwallowed
PROPERTIES CallsReturn EverythingEnds
