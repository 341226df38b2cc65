SPECIFICATION FairSpec
CONSTANTS
  MaxFrame = 2
  Sizes = {1, 3}
  MaxSends = 2
  StartAfter = 0
  Closers = {"client"}
  CloseAfter = 0
  Stoppers = {}
  Breaks = FALSE
  MaxForeign = 0
INVARIANTS CloseIsMutual NothingAfterClose
PROPERTIES Delivered CloseEnds
CHECK_DEADLOCK FALSE
