SPECIFICATION FairSpec
CONSTANTS
  MaxFrame = 2
  Sizes = {3}
  MaxSends = 1
  StartAfter = 0
  Closers = {"client", "server"}
  CloseAfter = 0
  Stoppers = {"server"}
  Breaks = TRUE
  MaxForeign = 0
INVARIANTS TypeOK OneWrite QueueMoves CloseIsLast
PROPERTIES BreakNoticed
CHECK_DEADLOCK FALSE
