SPECIFICATION Spec
CONSTANTS
  MaxFrame = 2
  Sizes = {0, 3}
  MaxSends = 1
  StartAfter = 0
  Closers = {"client"}
  CloseAfter = 0
  Stoppers = {}
  Breaks = FALSE
  MaxForeign = 2
PROPERTIES RefinesStreams ClosingIsFinal
CHECK_DEADLOCK FALSE
