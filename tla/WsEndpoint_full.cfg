SPECIFICATION Spec
CONSTANTS
  MaxFrame = 2
  Sizes = {1, 2}
  MaxSends = 2
  StartAfter = 0
  Closers = {}
  CloseAfter = 0
  Stoppers = {}
  Breaks = FALSE
  MaxForeign = 0
PROPERTIES RefinesStreams
CHECK_DEADLOCK FALSE
