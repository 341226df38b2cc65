SPECIFICATION FairSpec
CONSTANTS
  MaxOps = 6
  Ops = {"wind", "callcc", "throw", "raise", "raiseContinuable", "handler"}
INVARIANTS TypeOK IInv ResumedInExtent WindingTree HandlersOfExtent UnwoundAtEnd
PROPERTIES RefinesExtents Terminates
CHECK_DEADLOCK FALSE
