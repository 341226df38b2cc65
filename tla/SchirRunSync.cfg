SPECIFICATION SyncSpec
CONSTANTS
  MaxOps = 6
  MaxNested = 2
  Ops = {"wind", "raise", "raiseContinuable", "handler", "withEnv", "sync", "compileError"}
INVARIANTS SyncUnwound SyncUnwoundAtEnd SyncHandlers OpGenKept
PROPERTIES SyncTerminates
CHECK_DEADLOCK FALSE
