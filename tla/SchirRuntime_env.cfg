SPECIFICATION Spec
CONSTANTS
 MaxOps = 6
 Ops = {"callcc", "throw", "raise", "handler", "withEnv", "managed"}
INVARIANTS EnvOfExtent EnvAliveInExtent NoneLeftUnhandled
PROPERTIES DestroyedOutside
CHECK_DEADLOCK FALSE
