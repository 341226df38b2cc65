CONSTANTS
    Basis <- MCBasis
    P = 10007
    Args <- MCArgs
    Programs <- MCPrograms
    MaxRounds = 10
    Suite = "all"
SPECIFICATION Spec
INVARIANTS ValueKept TypesSound NarrowingValid ExpandedAtEnd LoweredValue
PROPERTY Compiles
CHECK_DEADLOCK FALSE
