CONSTANTS
    Basis <- MCBasis
    P = 10007
    Args <- MCArgs
    Programs <- MCPrograms
    MaxRounds = 10
    Suite = "inverse"
SPECIFICATION Spec
INVARIANT ValueKept
CHECK_DEADLOCK FALSE
