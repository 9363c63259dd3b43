SPECIFICATION MCSpec
CONSTANTS
    Last = 4
    Bound = 2
    Pools = {1, 2}
    Kinds <- Batches
INVARIANTS Inv NoneIsSkipped
PROPERTIES NewerVerdictStands RunReturns
CHECK_DEADLOCK FALSE
