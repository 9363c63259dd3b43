SPECIFICATION MCSpec
CONSTANTS
    pooled = pooled  serial = serial  a1 = a1  a2 = a2 w1 = w1 h1 = h1  p1 = p1  p2 = p2
    Runs = {pooled, serial}
    Employers = {a1, a2, w1, h1}
    Postings = {p1, p2}
    None = None
    Lane <- Lanes  Finds <- Boards
    Serial = {serial}
    Threads = 1
INVARIANTS Inv
PROPERTIES KeepsScanPromise TruncationStopsStarts PooledRunEnds
CHECK_DEADLOCK FALSE
