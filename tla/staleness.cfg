SPECIFICATION MCSpec
CONSTANTS
    feed = feed page = page board = board bare = bare
    Jobs = {feed, page, board, bare}
    None = None
    Gated = {page, board, bare} OnBoard = {board} HasPage = {page} Dead = {board} Checkable = {}
    Workers = 1
    Unverified = 1 Stale = 2 Archive = 3 Grace = 2 Ceiling = 4 Recheck = 1
    MaxFailures = 2 SkipDays = 1
INVARIANTS Inv
PROPERTIES LiveTonightStays ActiveIsKept PaidForIsKept GatedStaysMarked
CHECK_DEADLOCK FALSE
