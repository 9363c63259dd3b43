\* Two requests, tokens of 3 ticks, a tombstone of 5: the clock runs long enough
\* for a tombstone to expire, be pruned and be written again.
SPECIFICATION TokenSpec
CONSTANTS
    Requests = {r1, r2}
    JwtLife = 3
    TTL = 5
    Tolerance = 2
    ClockSkew = 1
    MaxTime = 8
    NoTombstone = NoTombstone
SYMMETRY Symmetry
PROPERTIES
    NoStaleAdmission
    PruneOutlivesTokens
