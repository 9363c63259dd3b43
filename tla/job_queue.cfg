\* Jobs, ticks and reclaims in two slots, and a kill of the worker in between.
SPECIFICATION MCSpec
CONSTANTS
    Work = {scan}
    Enqueue = enqueue
    Reclaim = reclaim
    Ids <- MCIds
    s1 = s1
    s2 = s2
    Slots = {s1, s2}
    MaxKills = 1
    None = None
    Dead = Dead
INVARIANTS NothingForgotten
PROPERTIES ReclaimsOnlyOrphans WantedIsServed DeferralIsRun
