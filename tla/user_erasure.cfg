\* One user and every order of events, or four settled rows and three per sweep, with as many
\* departures as it takes to trip the breaker.
SPECIFICATION MCSpec
CONSTANTS
    Users = {"user_a", "user_b", "user_c", "user_d"}
    RowCap = 3
    MinChecked = 2
    AnalyticsOn = TRUE
    OwnInstance = TRUE
INVARIANTS AckedDeletionQueuesPurge BreakerBoundsLoss
PROPERTIES KeepsErasurePromise ErasedForGood EveryRowRotates
CHECK_DEADLOCK FALSE
