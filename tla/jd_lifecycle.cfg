\* Three postings, one of them a legacy row, two slots, two releases of the contract.
SPECIFICATION MCSpec
CONSTANTS
    Postings = {"p1", "p2", "p3"}
    Bodies = {"about", "listing", "error", "posting"}
    Slots = {"s1", "s2"}
    MaxVersion = 2
    Class <- MCClass
    LegacyRows <- OneLegacy
    LegacyBody = "about"
    Limit = 2
    None = None
INVARIANTS RowsConsistent ScoresAreGrounded
PROPERTIES HealsOnlyWhatWasJudged BlockedIsResolved
