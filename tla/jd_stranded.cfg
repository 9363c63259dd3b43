\* Two scans of one posting overlap, and one offers a rejected text.
SPECIFICATION MCSpec
CONSTANTS
    Postings = {"p1"}
    Bodies = {"about", "error"}
    Slots = {"s1", "s2"}
    MaxVersion = 1
    Class <- MCClass
    LegacyRows <- OneLegacy
    LegacyBody = "about"
    Limit = 2
    None = None
PROPERTIES CannotOrphan
