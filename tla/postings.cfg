SPECIFICATION Spec
CONSTANTS
    Slots = {s1, s2}
    k1 = k1
    k2 = k2
    offsite = offsite
    junk = junk
    None = None
    Keys <- SomeKeys
    Payloads <- SomePayloads
    JdCodes <- SomeCodes
INVARIANTS Inv ReasonsAreOwned
PROPERTIES KeepsCorpus UpsertsEnd
