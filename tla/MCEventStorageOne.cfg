\* One crawler at a time, killed anywhere, among duplicate v1 documents.
SPECIFICATION FairSpec
CONSTANTS
    Crawlers = {c1}
    Ids = {"i1", "i2", "i3", "i4"}
    Urls = {"u1", "u2"}
    Names = {"n1", "n2"}
    Bodies = {"b1", "b2"}
    Unknown = Unknown
    NoKey = NoKey
    Legacy <- StoredTwice
    Pages <- ManyEntries
    MaxFaults = 2
INVARIANTS
    NoFalseHistory
PROPERTIES
    KeepsContract
    NeverDemoted
    EventuallyStored
