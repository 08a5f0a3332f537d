\* Two crawlers of one source, a v1 document and missing texts.
SPECIFICATION Spec
CONSTANTS
    Crawlers = {c1, c2}
    Ids = {"i1", "i2", "i3", "i4"}
    Urls = {"u1", "u2"}
    Names = {"n1", "n2"}
    Bodies = {"b1", "b2"}
    Unknown = Unknown
    NoKey = NoKey
    Legacy <- StoredOnce
    Pages <- OneCompany
    MaxFaults = 1
SYMMETRY Symmetry
INVARIANTS
    TypeOK
    OneDocumentPerEvent
    HistoryExplains
