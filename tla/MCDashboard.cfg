\* The Korean events, two a page, among a few writes.
SPECIFICATION DashboardSpec
CONSTANTS
    Docs = {1, 2, 3, 4}
    Times = {1, 2, 3}
    Stored <- ThreeEvents
    Opened = {1}
    Contents <- Korean
    Risk = "CRITICAL"
    PageSize = 2
    MaxScan = 3
    HistoryLimit = 1
    MaxWrites = 3
INVARIANTS
    WalkMissesNothing
    ChangesAreExplained
