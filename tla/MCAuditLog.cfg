\* Django and the retention tool write to one log, beside a review.
SPECIFICATION Spec
CONSTANTS
    django = django
    retention = retention
    Writers = {django, retention}
    Entries <- TwoWriters
    Capacity = 1
    Backups = 2
    Window = 1
    Skew = 0
    Thresholds <- Limited
    Debug = FALSE
    RequireAuth = TRUE
    MaxRecords = 3
    Horizon = 2
    MaxFaults = 1
INVARIANTS
    BreachIsReal
    BreachIsSeen
