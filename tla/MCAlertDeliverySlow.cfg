\* Calls slower than the lease: claims expire under their owner.
SPECIFICATION Spec
CONSTANTS
    Alerts = {a1}
    Workers = {w1, w2}
    NotSet = NotSet
    MaxAttempts = 2
    RetrySeconds = 1
    LeaseSeconds = 2
    SendTimeout = 1
    Stall = 3
    BatchLimit = 1
    MaxFaults = 2
    Horizon = 7
SYMMETRY Symmetry
INVARIANTS
    SendsWithinBudget
    SentWasDelivered
    UnclaimedNeverSent
PROPERTIES
    OnlyOwnerOrExpiry
    SettledForever
    KeepsContract
