\* Two alerts, batches of one, and as many faults as attempts.
SPECIFICATION FairSpec
CONSTANTS
    Alerts = {a1, a2}
    Workers = {w1}
    NotSet = NotSet
    MaxAttempts = 2
    RetrySeconds = 1
    LeaseSeconds = 2
    SendTimeout = 1
    Stall = 0
    BatchLimit = 1
    MaxFaults = 2
    Horizon = 30
PROPERTIES
    EventuallySettled
    EventuallySent
