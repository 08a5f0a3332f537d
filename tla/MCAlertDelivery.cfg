\* Two watchers race for one alert; leases long enough for a prompt worker.
SPECIFICATION Spec
CONSTANTS
    Alerts = {a1}
    Workers = {w1, w2}
    NotSet = NotSet
    MaxAttempts = 2
    RetrySeconds = 1
    LeaseSeconds = 4
    SendTimeout = 2
    Stall = 1
    BatchLimit = 1
    MaxFaults = 2
    Horizon = 8
SYMMETRY Symmetry
INVARIANTS
    TypeOK
    InFlightExclusive
