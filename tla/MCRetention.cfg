\* Two overlapping runs beside crawlers and watchers, one fault.
SPECIFICATION Spec
CONSTANTS
    Runs = {r1, r2}
    Ids = {i1}
    Days <- ShortRules
    None = None
    Missing = Missing
    Invalid = Invalid
    Stored <- FirstStored
    Lag = 1
    MaxFaults = 1
    Horizon = 2
SYMMETRY Symmetry
INVARIANTS
    TypeOK
    EventsAreExact
    DeletionsAreRecorded
PROPERTIES
    RecentSurvives
