\* Two watchers that share the checkpoint, errors, deletions and a log that rolls over.
SPECIFICATION FairSpec
CONSTANTS
    Watchers = {w1, w2}
    Changes <- AllKinds
    Documents = {"d1"}
    NoToken = NoToken
    BadToken = BadToken
    MaxLog = 2
    MaxFaults = 2
INVARIANTS
    TypeOK
    CheckpointCovers
    StreamCovers
PROPERTIES
    DecidedOnce
    EventuallyReserved
