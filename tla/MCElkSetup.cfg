\* Two set-ups, for one database or for two, a view made by a user, and a fault.
SPECIFICATION FairSpec
CONSTANTS
    s1 = s1
    s2 = s2
    d1 = d1
    d2 = d2
    Setups = {s1, s2}
    Databases = {d1, d2}
    Configurations <- AgreeOrNot
    None = None
    Alien = Alien
    MaxManual = 1
    MaxFaults = 1
INVARIANTS
    TypeOK
    OneOwner
    PassIsComplete
PROPERTIES
    OwnerPasses
