SPECIFICATION FairSpec
CONSTANTS
    Modes = {m1, m2}
    None = None
    HasQueue = TRUE
    MinTries = 3
    MaxTries = 3
    SeqMod = 2
    MaxCalls = 3
    MaxFaults = 1
    MaxOther = 0
    MaxInbox = 4
    AsDocumented = TRUE
CHECK_DEADLOCK FALSE
INVARIANTS
    RegistrationsOwned
PROPERTIES
    CallReturns
