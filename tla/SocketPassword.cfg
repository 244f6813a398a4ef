SPECIFICATION Spec
CONSTANTS
    Modes = {m1}
    None = None
    HasQueue = FALSE
    MinTries = 3
    MaxTries = 5
    SeqMod = 2
    MaxCalls = 6
    MaxFaults = 1
    MaxOther = 1
    MaxInbox = 4
    AsDocumented = FALSE
CHECK_DEADLOCK FALSE
INVARIANTS
    HashWithinTries
    NoOrphanSocket
