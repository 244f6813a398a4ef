SPECIFICATION FairSpec
CONSTANTS
    Apps = {a1}
    Sockets = {s1, s2}
    Entries = {e1, e2}
    Free = Free
    Default = Default
    None = None
    Prealloc = 1
    MaxPackets = 1
    MaxBuffers = 2
    Spurious = TRUE
CHECK_DEADLOCK FALSE
INVARIANTS
    DefaultOnlyIfUnclaimed
PROPERTIES
    DetachAndJoinReturn
