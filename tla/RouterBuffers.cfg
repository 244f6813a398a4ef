SPECIFICATION Spec
CONSTANTS
    Apps = {a1, a2}
    Sockets = {s1}
    Entries = {e1, e2, e3}
    Free = Free
    Default = Default
    None = None
    Prealloc = 1
    MaxPackets = 2
    MaxBuffers = 3
    Spurious = FALSE
SYMMETRY EntryAppSymmetry
CHECK_DEADLOCK FALSE
INVARIANTS
    OwnedOnce
    RetiredQueueEmpty
    QueuesInOrder
    DeviceOpenWhileUsed
