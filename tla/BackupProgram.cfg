CHECK_DEADLOCK FALSE
SPECIFICATION Spec
CONSTANTS
    NoName = NoName
    None = None
    d1 = d1
    Devices = {d1}
    First = d1
    DbList <- MCDbList
    Contents <- MCContents
    Archives <- MCArchives
    Claims = {0, 1}
    MaxOps = 2
    MaxScans = 2
    MaxFaults = 1
INVARIANTS
    DesktopWhileWorking
    ProgressExact
    BackupWhole
    RestoredOrReported
PROPERTIES
    EndReported
