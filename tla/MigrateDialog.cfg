CHECK_DEADLOCK FALSE
SPECIFICATION Spec
CONSTANTS
    NoName = NoName
    Right = "right"
    NoPassword = ""
    Passwords = {"", "right", "wrong"}
    MaxTries = 4
    MinTries = 3
    DbList <- MCDbList
    Sources <- MCSources
    Targets <- MCTargets
    MaxRounds = 2
    MaxFaults = 2
INVARIANTS
    MigrationComplete
    TriesLeft
    WorkStopsFirst
PROPERTIES
    KeepsExisting
    ThreadEnds
