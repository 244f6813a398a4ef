SPECIFICATION Spec
CONSTANTS
    d1 = d1
    d2 = d2
    d3 = d3
    Devices <- MCDevices
    Configured <- MCConfigured
    OldEngine <- MCOldEngine
    Rosters <- MCRosters
    Conflicts <- MCConflicts
    Favour <- MCFavour
    MaxRuns = 2
    MaxConflicts = 2
    MaxCrashes = 1
    MaxDialogs = 2
    MaxClicks = 1
CHECK_DEADLOCK FALSE
INVARIANTS
    StampedOwnRun
    ResolvedAsAnswered
    NothingHangs
PROPERTIES
    RosterStopped
