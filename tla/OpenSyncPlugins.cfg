CHECK_DEADLOCK FALSE
SPECIFICATION Spec
CONSTANTS
    NoName = NoName
    Dbs <- MCDbs
    Contents <- MCContents
    UserIds = {7}
    Values = {1, 2}
    PeerUids <- MCPeerUids
    MaxSyncs = 2
    MaxEdits = 1
    MaxCommits = 2
    MaxFaults = 1
INVARIANTS
    NothingMissed
    NoEcho
    CommitsLand
