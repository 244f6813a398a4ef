SPECIFICATION FairSpec
CONSTANTS
    Room = 2
    MaxRequest = 5
    MaxAnswer = 4
    BlankLimit = 3
    MaxCalls = 2
    MaxNoise = 2
    MaxWire = 3
CHECK_DEADLOCK FALSE
INVARIANTS
    RequestIntact
    AnswerIntact
PROPERTIES
    CallEnds
