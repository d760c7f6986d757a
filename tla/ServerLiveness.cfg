\* First packets that are refused at once; the server may be stopped.
SPECIFICATION FairSpec
CONSTANTS
    Conns = {c1, c2}
    NoConn = NoConn
    ControlFields = {224}
    MaxSessions = 1
    InitialExit = {FALSE, TRUE}
    MayStop = TRUE
PROPERTIES DestructionEnds AcceptReturns AwakeDrains
