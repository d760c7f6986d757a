\* stop() may wait for the cleaner for ever.
SPECIFICATION FairSpec
CONSTANTS
    Conns = {c1}
    NoConn = NoConn
    ControlFields = {224}
    MaxSessions = 2
    InitialExit = {FALSE}
    MayStop = TRUE
PROPERTIES StopReturns
