\* A scheduled connection may stay in the queue for ever.
SPECIFICATION FairSpec
CONSTANTS
    Conns = {c1, c2}
    NoConn = NoConn
    ControlFields = {224}
    MaxSessions = 2
    InitialExit = {FALSE}
    MayStop = FALSE
PROPERTIES ScheduledIsDeleted
