\* The context goes while a session is open.
SPECIFICATION Spec
CONSTANTS
    Conns = {c1, c2}
    NoConn = NoConn
    ControlFields = {16}
    MaxSessions = 2
    InitialExit = {FALSE}
    MayStop = TRUE
INVARIANTS SocketInsideContext
