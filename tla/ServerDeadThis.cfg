\* An error of ownership is reachable.
SPECIFICATION Spec
CONSTANTS
    Conns = {c1, c2}
    NoConn = NoConn
    ControlFields = {16}
    MaxSessions = 2
    InitialExit = {FALSE}
    MayStop = FALSE
INVARIANTS NoDeadThis
