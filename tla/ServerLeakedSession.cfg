\* A session may be closed without ever leaving its slot.
SPECIFICATION Spec
CONSTANTS
    Conns = {c1, c2}
    NoConn = NoConn
    ControlFields = {16}
    MaxSessions = 2
    InitialExit = {FALSE}
    MayStop = FALSE
INVARIANTS NoLeakedSession
