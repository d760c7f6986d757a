\* One slot: the second connection is denied, or takes the slot over.
SPECIFICATION Spec
CONSTANTS
    Conns = {c1, c2}
    NoConn = NoConn
    ControlFields <- SixPackets
    MaxSessions = 1
    InitialExit = {FALSE}
    MayStop = FALSE
SYMMETRY ConnSymmetry
INVARIANTS TypeOK SessionLimit RefSound PublishOnlyIdentified
    DestroyedIsShut TimerJoined ScheduledAtMostTwice BackIsNew OnlyTimerCutsPending
PROPERTIES ImplementsSlots
