\* _activeSessions: the io thread calls back() while the cleaner erases.
SPECIFICATION Spec
CONSTANTS
    io = io
    timer = timer
    cleaner = cleaner
    Threads = {io, cleaner}
    Consumers = {}
    OpsOf <- ActiveSessionsOps
    Values = {v1, v2}
    Nothing = Nothing
    Cap = 2
INVARIANTS NoDataRace
