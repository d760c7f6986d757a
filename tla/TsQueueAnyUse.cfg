\* Two threads that call every operation, wait() included, at any time.
SPECIFICATION Spec
CONSTANTS
    io = io
    timer = timer
    cleaner = cleaner
    Threads = {io, cleaner}
    Consumers = {}
    OpsOf <- EveryOp
    Values = {v1, v2}
    Nothing = Nothing
    Cap = 2
SYMMETRY MCSymmetry
INVARIANTS TypeOK
PROPERTIES Linearizable
