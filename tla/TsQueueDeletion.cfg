\* _deletionQueue: two producers, deleter_job as the consumer.
SPECIFICATION FairSpec
CONSTANTS
    io = io
    timer = timer
    cleaner = cleaner
    Threads = {io, timer, cleaner}
    Consumers = {cleaner}
    OpsOf <- DeletionQueueOps
    Values = {v1, v2}
    Nothing = Nothing
    Cap = 3
INVARIANTS NoDataRace NeverPopsEmpty
PROPERTIES PushReturns AwakeTakes
