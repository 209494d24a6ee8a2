SPECIFICATION Spec
CONSTANTS
    j1 = j1
    j2 = j2
    j3 = j3
    Jobs = {j1, j2, j3}
    Workers = {w1, w2}
    NoJob = NoJob
    pool_size = 2
    MaxWaiting = 4
    Programs <- MCPrograms
INVARIANTS NoUseAfterFree QueueServed
PROPERTIES JobResolves
CHECK_DEADLOCK FALSE
