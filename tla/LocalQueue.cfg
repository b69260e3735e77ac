SPECIFICATION FairSpec
CONSTANTS
    j1 = j1
    j2 = j2
    j3 = j3
    q1 = q1
    q2 = q2
    w1 = w1
    w2 = w2
    w3 = w3
    NoQueue = NoQueue
    NoWorker = NoWorker
    NoJob = NoJob
    Sentinel = Sentinel
    Jobs = {j1, j2, j3}
    Queues = {q1, q2}
    Workers = {w1, w2, w3}
    Delayed = {j2}
    MaxSize = 2
    MaxStops = 2
INVARIANTS TypeOK SingleWorker InOrder
PROPERTIES AcceptedRuns
CHECK_DEADLOCK FALSE
