SPECIFICATION FairSpec
CONSTANTS
    j1 = j1
    r1 = r1
    r2 = r2
    t1 = t1
    t2 = t2
    NoJob = NoJob
    NoRunner = NoRunner
    Jobs = {j1}
    Runners = {r1, r2}
    Tasks = {t1, t2}
    MaxRetries <- TwoRetries
    Faults = {"crash"}
    MaxFaults = 2
    Delayed = {}
    JobsExpire = TRUE
    MaxWorkers = 1
PROPERTIES EveryJobEnds
CHECK_DEADLOCK FALSE
