SPECIFICATION Spec
CONSTANTS
    j1 = j1
    s1 = s1
    s2 = s2
    NoScheduler = NoScheduler
    Schedulers = {s1, s2}
    Jobs = {j1}
    Faults = {"lateDelete", "stop"}
    MaxFaults = 2
    Runners = {}
    NoJob = NoJob
    NoRunner = NoRunner
    MaxRetries <- NoRetries
    Delayed = {}
    JobsExpire = FALSE
INVARIANT OneLeader
CHECK_DEADLOCK FALSE
