SPECIFICATION Spec
CONSTANTS
    j1 = j1
    j2 = j2
    r1 = r1
    r2 = r2
    t1 = t1
    t2 = t2
    t3 = t3
    NoJob = NoJob
    NoRunner = NoRunner
    Jobs = {j1, j2}
    Runners = {r1, r2}
    Tasks = {t1, t2, t3}
    MaxRetries <- DelayedOnce
    Faults = {"crash"}
    MaxFaults = 2
    Delayed = {j2}
    JobsExpire = TRUE
    MaxWorkers = 1
SYMMETRY Symmetric
INVARIANTS TypeOK ExclusiveExecution PendingIsCarried RunningIsRecoverable RetryWaits NoOverclaim OwnAttempt
PROPERTIES Promise
CHECK_DEADLOCK FALSE
