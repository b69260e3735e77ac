SPECIFICATION Spec
CONSTANTS
    j1 = j1
    r1 = r1
    r2 = r2
    t1 = t1
    t2 = t2
    NoJob = NoJob
    NoRunner = NoRunner
    Jobs = {j1}
    Runners = {r1, r2}
    Tasks = {t1, t2}
    MaxRetries <- TwoRetries
    Faults = {"redis", "lostReply", "db", "windowCrash", "retryCrash", "crash", "stop", "windowStop", "stall", "lateTouch"}
    MaxFaults = 2
    Delayed = {}
    JobsExpire = FALSE
    MaxWorkers = 1
SYMMETRY Symmetric
INVARIANTS ClaimFence OwnerRunsIt
CHECK_DEADLOCK FALSE
