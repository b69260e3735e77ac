SPECIFICATION FairSpec
CONSTANTS
    j1 = j1
    j2 = j2
    s1 = s1
    s2 = s2
    NoScheduler = NoScheduler
    Schedulers = {s1, s2}
    Jobs = {j1, j2}
    Faults = {"crash", "windowCrash", "stop", "stall", "redis", "lostReply"}
    MaxFaults = 3
    Runners = {}
    NoJob = NoJob
    NoRunner = NoRunner
    MaxRetries <- NoRetries
    Delayed = {}
    JobsExpire = FALSE
INVARIANTS TypeOK OneLeader EntriesAccounted
PROPERTIES ActAsOne DueIsPromoted
CHECK_DEADLOCK FALSE
