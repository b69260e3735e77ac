SPECIFICATION ControlSpec
CONSTANTS
    NoJob = NoJob
    NoRunner = NoRunner
    Jobs = {j1}
    Runners = {r1, r2}
    Tasks = {t1, t2}
    MaxRetries <- TwoRetries
    Faults = {"crash", "lateTouch", "republish"}
    MaxFaults = 1
    Delayed = {}
    JobsExpire = TRUE
    MaxWorkers = 1
    Operations = {"cancel", "pause", "resume", "retry", "clear", "recover", "clearChannel"}
    MaxOps = 1
SYMMETRY Symmetric
INVARIANTS ControlTypeOK FenceUnlessRetried CarriedThroughCancel RecoverableUnlessCleared
PROPERTIES CanceledIsNotStarted
CHECK_DEADLOCK FALSE
