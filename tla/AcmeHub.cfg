SPECIFICATION FairSpec
CONSTANTS
    ref1 = ref1
    ref2 = ref2
    a = a
    b = b
    c = c
    NoSession = NoSession
    NoRef = NoRef
    Refs = {ref1, ref2}
    Values = {a, b, c}
    Digests <- Shared
    Sessions = {s1, s2}
    Faults = {"session", "provider", "cname", "client", "timeout"}
    MaxFaults = 2
INVARIANTS TypeOK ReconciledIsExact ConfirmedIsServed LeaseIsIntended
PROPERTIES RetiredStaysRetired LeaseEnds
CHECK_DEADLOCK FALSE
