SPECIFICATION FairSpec
CONSTANTS
    NoCert = NoCert
    NoNames = NoNames
    Human = Human
    Certs = {c1, c2}
    Names = {n1}
    Workers = {w1, w2}
    Faults = {"crash", "provider", "ca", "lapse", "scan", "rerun", "backlog", "revoke"}
    MaxFaults = 1
    MaxDue = 1
INVARIANTS TypeOK OneIssuer ChallengeIntact LeftoverOwned OneRowPerNames
PROPERTIES ValidKept IssuingEnds
CHECK_DEADLOCK FALSE
