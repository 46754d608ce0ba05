SPECIFICATION Spec
CONSTANTS
    Requests = {r1, r2, r3}
    Keys = {k1}
    Fingerprints = {f1, f2}
    NoReq = NoReq
    NoFp = NoFp
    LockTTL = 1
    Retentions = {2, 3}
    ClaimAttempts = 2
    MaxNow = 3
SYMMETRY Symmetry
INVARIANTS TypeOK OneRunnerPerKey ReplayFaithful
PROPERTIES StoredIsFinal
CHECK_DEADLOCK FALSE
