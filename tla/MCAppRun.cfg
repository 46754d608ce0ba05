SPECIFICATION FairSpec
CONSTANTS
    Runners = {r1, r2}
    Items = 2
    MaxSignals = 3
INVARIANTS TypeOK ClosesAfterRunners ErrorsReported NilMeansClean
PROPERTY Terminates
CHECK_DEADLOCK FALSE
