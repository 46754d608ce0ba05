SPECIFICATION Spec
CONSTANTS
    Instances = {i1, i2}
    Requests = {r1, r2, r3}
    Limits <- MCLimits
    Micro = 2
    MaxNow = 5
    MaxEvents = 1
SYMMETRY Symmetry
INVARIANTS TypeOK SharedBudget
PROPERTIES RetryIsExact PrecheckOnlyFarOver
CHECK_DEADLOCK FALSE
