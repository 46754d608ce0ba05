SPECIFICATION Spec
CONSTANTS
    MaxHour = 2
    MaxRecords = 3
    MaxEvents = 2
    MaxFaults = 1
    MaxErrors = 0
INVARIANT CrashLosesOnlyBuffer
CHECK_DEADLOCK FALSE
