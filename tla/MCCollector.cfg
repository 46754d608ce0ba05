SPECIFICATION FairSpec
CONSTANTS
    MaxRequests = 3
    MinuteLength = 2
    Grace = 2
    MaxDelay = 1
    MaxPending = 1
    Back = 3
    MaxNow = 5
    MaxFaults = 1
INVARIANTS TypeOK LostCoversDrops StopLosesOnlyLate
PROPERTIES RowsOnlyGrow EventuallyStored
CHECK_DEADLOCK FALSE
