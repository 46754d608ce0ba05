SPECIFICATION FairSpec
CONSTANTS
    MaxHour = 2
    MaxRecords = 3
    MaxEvents = 2
    MaxFaults = 1
    MaxErrors = 1
INVARIANTS TypeOK RecordsKept ArchivedOnce
PROPERTY EventuallyStored
CHECK_DEADLOCK FALSE
