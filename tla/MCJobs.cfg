SPECIFICATION FairSpec
CONSTANTS
    Instances = {i1}
    Writers = {w1}
    Names <- MCNames
    Schedules = {"daily", "weekly"}
    NoSchedule = "none"
    Default <- MCDefault
    Accepts <- MCAccepts
    MaxWrites = 2
    MaxFaults = 1
INVARIANTS TypeOK SchedulesInForce
PROPERTIES OverridesFollow EventuallyScheduled
CHECK_DEADLOCK FALSE
