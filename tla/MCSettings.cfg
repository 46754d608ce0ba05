SPECIFICATION FairSpec
CONSTANTS
    Instances = {i1}
    PlatformSlots = {p}
    OrgSlots = {o}
    MaxWrites = 2
    MaxFaults = 2
INVARIANTS TypeOK WaitingIsCurrent
PROPERTIES EventuallyConverged ValuesFollow
CHECK_DEADLOCK FALSE
