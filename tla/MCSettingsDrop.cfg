SPECIFICATION Spec
CONSTANTS
    Instances = {i1}
    PlatformSlots = {p}
    OrgSlots = {o}
    MaxWrites = 2
    MaxFaults = 1
PROPERTY DropsOnlyDeleted
CHECK_DEADLOCK FALSE
