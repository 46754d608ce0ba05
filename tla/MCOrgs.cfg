SPECIFICATION FairSpec
CONSTANTS
    u1 = u1
    u2 = u2
    u3 = u3
    Users = {u1, u2, u3}
    Starts <- MCStarts
    Teams = {t1}
    Workspaces = {u1}
    Invitations = {i1}
    NoOrg = NoOrg
    NoUser = NoUser
    MaxOwnedOrgs = 1
    Retention = 1
    InvitationTTL = 1
    MaxRequests = 2
    MaxDeletions = 2
    MaxLate = 1
    MaxFaults = 1
    MaxNow = 1
INVARIANTS TypeOK OwnerKept
PROPERTIES SpentTokensAdmitNobody PurgesOnlyDue HandedOver
CHECK_DEADLOCK FALSE
