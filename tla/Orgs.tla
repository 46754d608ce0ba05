-------------------------------- MODULE Orgs --------------------------------
(***************************************************************************)
(* Organisations and their members (gorbital/orgshttp), composed with the  *)
(* account deletion of gorbital/authhttp.                                  *)
(*                                                                         *)
(* An operation on an organisation runs in one transaction that locks the  *)
(* organisation's row first and reads the caller's role under the lock     *)
(* (lockOrg), so it is one action here, enabled while nobody holds the     *)
(* lock.  The account of a member lives in the auth module's table, which  *)
(* that lock does not cover: an account is deleted in a transaction of its *)
(* own, and only afterwards the AccountDeleted hook removes it from its    *)
(* organisations, one transaction each.  The one transaction that reads    *)
(* accounts more than once (removeFromOrg) is split where an account       *)
(* deletion can fall between its reads.                                    *)
(*                                                                         *)
(* Names, versions, e-mail addresses and rate limits are left out: an      *)
(* invitation's address is the account that owns it, and the limits only   *)
(* refuse.                                                                 *)
(***************************************************************************)
EXTENDS Integers, FiniteSets

CONSTANTS
    Users,
    Teams,       \* organisations that are not personal workspaces
    Workspaces,  \* users whose personal workspace is modelled
    Invitations, \* invitation rows that can be created
    NoOrg,       \* no organisation
    NoUser,      \* no user
    MaxOwnedOrgs,\* live teams a user may own by creating or restoring
    Retention,   \* how long a deleted organisation is kept
    InvitationTTL,
    Starts,      \* memberships a team may have at the start
    MaxRequests, \* bound on the requests that change organisations
    MaxDeletions,\* bound on accounts being deleted or deleted
    MaxLate,     \* bound on requests still in flight when an account is deleted
    MaxFaults,   \* bound on failed or interrupted hooks
    MaxNow       \* bound on the clock

ASSUME SetsAssumption ==
    /\ Workspaces \subseteq Users
    /\ Teams \cap Users = {}
    /\ NoOrg \notin Teams \cup Users
    /\ NoUser \notin Users
ASSUME BoundsAssumption ==
    /\ MaxOwnedOrgs \in Nat /\ Retention \in Nat /\ InvitationTTL \in Nat
    /\ MaxRequests \in Nat /\ MaxDeletions \in Nat /\ MaxLate \in Nat /\ MaxFaults \in Nat
    /\ MaxNow \in Nat

(* The unique index orgs_personal allows one workspace per user for good, so
   the user names it. *)
Orgs == Teams \cup Workspaces
Personal(o) == o \in Workspaces

Roles == {"owner", "admin", "member"}
NotMember == "none"

(* The org catalog of the orgs module. *)
Permissions(r) ==
    CASE r = "owner"  -> {"read", "manage", "delete"}
      [] r = "admin"  -> {"read", "manage"}
      [] r = "member" -> {"read"}
      [] OTHER        -> {}

VARIABLES
    stage,      \* orgs: "absent", "live", "deleted" or "purged"
    purgeAfter, \* orgs.purge_after, while deleted
    role,       \* org_members.role of every user in every organisation
    joined,     \* org_members.joined_at
    acct,       \* every account, and its deletion as far as it got
    requests,   \* requests that changed organisations so far
    late,       \* requests of a deleted account that were authenticated before
    inv,        \* org_invitations
    accept,     \* AcceptInvitation between its reads and its transaction
    tokens,     \* tokens sent so far
    spent,      \* history: tokens replaced, revoked or used
    purge,      \* the orgs_purge job: its clock and the rows it listed
    skipped,    \* history: organisations the hook did not get to, or that a
                \* request of the account restored behind it
    now,
    faults

orgVars == <<stage, purgeAfter, role, joined>>
invVars == <<inv, accept, tokens, spent>>
vars == <<orgVars, acct, requests, late, invVars, purge, skipped, now, faults>>

AccountStages == {"live", "checked", "deleted", "removing", "done", "gone"}
Accounts == [st : AccountStages, todo : SUBSET Orgs, at : Orgs \cup {NoOrg}]

InvitationRows ==
    [st : {"none", "open", "accepted", "revoked"}, org : Teams \cup {NoOrg},
     to : Users \cup {NoUser}, by : Users \cup {NoUser}, role : Roles \cup {NotMember},
     token : 0..MaxRequests, expires : Nat]
NoInvitation == [st |-> "none", org |-> NoOrg, to |-> NoUser, by |-> NoUser,
                 role |-> NotMember, token |-> 0, expires |-> 0]

Acceptances == [inv : Invitations \cup {NoOrg}, token : 0..MaxRequests, at : Nat]
NoAccept == [inv |-> NoOrg, token |-> 0, at |-> 0]

TypeOK ==
    /\ stage \in [Orgs -> {"absent", "live", "deleted", "purged"}]
    /\ purgeAfter \in [Orgs -> Nat]
    /\ role \in [Orgs -> [Users -> Roles \cup {NotMember}]]
    /\ joined \in [Orgs -> [Users -> Int]]
    /\ acct \in [Users -> Accounts]
    /\ requests \in 0..MaxRequests
    /\ late \in [Users -> 0..MaxLate]
    /\ inv \in [Invitations -> InvitationRows]
    /\ accept \in [Users -> Acceptances]
    /\ tokens \in 0..MaxRequests
    /\ spent \subseteq 1..MaxRequests
    /\ purge \in [now : Nat, todo : SUBSET Orgs]
    /\ skipped \subseteq Orgs
    /\ now \in 0..MaxNow
    /\ faults \in 0..MaxFaults

NoMembers == [u \in Users |-> NotMember]
Nobody == [role |-> NoMembers, joined |-> [u \in Users |-> 0]]

(* The accounts exist, workspaces do not.  A team has the members of some
   start, an owner among them, or does not exist yet. *)
ASSUME StartsAssumption ==
    /\ Starts \subseteq [role : [Users -> Roles \cup {NotMember}], joined : [Users -> Int]]
    /\ \A q \in Starts : q.role # NoMembers => \E u \in Users : q.role[u] = "owner"

Init ==
    /\ \E start \in [Teams -> Starts] :
         LET list == [o \in Orgs |-> IF o \in Teams THEN start[o] ELSE Nobody] IN
         /\ stage = [o \in Orgs |-> IF list[o].role = NoMembers THEN "absent" ELSE "live"]
         /\ role = [o \in Orgs |-> list[o].role]
         /\ joined = [o \in Orgs |-> list[o].joined]
    /\ purgeAfter = [o \in Orgs |-> 0]
    /\ acct = [u \in Users |-> [st |-> "live", todo |-> {}, at |-> NoOrg]]
    /\ requests = 0
    /\ late = [u \in Users |-> 0]
    /\ inv = [i \in Invitations |-> NoInvitation]
    /\ accept = [u \in Users |-> NoAccept]
    /\ tokens = 0
    /\ spent = {}
    /\ purge = [now |-> 0, todo |-> {}]
    /\ skipped = {}
    /\ now = 0
    /\ faults = 0

-----------------------------------------------------------------------------
(* What the transactions read *)

Live(u) == acct[u].st \in {"live", "checked"} \* deleted_at IS NULL

(* An account deletion holds o's row lock between its reads. *)
Locked(o) == \E u \in Users : acct[u].at = o

(* u's request was authenticated while the account was live. *)
Acts(u) ==
    /\ Live(u) \/ late[u] > 0
    /\ requests < MaxRequests /\ requests' = requests + 1
    /\ late' = IF Live(u) THEN late ELSE [late EXCEPT ![u] = @ - 1]

(* lockOrg: a live organisation, and a member whose role grants the
   permission, read under the lock. *)
LockOrg(u, o, permission) ==
    /\ stage[o] = "live"
    /\ ~Locked(o)
    /\ permission \in Permissions(role[o][u])

CanAssign(mine, r) ==
    IF r = "owner" THEN mine = "owner" ELSE Permissions(r) \subseteq Permissions(mine)

\* Faulty variant: deleted accounts count as owners.
OtherOwnersAny(o, u) == {v \in Users \ {u} : role[o][v] = "owner"}

(* CountOwners: the owners other than u with a live account. *)
OtherOwners(o, u) == {v \in Users \ {u} : role[o][v] = "owner" /\ Live(v)}

KeepAnOwner(o, u) == role[o][u] = "owner" => OtherOwners(o, u) # {}

(* CountOwnedOrgs *)
Owned(u) == {o \in Teams : stage[o] = "live" /\ role[o][u] = "owner"}

(* The members other than u with a role of S and a live account... *)
LiveOthers(o, u, S) == {v \in Users \ {u} : role[o][v] \in S /\ Live(v)}

(* ...and those of them that joined first, of whom user_id picks one. *)
Earliest(o, S) == {v \in S : \A w \in S : joined[o][v] <= joined[o][w]}

DropMember(o, u) ==
    /\ role' = [role EXCEPT ![o][u] = NotMember]
    /\ joined' = [joined EXCEPT ![o][u] = 0]

AddMember(o, u, r, at) ==
    /\ role' = [role EXCEPT ![o][u] = r]
    /\ joined' = [joined EXCEPT ![o][u] = at]

(* The hook of u's deletion has yet to reach o. *)
Leaving(u, o) ==
    \/ acct[u].st = "deleted"
    \/ acct[u].st = "removing" /\ (o \in acct[u].todo \/ acct[u].at = o)

\* Faulty variant: the retention is counted backwards.
MarkOrgDeletedBackwards(o) ==
    /\ stage' = [stage EXCEPT ![o] = "deleted"]
    /\ purgeAfter' = [purgeAfter EXCEPT ![o] = now - Retention]

MarkOrgDeleted(o) ==
    /\ stage' = [stage EXCEPT ![o] = "deleted"]
    /\ purgeAfter' = [purgeAfter EXCEPT ![o] = now + Retention]

-----------------------------------------------------------------------------
(* Organisations *)

(* Create: checkOwnedOrgs under the user's advisory lock, then the row and its
   owner. *)
Create(u, o) ==
    /\ Acts(u)
    /\ stage[o] = "absent"
    /\ Cardinality(Owned(u)) < MaxOwnedOrgs
    /\ stage' = [stage EXCEPT ![o] = "live"]
    /\ AddMember(o, u, "owner", now)
    /\ UNCHANGED <<purgeAfter, acct, invVars, purge, skipped, now, faults>>

(* EnsurePersonalWorkspace, after registration and whenever u lists
   organisations; a second one meets the unique index. *)
EnsurePersonalWorkspace(u) ==
    /\ Acts(u)
    /\ stage[u] = "absent"
    /\ stage' = [stage EXCEPT ![u] = "live"]
    /\ AddMember(u, u, "owner", now)
    /\ UNCHANGED <<purgeAfter, acct, invVars, purge, skipped, now, faults>>

Delete(u, o) ==
    /\ Acts(u)
    /\ LockOrg(u, o, "delete")
    /\ ~Personal(o)
    /\ MarkOrgDeleted(o)
    /\ UNCHANGED <<role, joined, acct, invVars, purge, skipped, now, faults>>

Restore(u, o) ==
    /\ Acts(u)
    /\ stage[o] = "deleted" /\ ~Locked(o)
    /\ "delete" \in Permissions(role[o][u])
    /\ role[o][u] = "owner" => Cardinality(Owned(u)) < MaxOwnedOrgs
    /\ stage' = [stage EXCEPT ![o] = "live"]
    /\ purgeAfter' = [purgeAfter EXCEPT ![o] = 0]
    /\ skipped' = IF Live(u) \/ Leaving(u, o) THEN skipped ELSE skipped \cup {o}
    /\ UNCHANGED <<role, joined, acct, invVars, purge, now, faults>>

(* Purge lists the organisations that are due at its start... *)
PurgeList ==
    /\ purge.todo = {}
    /\ purge' = [now |-> now,
                 todo |-> {o \in Orgs : stage[o] = "deleted" /\ purgeAfter[o] <= now}]
    /\ purge'.todo # {}
    /\ UNCHANGED <<orgVars, acct, requests, late, invVars, skipped, now, faults>>

\* Faulty variant: what was listed is deleted, whatever became of it.
PurgeDueListed(o) == stage[o] \in {"live", "deleted"}

(* ...and DeleteOrg checks each again in its statement. *)
PurgeDue(o) == stage[o] = "deleted" /\ purgeAfter[o] <= purge.now

(* Members and invitations go with the row (ON DELETE CASCADE). *)
PurgeOrg(o) ==
    /\ o \in purge.todo /\ ~Locked(o)
    /\ purge' = [purge EXCEPT !.todo = @ \ {o}]
    /\ IF PurgeDue(o)
       THEN /\ stage' = [stage EXCEPT ![o] = "purged"]
            /\ purgeAfter' = [purgeAfter EXCEPT ![o] = 0]
            /\ role' = [role EXCEPT ![o] = NoMembers]
            /\ joined' = [joined EXCEPT ![o] = Nobody.joined]
            /\ inv' = [i \in Invitations |->
                         IF inv[i].org = o THEN [inv[i] EXCEPT !.st = "revoked"]
                                           ELSE inv[i]]
            /\ spent' = spent \cup {inv[i].token : i \in {j \in Invitations : inv[j].org = o}}
       ELSE UNCHANGED <<orgVars, inv, spent>>
    /\ UNCHANGED <<acct, requests, late, accept, tokens, skipped, now, faults>>

-----------------------------------------------------------------------------
(* Members *)

ChangeRole(u, o, m, r) ==
    /\ Acts(u)
    /\ LockOrg(u, o, "manage")
    /\ role[o][m] \notin {NotMember, r}
    /\ CanAssign(role[o][u], role[o][m]) /\ CanAssign(role[o][u], r)
    /\ KeepAnOwner(o, m)
    /\ role' = [role EXCEPT ![o][m] = r]
    /\ UNCHANGED <<stage, purgeAfter, joined, acct, invVars, purge, skipped, now, faults>>

RemoveMember(u, o, m) ==
    /\ Acts(u)
    /\ m # u
    /\ LockOrg(u, o, "manage")
    /\ role[o][m] # NotMember
    /\ CanAssign(role[o][u], role[o][m])
    /\ KeepAnOwner(o, m)
    /\ DropMember(o, m)
    /\ UNCHANGED <<stage, purgeAfter, acct, invVars, purge, skipped, now, faults>>

Leave(u, o) ==
    /\ Acts(u)
    /\ LockOrg(u, o, "read")
    /\ ~Personal(o)
    /\ KeepAnOwner(o, u)
    /\ DropMember(o, u)
    /\ UNCHANGED <<stage, purgeAfter, acct, invVars, purge, skipped, now, faults>>

-----------------------------------------------------------------------------
(* Invitations *)

NewToken == tokens' = tokens + 1

(* Invite: the open invitation of the address is revoked if it expired, and
   otherwise the unique index refuses a second one. *)
Invite(u, o, i, m, r) ==
    LET old == {j \in Invitations : inv[j].org = o /\ inv[j].to = m /\ inv[j].st = "open"} IN
    /\ Acts(u)
    /\ LockOrg(u, o, "manage")
    /\ CanAssign(role[o][u], r)
    /\ ~Personal(o)
    /\ role[o][m] = NotMember
    /\ inv[i].st = "none"
    /\ \A j \in old : inv[j].expires <= now
    /\ NewToken
    /\ inv' = [j \in Invitations |->
                 IF j = i THEN [st |-> "open", org |-> o, to |-> m, by |-> u, role |-> r,
                                token |-> tokens + 1, expires |-> now + InvitationTTL]
                 ELSE IF j \in old THEN [inv[j] EXCEPT !.st = "revoked"]
                 ELSE inv[j]]
    /\ spent' = spent \cup {inv[j].token : j \in old}
    /\ UNCHANGED <<orgVars, acct, accept, purge, skipped, now, faults>>

(* openInvitation, under the organisation's lock. *)
OpenInvitation(u, i) ==
    /\ inv[i].st = "open"
    /\ LockOrg(u, inv[i].org, "manage")
    /\ CanAssign(role[inv[i].org][u], inv[i].role)

ResendInvitation(u, i) ==
    /\ Acts(u)
    /\ OpenInvitation(u, i)
    /\ NewToken
    /\ inv' = [inv EXCEPT ![i].token = tokens + 1, ![i].by = u,
                          ![i].expires = now + InvitationTTL]
    /\ spent' = spent \cup {inv[i].token}
    /\ UNCHANGED <<orgVars, acct, accept, purge, skipped, now, faults>>

RevokeInvitation(u, i) ==
    /\ Acts(u)
    /\ OpenInvitation(u, i)
    /\ inv' = [inv EXCEPT ![i].st = "revoked"]
    /\ spent' = spent \cup {inv[i].token}
    /\ UNCHANGED <<orgVars, acct, accept, tokens, purge, skipped, now, faults>>

(* AcceptInvitation reads the account, the clock and the invitation its token
   names before the transaction.  Someone else's invitation, and one that
   ended already, are refused whatever happens in between. *)
AcceptBegin(u, i) ==
    /\ Live(u)
    /\ accept[u] = NoAccept
    /\ inv[i].st = "open" /\ inv[i].to = u
    /\ accept' = [accept EXCEPT ![u] = [inv |-> i, token |-> inv[i].token, at |-> now]]
    /\ UNCHANGED <<orgVars, acct, requests, late, inv, tokens, spent, purge, skipped, now, faults>>

\* Faulty variant: the token is not compared again under the lock.
StillPendingUnchecked(a) == inv[a.inv].st = "open" /\ a.at < inv[a.inv].expires

(* Under the lock: the token is still the invitation's, and PendingAt. *)
StillPending(a) ==
    /\ inv[a.inv].token = a.token
    /\ inv[a.inv].st = "open"
    /\ a.at < inv[a.inv].expires

(* checkInviter *)
InviterMayAssign(i) ==
    LET mine == role[inv[i].org][inv[i].by] IN
    /\ Live(inv[i].by)
    /\ "manage" \in Permissions(mine)
    /\ CanAssign(mine, inv[i].role)

Admits(u, a) ==
    LET o == inv[a.inv].org IN
    /\ stage[o] = "live"
    /\ StillPending(a)
    /\ InviterMayAssign(a.inv)
    /\ acct[u].st # "gone" /\ role[o][u] = NotMember

AcceptCommit(u) ==
    LET a == accept[u]
        i == a.inv
        o == inv[i].org IN
    /\ a # NoAccept
    /\ ~Locked(o)
    /\ accept' = [accept EXCEPT ![u] = NoAccept]
    /\ IF Admits(u, a)
       THEN /\ AddMember(o, u, inv[i].role, a.at)
            /\ inv' = [inv EXCEPT ![i].st = "accepted"]
            /\ spent' = spent \cup {a.token}
       ELSE UNCHANGED <<role, joined, inv, spent>>
    /\ UNCHANGED <<stage, purgeAfter, acct, requests, late, tokens, purge, skipped, now, faults>>

-----------------------------------------------------------------------------
(* Account deletion: DeleteAccount and DeleteUser of the auth module *)

Memberships(u) == {o \in Orgs : role[o][u] # NotMember}

(* CheckAccountDeletion refuses the only live owner of a live team with other
   live members. *)
SoleOwnerWithOthers(u, o) ==
    /\ ~Personal(o) /\ stage[o] = "live"
    /\ role[o][u] = "owner"
    /\ OtherOwners(o, u) = {}
    /\ LiveOthers(o, u, Roles) # {}

CheckAccountDeletion(u) ==
    /\ acct[u].st = "live"
    /\ Cardinality({v \in Users : acct[v].st # "live"}) < MaxDeletions
    /\ \A o \in Orgs : ~SoleOwnerWithOthers(u, o)
    /\ acct' = [acct EXCEPT ![u].st = "checked"]
    /\ UNCHANGED <<orgVars, requests, late, invVars, purge, skipped, now, faults>>

(* A wrong password or second factor ends the deletion. *)
DeletionRefused(u) ==
    /\ acct[u].st = "checked"
    /\ acct' = [acct EXCEPT ![u].st = "live"]
    /\ UNCHANGED <<orgVars, requests, late, invVars, purge, skipped, now, faults>>

(* The transaction that marks the account deleted and ends its sessions.
   Requests authenticated before may still run. *)
MarkUserDeleted(u) ==
    /\ acct[u].st = "checked"
    /\ acct' = [acct EXCEPT ![u].st = "deleted"]
    /\ late' = [late EXCEPT ![u] = MaxLate]
    /\ UNCHANGED <<orgVars, requests, invVars, purge, skipped, now, faults>>

(* RemoveAccount, the AccountDeleted hook, lists u's organisations... *)
RemoveAccount(u) ==
    /\ acct[u].st = "deleted"
    /\ acct' = [acct EXCEPT ![u] = [st |-> "removing", todo |-> Memberships(u), at |-> NoOrg]]
    /\ UNCHANGED <<orgVars, requests, late, invVars, purge, skipped, now, faults>>

(* ...and removeFromOrg locks each.  One that was purged, that u left, or
   that is deleted needs no hand-over; a workspace, or one without other live
   members, is deleted. *)
RemoveFromOrg(u, o) ==
    LET alone == LiveOthers(o, u, Roles) = {}
        handOver == role[o][u] = "owner" /\ stage[o] = "live" /\ ~Personal(o) /\ ~alone IN
    /\ acct[u].st = "removing" /\ acct[u].at = NoOrg
    /\ o \in acct[u].todo /\ ~Locked(o)
    /\ acct' = [acct EXCEPT ![u].todo = @ \ {o}, ![u].at = IF handOver THEN o ELSE NoOrg]
    /\ IF handOver \/ role[o][u] = NotMember
       THEN UNCHANGED orgVars
       ELSE /\ DropMember(o, u)
            /\ IF stage[o] = "live" /\ (Personal(o) \/ alone)
               THEN MarkOrgDeleted(o)
               ELSE UNCHANGED <<stage, purgeAfter>>
    /\ UNCHANGED <<requests, late, invVars, purge, skipped, now, faults>>

\* Faulty variant: the owner is removed without a hand-over.
HandOverNone(u, o) == DropMember(o, u)

(* The earliest live admin, or else the earliest live member, becomes owner
   when no other live owner is left.  When every other account was deleted
   since the first read, the transaction fails and u stays. *)
HandOver(u, o) ==
    LET admins == LiveOthers(o, u, {"admin"})
        others == LiveOthers(o, u, Roles) IN
    IF OtherOwners(o, u) # {} THEN DropMember(o, u)
    ELSE IF others = {} THEN UNCHANGED <<role, joined>>
    ELSE /\ \E next \in Earliest(o, IF admins # {} THEN admins ELSE others) :
              role' = [role EXCEPT ![o][next] = "owner", ![o][u] = NotMember]
         /\ joined' = [joined EXCEPT ![o][u] = 0]

RemoveOwner(u) ==
    /\ acct[u].at # NoOrg
    /\ acct' = [acct EXCEPT ![u].at = NoOrg]
    /\ HandOver(u, acct[u].at)
    /\ UNCHANGED <<stage, purgeAfter, requests, late, invVars, purge, skipped, now, faults>>

RemoveAccountDone(u) ==
    /\ acct[u].st = "removing" /\ acct[u].todo = {} /\ acct[u].at = NoOrg
    /\ acct' = [acct EXCEPT ![u].st = "done"]
    /\ UNCHANGED <<orgVars, requests, late, invVars, purge, skipped, now, faults>>

Fault == faults < MaxFaults /\ faults' = faults + 1

(* The hook's first query fails, or the process stops: the error is logged at
   most, and nothing runs the hook again. *)
HookLost(u) ==
    /\ acct[u].st \in {"deleted", "removing"}
    /\ Fault
    /\ acct' = [acct EXCEPT ![u] = [st |-> "done", todo |-> {}, at |-> NoOrg]]
    /\ skipped' = skipped \cup Memberships(u)
    /\ UNCHANGED <<orgVars, requests, late, invVars, purge, now>>

(* One organisation's transaction fails; the others go on. *)
RemoveFails(u, o) ==
    /\ acct[u].st = "removing"
    /\ o = acct[u].at \/ (acct[u].at = NoOrg /\ o \in acct[u].todo)
    /\ Fault
    /\ acct' = [acct EXCEPT ![u].todo = @ \ {o}, ![u].at = NoOrg]
    /\ skipped' = skipped \cup {o}
    /\ UNCHANGED <<orgVars, requests, late, invVars, purge, now>>

(* DeleteDeletedUsers, long after the last request of the account ended: its
   memberships go with the row (ON DELETE CASCADE). *)
PurgeUser(u) ==
    /\ acct[u].st = "done"
    /\ accept[u] = NoAccept
    /\ acct' = [acct EXCEPT ![u].st = "gone"]
    /\ late' = [late EXCEPT ![u] = 0]
    /\ role' = [o \in Orgs |-> [role[o] EXCEPT ![u] = NotMember]]
    /\ joined' = [o \in Orgs |-> [joined[o] EXCEPT ![u] = 0]]
    /\ UNCHANGED <<stage, purgeAfter, requests, invVars, purge, skipped, now, faults>>

Tick ==
    /\ now < MaxNow
    /\ now' = now + 1
    /\ UNCHANGED <<orgVars, acct, requests, late, invVars, purge, skipped, faults>>

-----------------------------------------------------------------------------
Membership(u, o) ==
    \/ \E m \in Users, r \in Roles : ChangeRole(u, o, m, r)
    \/ \E m \in Users : RemoveMember(u, o, m)
    \/ Leave(u, o) \/ Delete(u, o) \/ Restore(u, o)
    \/ \E i \in Invitations, m \in Users, r \in Roles : Invite(u, o, i, m, r)

Invited(u) ==
    \/ \E i \in Invitations :
         ResendInvitation(u, i) \/ RevokeInvitation(u, i) \/ AcceptBegin(u, i)
    \/ AcceptCommit(u)

Hook(u) ==
    \/ RemoveAccount(u) \/ RemoveOwner(u) \/ RemoveAccountDone(u)
    \/ \E o \in Orgs : RemoveFromOrg(u, o)

Next ==
    \/ \E u \in Users :
         \/ \E o \in Teams : Create(u, o)
         \/ \E o \in Orgs : Membership(u, o) \/ RemoveFails(u, o)
         \/ Invited(u)
         \/ CheckAccountDeletion(u) \/ DeletionRefused(u) \/ MarkUserDeleted(u)
         \/ Hook(u) \/ HookLost(u) \/ PurgeUser(u)
    \/ \E u \in Workspaces : EnsurePersonalWorkspace(u)
    \/ PurgeList \/ \E o \in Orgs : PurgeOrg(o)
    \/ Tick

Spec == Init /\ [][Next]_vars

(* DeleteAccount calls the hook itself, so a hook that is not interrupted goes
   on to its end. *)
FairSpec == Spec /\ \A u \in Users : WF_vars(Hook(u))

-----------------------------------------------------------------------------
(* Properties *)

HasLiveMember(o) == \E u \in Users : role[o][u] # NotMember /\ Live(u)
HasLiveOwner(o) == \E u \in Users : role[o][u] = "owner" /\ Live(u)
Ownerless(o) == stage[o] = "live" /\ HasLiveMember(o) /\ ~HasLiveOwner(o)

(* "At least one owner": a live organisation with a live member has an owner
   with a live account, or a deleted owner whose hook will hand it over, in
   every interleaving of role changes, removals, leaves, accepted invitations,
   restores and account deletions; only where a hook failed, or a late request
   of a deleted account restored it behind its hook, may it have none. *)
OwnerKept ==
    \A o \in Orgs \ skipped :
        Ownerless(o) => \E u \in Users : role[o][u] = "owner" /\ Leaving(u, o)

(* An organisation left with no live owner by account deletions gets one, is
   deleted or loses its last live member, with the same exception. *)
HandedOver ==
    \A o \in Orgs : Ownerless(o) ~> (~Ownerless(o) \/ o \in skipped)

(* A token admits at most one member, and none once it was replaced by a
   resend, revoked or purged, whatever happened between AcceptInvitation's
   reads and its transaction. *)
SpentTokensAdmitNobody ==
    [][\A u \in Users :
         accept[u] # NoAccept /\ accept'[u] = NoAccept /\ role' # role
            => accept[u].token \notin spent]_vars

(* The purge removes an organisation only while it is deleted and its own
   purge time has passed: one that was restored since the job listed it
   stays. *)
PurgesOnlyDue ==
    [][\A o \in Orgs :
         stage[o] # "purged" /\ stage'[o] = "purged"
            => stage[o] = "deleted" /\ purgeAfter[o] <= now]_vars
=============================================================================
