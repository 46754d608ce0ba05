----------------------------- MODULE OrgsProofs -----------------------------
(***************************************************************************)
(* Proofs about Orgs for any accounts, teams, workspaces and invitations,  *)
(* any starting memberships and any bounds: an organisation keeps an       *)
(* owner, a spent token admits nobody, and the purge removes only what is  *)
(* due.                                                                    *)
(***************************************************************************)
EXTENDS Orgs, TLAPS

(* The types, by the part of the state. *)
OrgTypes ==
    /\ stage \in [Orgs -> {"absent", "live", "deleted", "purged"}]
    /\ purgeAfter \in [Orgs -> Nat]
    /\ role \in [Orgs -> [Users -> Roles \cup {NotMember}]]
    /\ joined \in [Orgs -> [Users -> Int]]
    /\ skipped \in SUBSET Orgs
AccountTypes ==
    /\ acct \in [Users -> Accounts]
    /\ requests \in 0..MaxRequests
    /\ late \in [Users -> 0..MaxLate]
InvitationTypes ==
    /\ inv \in [Invitations -> InvitationRows]
    /\ accept \in [Users -> Acceptances]
    /\ tokens \in 0..MaxRequests
    /\ spent \in SUBSET (1..MaxRequests)
ClockTypes ==
    /\ purge \in [now : Nat, todo : SUBSET Orgs]
    /\ now \in 0..MaxNow
    /\ faults \in 0..MaxFaults

(* An organisation that does not exist yet has no members. *)
AbsentEmpty == \A o \in Orgs : stage[o] = "absent" => \A u \in Users : role[o][u] = NotMember

(* Only a hook that runs is between its reads. *)
HookRuns == \A u \in Users : acct[u].at # NoOrg => acct[u].st = "removing"

(* Members, owners and the accounts behind them. *)
Owners == OrgTypes /\ AccountTypes /\ AbsentEmpty /\ HookRuns /\ OwnerKept

(* An invitation that was sent names its team, its people and its role. *)
RowsComplete ==
    \A i \in Invitations : inv[i].st # "none" =>
        /\ inv[i].org \in Teams /\ inv[i].to \in Users /\ inv[i].by \in Users
        /\ inv[i].role \in Roles /\ inv[i].token >= 1

(* Tokens are new when they are sent and belong to one invitation; the token
   of an open invitation is not spent. *)
TokensNew ==
    /\ tokens <= requests
    /\ \A t \in spent : t <= tokens
    /\ \A i \in Invitations : inv[i].token <= tokens
    /\ \A i \in Invitations : inv[i].st = "none" => inv[i].token = 0 /\ inv[i].org = NoOrg
    /\ \A i, j \in Invitations : inv[i].token = inv[j].token /\ inv[i].token # 0 => i = j
    /\ \A i \in Invitations : inv[i].st = "open" => inv[i].token \notin spent

(* Who accepts has found an invitation. *)
AcceptsFound ==
    \A u \in Users : accept[u] # NoAccept =>
        accept[u].inv \in Invitations /\ inv[accept[u].inv].st # "none"

Tokens == InvitationTypes /\ RowsComplete /\ TokensNew /\ AcceptsFound

(* The purge job's clock is not ahead. *)
Clocks == ClockTypes /\ purge.now <= now

(* The inductive invariant. *)
IInv == Owners /\ Tokens /\ Clocks

-----------------------------------------------------------------------------
(* Facts about the constants and the roles. *)
LEMMA SetFacts ==
    /\ NoOrg \notin Orgs /\ Teams \subseteq Orgs /\ Workspaces \subseteq Orgs
    /\ Workspaces \subseteq Users /\ NoUser \notin Users
    /\ "owner" \in Roles /\ NotMember \notin Roles
  BY SetsAssumption DEF Orgs, Roles, NotMember

LEMMA RoleFacts ==
    \A r \in Roles \cup {NotMember} :
        /\ "read" \in Permissions(r) => r # NotMember
        /\ "manage" \in Permissions(r) => r # NotMember
        /\ "delete" \in Permissions(r) => r = "owner"
  BY DEF Roles, NotMember, Permissions

(* One membership changes. *)
LEMMA RoleUpdate ==
    ASSUME OrgTypes, NEW o \in Orgs, NEW m \in Users, NEW r \in Roles \cup {NotMember},
           role' = [role EXCEPT ![o][m] = r]
    PROVE  /\ role' \in [Orgs -> [Users -> Roles \cup {NotMember}]]
           /\ role'[o][m] = r
           /\ \A p \in Orgs, v \in Users : p # o \/ v # m => role'[p][v] = role[p][v]
  BY DEF OrgTypes

LEMMA JoinedUpdate ==
    ASSUME OrgTypes, NEW o \in Orgs, NEW m \in Users, NEW k \in Int,
           joined' = [joined EXCEPT ![o][m] = k]
    PROVE  joined' \in [Orgs -> [Users -> Int]]
  BY DEF OrgTypes

(* An account's deletion goes one step on. *)
LEMMA StageUpdate ==
    ASSUME acct \in [Users -> Accounts], NEW u \in Users, NEW x \in AccountStages,
           acct' = [acct EXCEPT ![u].st = x]
    PROVE  /\ acct' \in [Users -> Accounts]
           /\ acct'[u].st = x /\ acct'[u].todo = acct[u].todo /\ acct'[u].at = acct[u].at
           /\ \A v \in Users : v # u => acct'[v] = acct[v]
  BY DEF Accounts

LEMMA HookUpdate ==
    ASSUME acct \in [Users -> Accounts], NEW u \in Users, NEW S \in SUBSET Orgs,
           NEW a \in Orgs \cup {NoOrg}, acct' = [acct EXCEPT ![u].todo = S, ![u].at = a]
    PROVE  /\ acct' \in [Users -> Accounts]
           /\ acct'[u].st = acct[u].st /\ acct'[u].todo = S /\ acct'[u].at = a
           /\ \A v \in Users : v # u => acct'[v] = acct[v]
  BY DEF Accounts

LEMMA AccountUpdate ==
    ASSUME acct \in [Users -> Accounts], NEW u \in Users, NEW x \in Accounts,
           acct' = [acct EXCEPT ![u] = x]
    PROVE  /\ acct' \in [Users -> Accounts] /\ acct'[u] = x
           /\ \A v \in Users : v # u => acct'[v] = acct[v]
  OBVIOUS

(* A request is counted, and so is one of a deleted account. *)
LEMMA ActsTypes ==
    ASSUME AccountTypes, NEW u \in Users, Acts(u)
    PROVE  /\ requests' = requests + 1 /\ requests' \in 0..MaxRequests
           /\ late' \in [Users -> 0..MaxLate]
<1>1. requests' = requests + 1 /\ requests' \in 0..MaxRequests
  BY BoundsAssumption DEF AccountTypes, Acts
<1>2. CASE Live(u)
  BY <1>1, <1>2 DEF AccountTypes, Acts
<1>3. CASE ~Live(u)
  <2>1. late[u] - 1 \in 0..MaxLate /\ late' = [late EXCEPT ![u] = late[u] - 1]
    BY <1>3, BoundsAssumption DEF AccountTypes, Acts
  <2> QED
    BY <1>1, <2>1 DEF AccountTypes
<1> QED
  BY <1>2, <1>3

-----------------------------------------------------------------------------
(* What an organisation needs to keep an owner. *)
Kept(o) == Ownerless(o) => \E u \in Users : role[o][u] = "owner" /\ Leaving(u, o)

LEMMA KeptAll == OwnerKept <=> \A o \in Orgs \ skipped : Kept(o)
  BY DEF OwnerKept, Kept

(* A step elsewhere: no account dies or is left by its hook, and the
   organisation keeps its members. *)
LEMMA KeptElsewhere ==
    ASSUME NEW o \in Orgs, Kept(o),
           stage'[o] = "live" => stage[o] = "live",
           \A u \in Users : role'[o][u] = role[o][u],
           \A u \in Users : (Live(u)' <=> Live(u)) /\ (Leaving(u, o) => Leaving(u, o)')
    PROVE  Kept(o)'
  BY DEF Kept, Ownerless, HasLiveMember, HasLiveOwner

(* A membership changes: the last live owner is not lost, and a first live
   member does not join. *)
LEMMA KeptByGuard ==
    ASSUME NEW o \in Orgs, NEW m \in Users, Kept(o), acct' = acct, stage' = stage,
           KeepAnOwner(o, m),
           role[o][m] # NotMember \/ HasLiveMember(o),
           \A u \in Users : u # m => role'[o][u] = role[o][u]
    PROVE  Kept(o)'
<1>1. CASE OtherOwners(o, m) # {}
  <2>1. PICK v \in Users : v # m /\ role[o][v] = "owner" /\ Live(v)
    BY <1>1 DEF OtherOwners
  <2>2. role'[o][v] = "owner" /\ Live(v)'
    BY <2>1 DEF Live
  <2> QED
    BY <2>2 DEF Kept, Ownerless, HasLiveOwner
<1>2. CASE role[o][m] # "owner"
  <2> SUFFICES ASSUME Ownerless(o)'
               PROVE  \E u \in Users : role'[o][u] = "owner" /\ Leaving(u, o)'
    BY DEF Kept
  <2>1. \A u \in Users : Live(u)' <=> Live(u)
    BY DEF Live
  <2>2. \A u \in Users : Leaving(u, o)' <=> Leaving(u, o)
    BY DEF Leaving
  <2>3. HasLiveMember(o)
    BY <2>1 DEF Ownerless, HasLiveMember
  <2>4. ~HasLiveOwner(o)
    BY <1>2, <2>1 DEF Ownerless, HasLiveOwner
  <2>5. PICK w \in Users : role[o][w] = "owner" /\ Leaving(w, o)
    BY <2>3, <2>4 DEF Kept, Ownerless
  <2> QED
    BY <1>2, <2>2, <2>5
<1> QED
  BY <1>1, <1>2 DEF KeepAnOwner

(* A membership of a live organisation changes in one transaction. *)
LEMMA MembershipKeeps ==
    ASSUME Owners, NEW o \in Orgs, NEW m \in Users, NEW r \in Roles \cup {NotMember},
           stage[o] = "live", KeepAnOwner(o, m),
           role[o][m] # NotMember \/ HasLiveMember(o),
           role' = [role EXCEPT ![o][m] = r],
           joined' \in [Orgs -> [Users -> Int]],
           AccountTypes', UNCHANGED <<stage, purgeAfter, acct, skipped>>
    PROVE  Owners'
<1>1. /\ role' \in [Orgs -> [Users -> Roles \cup {NotMember}]]
      /\ \A p \in Orgs, v \in Users : p # o \/ v # m => role'[p][v] = role[p][v]
  BY RoleUpdate DEF Owners
<1>2. OrgTypes'
  BY <1>1 DEF Owners, OrgTypes
<1>3. AbsentEmpty'
  BY <1>1 DEF Owners, AbsentEmpty
<1>4. HookRuns'
  BY DEF Owners, HookRuns
<1>5. OwnerKept'
  <2> SUFFICES ASSUME NEW p \in Orgs \ skipped PROVE Kept(p)'
    BY DEF OwnerKept, Kept
  <2>1. Kept(p)
    BY KeptAll DEF Owners
  <2>2. CASE p = o
    BY <1>1, <2>1, <2>2, KeptByGuard
  <2>3. CASE p # o
    <3>1. \A u \in Users : (Live(u)' <=> Live(u)) /\ (Leaving(u, p) => Leaving(u, p)')
      BY DEF Live, Leaving
    <3> QED
      BY <1>1, <2>1, <2>3, <3>1, KeptElsewhere
  <2> QED
    BY <2>2, <2>3
<1> QED
  BY <1>2, <1>3, <1>4, <1>5 DEF Owners

(* No membership and no account changes: an organisation is deleted, purged
   with its members, or stays. *)
LEMMA NoMemberKeeps ==
    ASSUME Owners, OrgTypes', AccountTypes', acct' = acct,
           \A o \in Orgs : \/ stage'[o] = stage[o] /\ role'[o] = role[o]
                           \/ stage'[o] = "deleted" /\ stage[o] # "absent"
                           \/ stage'[o] = "purged",
           skipped' = skipped
    PROVE  Owners'
<1>1. AbsentEmpty'
  BY DEF Owners, AbsentEmpty
<1>2. HookRuns'
  BY DEF Owners, HookRuns
<1>3. OwnerKept'
  <2> SUFFICES ASSUME NEW p \in Orgs \ skipped PROVE Kept(p)'
    BY DEF OwnerKept, Kept
  <2>1. Kept(p)
    BY KeptAll DEF Owners
  <2>2. CASE stage'[p] = stage[p] /\ role'[p] = role[p]
    <3>1. \A u \in Users : (Live(u)' <=> Live(u)) /\ (Leaving(u, p) => Leaving(u, p)')
      BY DEF Live, Leaving
    <3> QED
      BY <2>1, <2>2, <3>1, KeptElsewhere
  <2>3. CASE stage'[p] # "live"
    BY <2>3 DEF Kept, Ownerless
  <2> QED
    BY <2>2, <2>3
<1> QED
  BY <1>1, <1>2, <1>3 DEF Owners

(* An organisation that does not exist is created with one member. *)
LEMMA FoundingKeeps ==
    ASSUME Owners, NEW u \in Users, NEW o \in Orgs, stage[o] = "absent",
           stage' = [stage EXCEPT ![o] = "live"], AddMember(o, u, "owner", now), now \in Int,
           AccountTypes', UNCHANGED <<purgeAfter, acct, skipped>>
    PROVE  Owners'
<1>1. /\ role' \in [Orgs -> [Users -> Roles \cup {NotMember}]] /\ role'[o][u] = "owner"
      /\ \A p \in Orgs, v \in Users : p # o \/ v # u => role'[p][v] = role[p][v]
  <2>1. OrgTypes /\ "owner" \in Roles \cup {NotMember} /\ role' = [role EXCEPT ![o][u] = "owner"]
    BY SetFacts DEF Owners, AddMember
  <2> QED
    BY <2>1 DEF OrgTypes
<1>2. joined' \in [Orgs -> [Users -> Int]]
  BY JoinedUpdate DEF Owners, AddMember
<1>3. OrgTypes'
  BY <1>1, <1>2 DEF Owners, OrgTypes
<1>4. AbsentEmpty'
  BY <1>1 DEF Owners, AbsentEmpty, OrgTypes
<1>5. HookRuns'
  BY DEF Owners, HookRuns
<1>6. OwnerKept'
  <2> SUFFICES ASSUME NEW p \in Orgs \ skipped PROVE Kept(p)'
    BY DEF OwnerKept, Kept
  <2>1. Kept(p)
    BY KeptAll DEF Owners
  <2>2. CASE p = o
    <3>1. \A v \in Users : role'[o][v] # NotMember => v = u
      BY <1>1 DEF Owners, AbsentEmpty
    <3> QED
      BY <1>1, <2>2, <3>1 DEF Kept, Ownerless, HasLiveMember, HasLiveOwner
  <2>3. CASE p # o
    <3>1. \A v \in Users : (Live(v)' <=> Live(v)) /\ (Leaving(v, p) => Leaving(v, p)')
      BY DEF Live, Leaving
    <3>2. stage'[p] = stage[p]
      BY <2>3 DEF Owners, OrgTypes
    <3> QED
      BY <1>1, <2>1, <2>3, <3>1, <3>2, KeptElsewhere
  <2> QED
    BY <2>2, <2>3
<1> QED
  BY <1>3, <1>4, <1>5, <1>6 DEF Owners

(* A deleted organisation comes back: through a live owner, through one whose
   hook has yet to come, or marked in skipped. *)
LEMMA RestoreKeeps ==
    ASSUME Owners, NEW u \in Users, NEW o \in Orgs, Restore(u, o)
    PROVE  Owners'
<1>1. /\ stage' = [stage EXCEPT ![o] = "live"] /\ stage[o] = "deleted"
      /\ purgeAfter' = [purgeAfter EXCEPT ![o] = 0]
      /\ UNCHANGED <<role, joined, acct>>
      /\ skipped' = IF Live(u) \/ Leaving(u, o) THEN skipped ELSE skipped \cup {o}
  BY DEF Restore
<1>2. role[o][u] = "owner"
  BY RoleFacts DEF Restore, Owners, OrgTypes
<1>3. OrgTypes'
  <2>1. skipped' \in SUBSET Orgs
    BY <1>1 DEF Owners, OrgTypes
  <2> QED
    BY <1>1, <2>1 DEF Owners, OrgTypes
<1>4. AccountTypes'
  BY <1>1, ActsTypes DEF Restore, Owners, AccountTypes
<1>5. AbsentEmpty'
  BY <1>1 DEF Owners, AbsentEmpty, OrgTypes
<1>6. HookRuns'
  BY <1>1 DEF Owners, HookRuns
<1>7. OwnerKept'
  <2> SUFFICES ASSUME NEW p \in Orgs \ skipped' PROVE Kept(p)'
    BY DEF OwnerKept, Kept
  <2>1. \A v \in Users : (Live(v)' <=> Live(v)) /\ (Leaving(v, p)' <=> Leaving(v, p))
    BY <1>1 DEF Live, Leaving
  <2>2. p \notin skipped
    BY <1>1
  <2>3. CASE p = o
    <3>1. Live(u) \/ Leaving(u, o)
      BY <1>1, <2>3
    <3> QED
      BY <1>1, <1>2, <2>1, <2>3, <3>1 DEF Kept, Ownerless, HasLiveOwner
  <2>4. CASE p # o
    <3>1. Kept(p) /\ stage'[p] = stage[p]
      BY <1>1, <2>2, <2>4, KeptAll DEF Owners, OrgTypes
    <3> QED
      BY <1>1, <2>1, <3>1, KeptElsewhere
  <2> QED
    BY <2>3, <2>4
<1> QED
  BY <1>3, <1>4, <1>5, <1>6, <1>7 DEF Owners

-----------------------------------------------------------------------------
(* No live member joins, and an owner who is live or leaving stays one. *)
LEMMA KeptSteady ==
    ASSUME NEW o \in Orgs, Kept(o),
           stage'[o] = "live" => stage[o] = "live",
           \A v \in Users : role'[o][v] # NotMember /\ Live(v)' => role[o][v] # NotMember /\ Live(v),
           \A v \in Users : role[o][v] = "owner" /\ (Live(v) \/ Leaving(v, o)) =>
                            role'[o][v] = "owner" /\ (Live(v)' \/ Leaving(v, o)')
    PROVE  Kept(o)'
<1> SUFFICES ASSUME Ownerless(o)'
             PROVE  \E v \in Users : role'[o][v] = "owner" /\ Leaving(v, o)'
  BY DEF Kept
<1>1. stage[o] = "live" /\ HasLiveMember(o)
  BY DEF Ownerless, HasLiveMember
<1>2. PICK v \in Users : role[o][v] = "owner" /\ (Live(v) \/ Leaving(v, o))
  BY <1>1 DEF Kept, Ownerless, HasLiveOwner
<1>3. role'[o][v] = "owner" /\ (Live(v)' \/ Leaving(v, o)')
  BY <1>2
<1>4. ~Live(v)'
  BY <1>3 DEF Ownerless, HasLiveOwner
<1> QED
  BY <1>3, <1>4

(* An account's deletion takes a step that leaves organisations alone. *)
LEMMA AccountKeeps ==
    ASSUME Owners, NEW u \in Users, acct' \in [Users -> Accounts],
           acct'[u].at # NoOrg => acct'[u].st = "removing",
           \A v \in Users : v # u => acct'[v] = acct[v],
           late' \in [Users -> 0..MaxLate], UNCHANGED <<orgVars, requests>>,
           skipped' \in SUBSET Orgs, skipped \subseteq skipped',
           Live(u)' => Live(u),
           \A o \in Orgs \ skipped' :
               role[o][u] = "owner" /\ (Live(u) \/ Leaving(u, o)) => Live(u)' \/ Leaving(u, o)'
    PROVE  Owners'
<1>1. UNCHANGED <<stage, purgeAfter, role, joined>>
  BY DEF orgVars
<1>2. OrgTypes' /\ AccountTypes'
  BY <1>1 DEF Owners, OrgTypes, AccountTypes
<1>3. AbsentEmpty' /\ HookRuns'
  BY <1>1 DEF Owners, AbsentEmpty, HookRuns
<1>4. OwnerKept'
  <2> SUFFICES ASSUME NEW p \in Orgs \ skipped' PROVE Kept(p)'
    BY DEF OwnerKept, Kept
  <2>1. Kept(p)
    BY KeptAll DEF Owners
  <2>2. \A v \in Users : Live(v)' => Live(v)
    BY DEF Live
  <2>3. \A v \in Users : role[p][v] = "owner" /\ (Live(v) \/ Leaving(v, p)) =>
                         Live(v)' \/ Leaving(v, p)'
    <3> SUFFICES ASSUME NEW v \in Users, role[p][v] = "owner", Live(v) \/ Leaving(v, p)
                 PROVE  Live(v)' \/ Leaving(v, p)'
      OBVIOUS
    <3>1. CASE v = u
      BY <3>1
    <3>2. CASE v # u
      BY <3>2 DEF Live, Leaving
    <3> QED
      BY <3>1, <3>2
  <2> QED
    BY <1>1, <2>1, <2>2, <2>3, KeptSteady
<1> QED
  BY <1>2, <1>3, <1>4 DEF Owners

LEMMA CheckKeeps ==
    ASSUME Owners, NEW u \in Users, CheckAccountDeletion(u) \/ DeletionRefused(u)
    PROVE  Owners'
<1>1. /\ acct \in [Users -> Accounts] /\ late \in [Users -> 0..MaxLate]
      /\ skipped \in SUBSET Orgs
  BY DEF Owners, AccountTypes, OrgTypes
<1>2. PICK x \in {"live", "checked"} : acct' = [acct EXCEPT ![u].st = x]
  BY DEF CheckAccountDeletion, DeletionRefused
<1>3. /\ acct[u].st \in {"live", "checked"}
      /\ UNCHANGED <<orgVars, requests, late, skipped>>
  BY DEF CheckAccountDeletion, DeletionRefused
<1>4. x \in AccountStages
  BY DEF AccountStages
<1>5. /\ acct' \in [Users -> Accounts]
      /\ acct'[u].st = x /\ acct'[u].todo = acct[u].todo /\ acct'[u].at = acct[u].at
      /\ \A v \in Users : v # u => acct'[v] = acct[v]
  BY <1>1, <1>2, <1>4, StageUpdate
<1>6. acct'[u].at = NoOrg
  BY <1>3, <1>5 DEF Owners, HookRuns
<1>7. Live(u)' /\ Live(u)
  BY <1>3, <1>5 DEF Live
<1> QED
  BY <1>1, <1>3, <1>5, <1>6, <1>7, AccountKeeps

LEMMA MarkUserDeletedKeeps ==
    ASSUME Owners, NEW u \in Users, MarkUserDeleted(u)
    PROVE  Owners'
<1>1. /\ acct \in [Users -> Accounts] /\ skipped \in SUBSET Orgs
  BY DEF Owners, AccountTypes, OrgTypes
<1>2. /\ acct[u].st = "checked" /\ acct' = [acct EXCEPT ![u].st = "deleted"]
      /\ UNCHANGED <<orgVars, requests, skipped>>
  BY DEF MarkUserDeleted
<1>3. late' \in [Users -> 0..MaxLate]
  <2>1. MaxLate \in 0..MaxLate
    BY BoundsAssumption
  <2> QED
    BY <2>1 DEF MarkUserDeleted, Owners, AccountTypes
<1>4. "deleted" \in AccountStages
  BY DEF AccountStages
<1>5. /\ acct' \in [Users -> Accounts]
      /\ acct'[u].st = "deleted" /\ acct'[u].at = acct[u].at
      /\ \A v \in Users : v # u => acct'[v] = acct[v]
  BY <1>1, <1>2, <1>4, StageUpdate
<1>6. acct'[u].at = NoOrg
  BY <1>2, <1>5 DEF Owners, HookRuns
<1>7. ~Live(u)' /\ \A o \in Orgs : Leaving(u, o)'
  BY <1>5 DEF Live, Leaving
<1> QED
  BY <1>1, <1>2, <1>3, <1>5, <1>6, <1>7, AccountKeeps

LEMMA RemoveAccountKeeps ==
    ASSUME Owners, NEW u \in Users, RemoveAccount(u)
    PROVE  Owners'
<1>1. /\ acct \in [Users -> Accounts] /\ skipped \in SUBSET Orgs
      /\ late \in [Users -> 0..MaxLate]
  BY DEF Owners, AccountTypes, OrgTypes
<1> DEFINE x == [st |-> "removing", todo |-> Memberships(u), at |-> NoOrg]
<1>2. acct' = [acct EXCEPT ![u] = x] /\ UNCHANGED <<orgVars, requests, late, skipped>>
  BY DEF RemoveAccount
<1>3. x \in Accounts /\ x.st = "removing" /\ x.todo = Memberships(u) /\ x.at = NoOrg
  BY DEF Accounts, AccountStages, Memberships
<1> HIDE DEF x
<1>4. /\ acct' \in [Users -> Accounts] /\ acct'[u] = x
      /\ \A v \in Users : v # u => acct'[v] = acct[v]
  BY <1>1, <1>2, <1>3, AccountUpdate
<1>5. ~Live(u)'
  BY <1>3, <1>4 DEF Live
<1>6. \A o \in Orgs : role[o][u] = "owner" => Leaving(u, o)'
  BY <1>3, <1>4, SetFacts DEF Leaving, Memberships
<1> QED
  BY <1>1, <1>2, <1>3, <1>4, <1>5, <1>6, AccountKeeps

LEMMA RemoveAccountDoneKeeps ==
    ASSUME Owners, NEW u \in Users, RemoveAccountDone(u)
    PROVE  Owners'
<1>1. /\ acct \in [Users -> Accounts] /\ skipped \in SUBSET Orgs
      /\ late \in [Users -> 0..MaxLate]
  BY DEF Owners, AccountTypes, OrgTypes
<1>2. /\ acct[u].st = "removing" /\ acct[u].todo = {} /\ acct[u].at = NoOrg
      /\ acct' = [acct EXCEPT ![u].st = "done"]
      /\ UNCHANGED <<orgVars, requests, late, skipped>>
  BY DEF RemoveAccountDone
<1>3. "done" \in AccountStages
  BY DEF AccountStages
<1>4. /\ acct' \in [Users -> Accounts] /\ acct'[u].st = "done" /\ acct'[u].at = acct[u].at
      /\ \A v \in Users : v # u => acct'[v] = acct[v]
  BY <1>1, <1>2, <1>3, StageUpdate
<1>5. ~Live(u)' /\ ~Live(u) /\ \A o \in Orgs : ~Leaving(u, o)
  BY <1>2, <1>4, SetFacts DEF Live, Leaving
<1> QED
  BY <1>1, <1>2, <1>4, <1>5, AccountKeeps

LEMMA HookLostKeeps ==
    ASSUME Owners, NEW u \in Users, HookLost(u)
    PROVE  Owners'
<1>1. /\ acct \in [Users -> Accounts] /\ skipped \in SUBSET Orgs
      /\ late \in [Users -> 0..MaxLate]
  BY DEF Owners, AccountTypes, OrgTypes
<1> DEFINE x == [st |-> "done", todo |-> {}, at |-> NoOrg]
<1>2. /\ acct' = [acct EXCEPT ![u] = x] /\ UNCHANGED <<orgVars, requests, late>>
      /\ skipped' = skipped \cup Memberships(u)
  BY DEF HookLost
<1>3. x \in Accounts /\ x.st = "done" /\ x.at = NoOrg
  BY DEF Accounts, AccountStages
<1> HIDE DEF x
<1>4. /\ acct' \in [Users -> Accounts] /\ acct'[u] = x
      /\ \A v \in Users : v # u => acct'[v] = acct[v]
  BY <1>1, <1>2, <1>3, AccountUpdate
<1>5. ~Live(u)'
  BY <1>3, <1>4 DEF Live
<1>6. skipped' \in SUBSET Orgs /\ \A o \in Orgs \ skipped' : role[o][u] # "owner"
  BY <1>1, <1>2, SetFacts DEF Memberships
<1> QED
  BY <1>1, <1>2, <1>3, <1>4, <1>5, <1>6, AccountKeeps

LEMMA RemoveFailsKeeps ==
    ASSUME Owners, NEW u \in Users, NEW o \in Orgs, RemoveFails(u, o)
    PROVE  Owners'
<1>1. /\ acct \in [Users -> Accounts] /\ skipped \in SUBSET Orgs
      /\ late \in [Users -> 0..MaxLate] /\ acct[u].todo \in SUBSET Orgs
  BY DEF Owners, AccountTypes, OrgTypes, Accounts
<1> DEFINE S == acct[u].todo \ {o}
<1>2. /\ acct' = [acct EXCEPT ![u].todo = S, ![u].at = NoOrg]
      /\ UNCHANGED <<orgVars, requests, late>>
      /\ skipped' = skipped \cup {o} /\ acct[u].st = "removing"
      /\ o = acct[u].at \/ acct[u].at = NoOrg
  BY DEF RemoveFails
<1>3. S \in SUBSET Orgs
  BY <1>1
<1>4. /\ acct' \in [Users -> Accounts]
      /\ acct'[u].st = "removing" /\ acct'[u].todo = S /\ acct'[u].at = NoOrg
      /\ \A v \in Users : v # u => acct'[v] = acct[v]
  BY <1>1, <1>2, <1>3, HookUpdate
<1>5. ~Live(u)' /\ ~Live(u)
  BY <1>2, <1>4 DEF Live
<1>6. \A p \in Orgs \ skipped' : Leaving(u, p) => Leaving(u, p)'
  BY <1>2, <1>4, SetFacts DEF Leaving
<1>7. skipped' \in SUBSET Orgs
  BY <1>1, <1>2
<1> QED
  BY <1>1, <1>2, <1>4, <1>5, <1>6, <1>7, AccountKeeps

(* removeFromOrg needs no hand-over, begins one, or deletes what u alone is
   left of. *)
LEMMA RemoveFromOrgKeeps ==
    ASSUME Owners, NEW u \in Users, NEW o \in Orgs, RemoveFromOrg(u, o), now \in Nat
    PROVE  Owners'
<1> DEFINE alone == LiveOthers(o, u, Roles) = {}
           handOver == role[o][u] = "owner" /\ stage[o] = "live" /\ ~Personal(o) /\ ~alone
           S == acct[u].todo \ {o}
           a == IF handOver THEN o ELSE NoOrg
<1>1. /\ acct \in [Users -> Accounts] /\ skipped \in SUBSET Orgs
      /\ late \in [Users -> 0..MaxLate] /\ S \in SUBSET Orgs /\ a \in Orgs \cup {NoOrg}
  BY DEF Owners, AccountTypes, OrgTypes, Accounts
<1>2. /\ acct[u].st = "removing" /\ acct[u].at = NoOrg
      /\ acct' = [acct EXCEPT ![u].todo = S, ![u].at = a]
      /\ UNCHANGED <<requests, late, skipped>>
  BY DEF RemoveFromOrg
<1>3. /\ acct' \in [Users -> Accounts]
      /\ acct'[u].st = "removing" /\ acct'[u].todo = S /\ acct'[u].at = a
      /\ \A v \in Users : v # u => acct'[v] = acct[v]
  <2> HIDE DEF a, S
  <2> QED
    BY <1>1, <1>2, HookUpdate
<1>4. ~Live(u)' /\ ~Live(u) /\ \A v \in Users : Live(v)' <=> Live(v)
  BY <1>2, <1>3 DEF Live
<1>5. \A p \in Orgs : p # o => \A v \in Users : Leaving(v, p) => Leaving(v, p)'
  BY <1>2, <1>3, SetFacts DEF Leaving
<1>6. CASE handOver \/ role[o][u] = NotMember
  <2>1. UNCHANGED orgVars
    BY <1>6 DEF RemoveFromOrg
  <2>2. handOver => Leaving(u, o)'
    BY <1>3 DEF Leaving
  <2>3. role[o][u] = "owner" => Leaving(u, o)'
    BY <1>6, <2>2 DEF NotMember
  <2>4. \A p \in Orgs \ skipped' : role[p][u] = "owner" /\ (Live(u) \/ Leaving(u, p)) =>
                                   Live(u)' \/ Leaving(u, p)'
    BY <1>4, <1>5, <2>3
  <2> HIDE DEF handOver, a, S
  <2> QED
    BY <1>1, <1>2, <1>3, <1>4, <2>1, <2>4, AccountKeeps
<1>7. CASE ~handOver /\ role[o][u] # NotMember
  <2>1. DropMember(o, u)
    BY <1>7 DEF RemoveFromOrg
  <2>2. OrgTypes /\ role' = [role EXCEPT ![o][u] = NotMember]
        /\ joined' = [joined EXCEPT ![o][u] = 0]
    BY <2>1 DEF DropMember, Owners
  <2>3. /\ role' \in [Orgs -> [Users -> Roles \cup {NotMember}]] /\ role'[o][u] = NotMember
        /\ \A p \in Orgs, v \in Users : p # o \/ v # u => role'[p][v] = role[p][v]
    BY <2>2, RoleUpdate
  <2>4. joined' \in [Orgs -> [Users -> Int]]
    BY <2>2 DEF OrgTypes
  <2>5. IF stage[o] = "live" /\ (Personal(o) \/ alone)
        THEN MarkOrgDeleted(o) ELSE UNCHANGED <<stage, purgeAfter>>
    BY <1>7 DEF RemoveFromOrg
  <2>6. /\ stage' \in [Orgs -> {"absent", "live", "deleted", "purged"}]
        /\ purgeAfter' \in [Orgs -> Nat]
        /\ \A p \in Orgs : \/ stage'[p] = stage[p]
                           \/ p = o /\ stage'[p] = "deleted"
        /\ stage'[o] = "live" => stage[o] = "live" /\ ~Personal(o) /\ ~alone
    <3>1. CASE stage[o] = "live" /\ (Personal(o) \/ alone)
      <4>1. /\ stage' = [stage EXCEPT ![o] = "deleted"]
            /\ purgeAfter' = [purgeAfter EXCEPT ![o] = now + Retention]
        BY <2>5, <3>1 DEF MarkOrgDeleted
      <4>2. now + Retention \in Nat
        BY BoundsAssumption
      <4> QED
        BY <2>2, <4>1, <4>2 DEF OrgTypes
    <3>2. CASE ~(stage[o] = "live" /\ (Personal(o) \/ alone))
      <4>1. UNCHANGED <<stage, purgeAfter>>
        BY <2>5, <3>2
      <4> HIDE DEF alone
      <4> QED
        BY <2>2, <3>2, <4>1 DEF OrgTypes
    <3> QED
      BY <3>1, <3>2
  <2>7. OrgTypes' /\ AccountTypes'
    BY <1>1, <1>2, <1>3, <2>3, <2>4, <2>6 DEF Owners, OrgTypes, AccountTypes
  <2>8. AbsentEmpty'
    BY <2>3, <2>6 DEF Owners, AbsentEmpty
  <2>9. HookRuns'
    BY <1>3 DEF Owners, HookRuns
  <2>10. OwnerKept'
    <3> SUFFICES ASSUME NEW p \in Orgs \ skipped' PROVE Kept(p)'
      BY DEF OwnerKept, Kept
    <3>1. Kept(p)
      BY <1>2, KeptAll DEF Owners
    <3>2. CASE p # o
      BY <1>4, <1>5, <2>3, <2>6, <3>1, <3>2, KeptElsewhere
    <3>3. CASE p = o /\ stage'[o] # "live"
      BY <3>3 DEF Kept, Ownerless
    <3>4. CASE p = o /\ stage'[o] = "live"
      <4>1. role[o][u] # "owner" /\ stage[o] = "live"
        BY <1>7, <2>6, <3>4
      <4>2. \A v \in Users : v # u => (Leaving(v, o)' <=> Leaving(v, o))
        BY <1>3 DEF Leaving
      <4>3. \A v \in Users : role'[o][v] # NotMember => v # u /\ role[o][v] # NotMember
        BY <2>3
      <4>4. \A v \in Users : role[o][v] = "owner" => v # u /\ role'[o][v] = "owner"
        BY <2>3, <4>1
      <4> QED
        BY <1>4, <3>1, <3>4, <4>1, <4>2, <4>3, <4>4, KeptSteady
    <3> QED
      BY <3>2, <3>3, <3>4
  <2> QED
    BY <2>7, <2>8, <2>9, <2>10 DEF Owners
<1> QED
  BY <1>6, <1>7

(* The hand-over finds an owner among the live members, or nobody is left. *)
LEMMA RemoveOwnerKeeps ==
    ASSUME Owners, NEW u \in Users, RemoveOwner(u)
    PROVE  Owners'
<1> DEFINE o == acct[u].at
<1>1. /\ OrgTypes /\ acct \in [Users -> Accounts] /\ late \in [Users -> 0..MaxLate]
      /\ o \in Orgs /\ acct[u].st = "removing" /\ acct[u].todo \in SUBSET Orgs
  BY DEF Owners, AccountTypes, Accounts, HookRuns, RemoveOwner
<1>2. /\ acct' = [acct EXCEPT ![u].at = NoOrg] /\ HandOver(u, o)
      /\ UNCHANGED <<stage, purgeAfter, requests, late, skipped>>
  BY DEF RemoveOwner
<1>3. /\ acct' \in [Users -> Accounts]
      /\ acct'[u].st = "removing" /\ acct'[u].todo = acct[u].todo /\ acct'[u].at = NoOrg
      /\ \A v \in Users : v # u => acct'[v] = acct[v]
  BY <1>1, <1>2 DEF Accounts
<1> HIDE DEF o
<1>4. ~Live(u) /\ \A v \in Users : Live(v)' <=> Live(v)
  BY <1>1, <1>3 DEF Live
<1>5. \A p \in Orgs : p # o => \A v \in Users : Leaving(v, p) => Leaving(v, p)'
  BY <1>1, <1>3, SetFacts DEF Leaving, o
<1> DEFINE others == LiveOthers(o, u, Roles)
<1>6. /\ role' \in [Orgs -> [Users -> Roles \cup {NotMember}]]
      /\ joined' \in [Orgs -> [Users -> Int]]
      /\ \A p \in Orgs, v \in Users : p # o => role'[p][v] = role[p][v]
      /\ \A v \in Users : role'[o][v] # NotMember => role[o][v] # NotMember
      /\ \/ others = {} /\ role' = role
         \/ \E v \in Users : v # u /\ Live(v) /\ role'[o][v] = "owner"
  <2>1. CASE OtherOwners(o, u) # {}
    <3>1. role' = [role EXCEPT ![o][u] = NotMember] /\ joined' = [joined EXCEPT ![o][u] = 0]
      BY <1>2, <2>1 DEF HandOver, DropMember
    <3>2. /\ role' \in [Orgs -> [Users -> Roles \cup {NotMember}]] /\ role'[o][u] = NotMember
          /\ \A p \in Orgs, v \in Users : p # o \/ v # u => role'[p][v] = role[p][v]
      BY <1>1, <3>1 DEF OrgTypes
    <3>3. joined' \in [Orgs -> [Users -> Int]]
      BY <1>1, <3>1 DEF OrgTypes
    <3>4. PICK v \in Users : v # u /\ role[o][v] = "owner" /\ Live(v)
      BY <2>1 DEF OtherOwners
    <3> QED
      BY <1>1, <3>2, <3>3, <3>4
  <2>2. CASE OtherOwners(o, u) = {} /\ others = {}
    <3>1. UNCHANGED <<role, joined>>
      BY <1>2, <2>2 DEF HandOver
    <3> QED
      BY <1>1, <2>2, <3>1 DEF OrgTypes
  <2>3. CASE OtherOwners(o, u) = {} /\ others # {}
    <3>1. PICK v \in LiveOthers(o, u, Roles) \cup LiveOthers(o, u, {"admin"}) :
            role' = [role EXCEPT ![o][v] = "owner", ![o][u] = NotMember]
      BY <1>2, <2>3 DEF HandOver, Earliest
    <3>2. v \in Users /\ v # u /\ Live(v) /\ role[o][v] # NotMember
      BY SetFacts DEF LiveOthers, NotMember
    <3>3. /\ role' \in [Orgs -> [Users -> Roles \cup {NotMember}]]
          /\ role'[o][v] = "owner" /\ role'[o][u] = NotMember
          /\ \A p \in Orgs, w \in Users : p # o \/ w \notin {u, v} => role'[p][w] = role[p][w]
      BY <1>1, <3>1, <3>2, SetFacts DEF OrgTypes
    <3>4. joined' = [joined EXCEPT ![o][u] = 0]
      BY <1>2, <2>3 DEF HandOver
    <3>5. joined' \in [Orgs -> [Users -> Int]]
      BY <1>1, <3>4 DEF OrgTypes
    <3> QED
      BY <1>1, <3>2, <3>3, <3>5
  <2> QED
    BY <2>1, <2>2, <2>3
<1>7. OrgTypes' /\ AccountTypes'
  BY <1>1, <1>2, <1>3, <1>6 DEF Owners, OrgTypes, AccountTypes
<1>8. AbsentEmpty'
  BY <1>1, <1>2, <1>6 DEF Owners, AbsentEmpty
<1>9. HookRuns'
  BY <1>3 DEF Owners, HookRuns
<1>10. OwnerKept'
  <2> SUFFICES ASSUME NEW p \in Orgs \ skipped PROVE Kept(p)'
    BY <1>2 DEF OwnerKept, Kept
  <2>1. Kept(p)
    BY KeptAll DEF Owners
  <2>2. CASE p # o
    BY <1>2, <1>4, <1>5, <1>6, <2>1, <2>2, KeptElsewhere
  <2>3. CASE p = o /\ others = {} /\ role' = role
    <3>1. ~HasLiveMember(p)'
      BY <1>1, <1>4, <2>3 DEF HasLiveMember, LiveOthers, OrgTypes
    <3> QED
      BY <2>3, <3>1 DEF Kept, Ownerless
  <2>4. CASE p = o /\ \E v \in Users : Live(v) /\ role'[o][v] = "owner"
    BY <1>4, <2>4 DEF Kept, Ownerless, HasLiveOwner
  <2> QED
    BY <1>6, <2>2, <2>3, <2>4
<1> QED
  BY <1>7, <1>8, <1>9, <1>10 DEF Owners

(* A purged account was neither live nor leaving. *)
LEMMA PurgeUserKeeps ==
    ASSUME Owners, NEW u \in Users, PurgeUser(u)
    PROVE  Owners'
<1>1. OrgTypes /\ acct \in [Users -> Accounts] /\ late \in [Users -> 0..MaxLate]
  BY DEF Owners, AccountTypes
<1>2. /\ acct[u].st = "done" /\ acct' = [acct EXCEPT ![u].st = "gone"]
      /\ late' = [late EXCEPT ![u] = 0]
      /\ role' = [o \in Orgs |-> [role[o] EXCEPT ![u] = NotMember]]
      /\ joined' = [o \in Orgs |-> [joined[o] EXCEPT ![u] = 0]]
      /\ UNCHANGED <<stage, purgeAfter, requests, skipped>>
  BY DEF PurgeUser
<1>3. "gone" \in AccountStages
  BY DEF AccountStages
<1>4. /\ acct' \in [Users -> Accounts] /\ acct'[u].st = "gone" /\ acct'[u].at = acct[u].at
      /\ \A v \in Users : v # u => acct'[v] = acct[v]
  BY <1>1, <1>2, <1>3, StageUpdate
<1>5. late' \in [Users -> 0..MaxLate]
  BY <1>1, <1>2, BoundsAssumption
<1>6. /\ role' \in [Orgs -> [Users -> Roles \cup {NotMember}]]
      /\ joined' \in [Orgs -> [Users -> Int]]
      /\ \A o \in Orgs : role'[o][u] = NotMember /\ \A v \in Users : v # u => role'[o][v] = role[o][v]
  BY <1>1, <1>2 DEF OrgTypes
<1>7. OrgTypes' /\ AccountTypes'
  BY <1>1, <1>2, <1>4, <1>5, <1>6 DEF Owners, OrgTypes, AccountTypes
<1>8. AbsentEmpty'
  BY <1>2, <1>6 DEF Owners, AbsentEmpty
<1>9. HookRuns'
  BY <1>2, <1>4 DEF Owners, HookRuns
<1>10. OwnerKept'
  <2> SUFFICES ASSUME NEW p \in Orgs \ skipped PROVE Kept(p)'
    BY <1>2 DEF OwnerKept, Kept
  <2>1. Kept(p)
    BY KeptAll DEF Owners
  <2>2. ~Live(u) /\ ~Leaving(u, p) /\ ~Live(u)'
    BY <1>2, <1>4 DEF Live, Leaving
  <2>3. \A v \in Users : v # u => (Live(v)' <=> Live(v)) /\ (Leaving(v, p)' <=> Leaving(v, p))
    BY <1>4 DEF Live, Leaving
  <2> QED
    BY <1>2, <1>6, <2>1, <2>2, <2>3, KeptSteady
<1> QED
  BY <1>7, <1>8, <1>9, <1>10 DEF Owners

-----------------------------------------------------------------------------
(* Invitations.  Steps that leave them alone. *)
LEMMA TokensElsewhere ==
    ASSUME Tokens, UNCHANGED invVars, requests \in Nat,
           requests' = requests \/ requests' = requests + 1
    PROVE  Tokens'
<1>1. UNCHANGED <<inv, accept, tokens, spent>>
  BY DEF invVars
<1>2. InvitationTypes' /\ RowsComplete' /\ AcceptsFound'
  BY <1>1 DEF Tokens, InvitationTypes, RowsComplete, AcceptsFound
<1>3. TokensNew'
  BY <1>1 DEF Tokens, TokensNew, InvitationTypes
<1> QED
  BY <1>2, <1>3 DEF Tokens

(* What a row of the table is made of. *)
LEMMA RowFacts ==
    ASSUME InvitationTypes, NEW i \in Invitations
    PROVE  /\ inv[i] \in InvitationRows
           /\ inv[i].st \in {"none", "open", "accepted", "revoked"}
           /\ inv[i].org \in Teams \cup {NoOrg} /\ inv[i].token \in 0..MaxRequests
           /\ inv[i].role \in Roles \cup {NotMember} /\ inv[i].by \in Users \cup {NoUser}
  BY DEF InvitationTypes, InvitationRows

(* A row whose state changes, and nothing else. *)
LEMMA RowEnds ==
    ASSUME NEW q \in InvitationRows, NEW x \in {"none", "open", "accepted", "revoked"}, NEW r,
           r = [q EXCEPT !.st = x]
    PROVE  /\ r \in InvitationRows /\ r.st = x /\ r.org = q.org /\ r.to = q.to
           /\ r.by = q.by /\ r.role = q.role /\ r.token = q.token
  BY DEF InvitationRows

(* An invitation that was sent has a token. *)
LEMMA SentToken ==
    ASSUME Tokens, NEW i \in Invitations, inv[i].st # "none"
    PROVE  inv[i].token \in 1..MaxRequests
<1>1. inv[i].token \in 0..MaxRequests
  BY RowFacts DEF Tokens
<1>2. inv[i].token >= 1
  BY DEF Tokens, RowsComplete
<1> QED
  BY <1>1, <1>2, BoundsAssumption

(* Invitations end, and their tokens are spent. *)
LEMMA EndingKeeps ==
    ASSUME Tokens, NEW E \in SUBSET Invitations, NEW x \in {"accepted", "revoked"},
           \A i \in E : inv[i].st # "none",
           inv' = [i \in Invitations |-> IF i \in E THEN [inv[i] EXCEPT !.st = x] ELSE inv[i]],
           spent' = spent \cup {inv[i].token : i \in E},
           accept' \in [Users -> Acceptances],
           \A u \in Users : accept'[u] \in {accept[u], NoAccept},
           UNCHANGED tokens, requests \in Nat,
           requests' = requests \/ requests' = requests + 1
    PROVE  Tokens'
<1>0. InvitationTypes
  BY DEF Tokens
<1>1. \A i \in Invitations :
        /\ inv'[i] \in InvitationRows /\ inv'[i].org = inv[i].org /\ inv'[i].to = inv[i].to
        /\ inv'[i].by = inv[i].by /\ inv'[i].role = inv[i].role
        /\ inv'[i].token = inv[i].token
        /\ inv'[i].st = IF i \in E THEN x ELSE inv[i].st
  <2> SUFFICES ASSUME NEW i \in Invitations
               PROVE  /\ inv'[i] \in InvitationRows /\ inv'[i].org = inv[i].org
                      /\ inv'[i].to = inv[i].to
                      /\ inv'[i].by = inv[i].by /\ inv'[i].role = inv[i].role
                      /\ inv'[i].token = inv[i].token
                      /\ inv'[i].st = IF i \in E THEN x ELSE inv[i].st
    OBVIOUS
  <2>1. CASE i \in E
    <3>1. inv'[i] = [inv[i] EXCEPT !.st = x]
      BY <2>1
    <3>2. inv[i] \in InvitationRows /\ x \in {"none", "open", "accepted", "revoked"}
      BY <1>0, RowFacts
    <3> QED
      BY <2>1, <3>1, <3>2, RowEnds
  <2>2. CASE i \notin E
    BY <1>0, <2>2, RowFacts
  <2> QED
    BY <2>1, <2>2
<1>2. \A i \in E : inv[i].token \in 1..MaxRequests
  BY SentToken
<1>3. InvitationTypes'
  <2>1. inv' \in [Invitations -> InvitationRows]
    BY <1>1
  <2>2. spent' \in SUBSET (1..MaxRequests)
    BY <1>0, <1>2 DEF InvitationTypes
  <2> QED
    BY <1>0, <2>1, <2>2 DEF InvitationTypes
<1>4. RowsComplete'
  BY <1>1 DEF Tokens, RowsComplete
<1>5. TokensNew'
  <2>1. tokens <= requests'
    BY <1>0 DEF Tokens, TokensNew, InvitationTypes
  <2>2. \A t \in spent' : t <= tokens
    BY DEF Tokens, TokensNew
  <2>3. \A i \in Invitations : inv'[i].st = "none" => inv[i].st = "none"
    BY <1>1
  <2>4. \A i \in Invitations : inv'[i].st = "open" => inv'[i].token \notin spent'
    <3> SUFFICES ASSUME NEW i \in Invitations, inv'[i].st = "open" PROVE inv[i].token \notin spent'
      BY <1>1
    <3>1. i \notin E /\ inv[i].st = "open"
      BY <1>1
    <3>2. inv[i].token \notin spent /\ inv[i].token # 0
      BY <1>0, <3>1, RowFacts DEF Tokens, TokensNew, RowsComplete
    <3>3. \A j \in E : inv[j].token # inv[i].token
      BY <3>1, <3>2 DEF Tokens, TokensNew
    <3> QED
      BY <3>2, <3>3
  <2> QED
    BY <1>1, <2>1, <2>2, <2>3, <2>4 DEF Tokens, TokensNew
<1>6. AcceptsFound'
  BY <1>1 DEF Tokens, AcceptsFound
<1> QED
  BY <1>3, <1>4, <1>5, <1>6 DEF Tokens

(* A new token goes to one invitation, whose old token and those of E are
   spent. *)
LEMMA SendingKeeps ==
    ASSUME Tokens, NEW i \in Invitations, NEW E \in SUBSET Invitations,
           \A j \in E : inv[j].st = "open",
           \A j \in E : j # i => inv'[j] = [inv[j] EXCEPT !.st = "revoked"],
           \A j \in Invitations : j # i /\ j \notin E => inv'[j] = inv[j],
           inv' \in [Invitations -> InvitationRows],
           inv'[i].st = "open", inv'[i].org \in Teams, inv'[i].to \in Users,
           inv'[i].by \in Users, inv'[i].role \in Roles, inv'[i].token = tokens + 1,
           spent' = spent \cup {inv[j].token : j \in E},
           i \in E \/ inv[i].st = "none",
           tokens' = tokens + 1, requests' = requests + 1, requests' \in 0..MaxRequests,
           requests \in Nat, UNCHANGED accept
    PROVE  Tokens'
<1>0. InvitationTypes /\ tokens \in Nat /\ tokens <= requests
  BY BoundsAssumption DEF Tokens, InvitationTypes, TokensNew
<1>1. \A j \in Invitations : j # i =>
        /\ inv'[j].org = inv[j].org /\ inv'[j].to = inv[j].to
        /\ inv'[j].by = inv[j].by /\ inv'[j].role = inv[j].role
        /\ inv'[j].token = inv[j].token
        /\ inv'[j].st = IF j \in E THEN "revoked" ELSE inv[j].st
  <2> SUFFICES ASSUME NEW j \in Invitations, j # i
               PROVE  /\ inv'[j].org = inv[j].org /\ inv'[j].to = inv[j].to
                      /\ inv'[j].by = inv[j].by /\ inv'[j].role = inv[j].role
                      /\ inv'[j].token = inv[j].token
                      /\ inv'[j].st = IF j \in E THEN "revoked" ELSE inv[j].st
    OBVIOUS
  <2>1. CASE j \in E
    <3>1. inv'[j] = [inv[j] EXCEPT !.st = "revoked"] /\ inv[j] \in InvitationRows
      BY <1>0, <2>1, RowFacts
    <3> QED
      BY <2>1, <3>1 DEF InvitationRows
  <2>2. CASE j \notin E
    BY <2>2
  <2> QED
    BY <2>1, <2>2
<1>2. \A j \in Invitations : inv[j].token \in Nat /\ inv[j].token <= tokens
  <2> SUFFICES ASSUME NEW j \in Invitations
               PROVE  inv[j].token \in Nat /\ inv[j].token <= tokens
    OBVIOUS
  <2>1. inv[j].token \in 0..MaxRequests
    BY <1>0, RowFacts
  <2>2. inv[j].token <= tokens
    BY DEF Tokens, TokensNew
  <2> QED
    BY <2>1, <2>2, BoundsAssumption
<1>3. \A j \in E : inv[j].token \in 1..MaxRequests
  <2> SUFFICES ASSUME NEW j \in E PROVE inv[j].token \in 1..MaxRequests
    OBVIOUS
  <2>1. inv[j].st # "none"
    OBVIOUS
  <2> QED
    BY <2>1, SentToken
<1>4. InvitationTypes'
  <2>1. spent' \in SUBSET (1..MaxRequests)
    BY <1>0, <1>3 DEF InvitationTypes
  <2>2. tokens' \in 0..MaxRequests
    BY <1>0, BoundsAssumption
  <2> QED
    BY <1>0, <2>1, <2>2 DEF InvitationTypes
<1>5. RowsComplete'
  <2> SUFFICES ASSUME NEW j \in Invitations, inv'[j].st # "none"
               PROVE  /\ inv'[j].org \in Teams /\ inv'[j].to \in Users /\ inv'[j].by \in Users
                      /\ inv'[j].role \in Roles /\ inv'[j].token >= 1
    BY DEF RowsComplete
  <2>1. CASE j = i
    BY <1>0, <2>1
  <2>2. CASE j # i
    BY <1>1, <2>2 DEF Tokens, RowsComplete
  <2> QED
    BY <2>1, <2>2
<1>6. TokensNew'
  <2>1. tokens' <= requests'
    BY <1>0
  <2>2. \A t \in spent' : t <= tokens'
    BY <1>0, <1>2 DEF Tokens, TokensNew, InvitationTypes
  <2>3. \A j \in Invitations : inv'[j].token <= tokens'
    BY <1>0, <1>1, <1>2
  <2>4. \A j \in Invitations : inv'[j].st = "none" => inv'[j].token = 0 /\ inv'[j].org = NoOrg
    BY <1>1 DEF Tokens, TokensNew
  <2>5. \A j, k \in Invitations : inv'[j].token = inv'[k].token /\ inv'[j].token # 0 => j = k
    BY <1>0, <1>1, <1>2 DEF Tokens, TokensNew
  <2>6. \A j \in Invitations : inv'[j].st = "open" => inv'[j].token \notin spent'
    <3> SUFFICES ASSUME NEW j \in Invitations, inv'[j].st = "open" PROVE inv'[j].token \notin spent'
      OBVIOUS
    <3>1. CASE j = i
      BY <1>0, <1>2, <3>1 DEF Tokens, TokensNew
    <3>2. CASE j # i
      <4>1. j \notin E /\ inv[j].st = "open" /\ inv'[j].token = inv[j].token
        BY <1>1, <3>2
      <4>2. inv[j].token \notin spent /\ inv[j].token # 0
        BY <1>2, <4>1 DEF Tokens, TokensNew, RowsComplete
      <4>3. \A k \in E : inv[k].token # inv[j].token
        BY <4>1, <4>2 DEF Tokens, TokensNew
      <4> QED
        BY <4>1, <4>2, <4>3
    <3> QED
      BY <3>1, <3>2
  <2> QED
    BY <2>1, <2>2, <2>3, <2>4, <2>5, <2>6 DEF TokensNew
<1>7. AcceptsFound'
  BY <1>1 DEF Tokens, AcceptsFound
<1> QED
  BY <1>4, <1>5, <1>6, <1>7 DEF Tokens

(* The actions on invitations. *)
LEMMA RevokeTokens ==
    ASSUME Owners, Tokens, NEW u \in Users, NEW i \in Invitations, RevokeInvitation(u, i)
    PROVE  Tokens'
<1>1. /\ Acts(u) /\ inv[i].st = "open" /\ inv' = [inv EXCEPT ![i].st = "revoked"]
      /\ spent' = spent \cup {inv[i].token} /\ accept' = accept /\ tokens' = tokens
  BY DEF RevokeInvitation, OpenInvitation
<1>2. requests' = requests + 1 /\ requests \in Nat
  BY <1>1, ActsTypes, BoundsAssumption DEF Owners, AccountTypes
<1>3. InvitationTypes
  BY DEF Tokens
<1>4. inv' = [j \in Invitations |-> IF j \in {i} THEN [inv[j] EXCEPT !.st = "revoked"] ELSE inv[j]]
  BY <1>1, <1>3 DEF InvitationTypes
<1>5. spent' = spent \cup {inv[j].token : j \in {i}}
  BY <1>1
<1>6. accept' \in [Users -> Acceptances] /\ \A v \in Users : accept'[v] \in {accept[v], NoAccept}
  BY <1>1, <1>3 DEF InvitationTypes
<1>7. \A j \in {i} : inv[j].st # "none"
  BY <1>1
<1> QED
  BY <1>1, <1>2, <1>4, <1>5, <1>6, <1>7, EndingKeeps

LEMMA ResendTokens ==
    ASSUME Owners, Tokens, now \in Nat, NEW u \in Users, NEW i \in Invitations,
           ResendInvitation(u, i)
    PROVE  Tokens'
<1>1. /\ Acts(u) /\ inv[i].st = "open" /\ tokens' = tokens + 1
      /\ inv' = [inv EXCEPT ![i].token = tokens + 1, ![i].by = u, ![i].expires = now + InvitationTTL]
      /\ spent' = spent \cup {inv[i].token} /\ accept' = accept
  BY DEF ResendInvitation, OpenInvitation, NewToken
<1>2. requests' = requests + 1 /\ requests \in Nat /\ requests' \in 0..MaxRequests
  BY <1>1, ActsTypes, BoundsAssumption DEF Owners, AccountTypes
<1>3. InvitationTypes /\ inv[i] \in InvitationRows
  BY RowFacts DEF Tokens
<1>4. tokens + 1 \in 0..MaxRequests
  BY <1>2, <1>3, BoundsAssumption DEF Tokens, TokensNew, InvitationTypes
<1>5. now + InvitationTTL \in Nat
  BY BoundsAssumption
<1>6. inv' \in [Invitations -> InvitationRows]
  BY <1>1, <1>3, <1>4, <1>5 DEF InvitationTypes, InvitationRows
<1>7. /\ inv'[i].st = "open" /\ inv'[i].org = inv[i].org /\ inv'[i].to = inv[i].to
      /\ inv'[i].by = u /\ inv'[i].role = inv[i].role /\ inv'[i].token = tokens + 1
  BY <1>1, <1>3 DEF InvitationTypes, InvitationRows
<1>8. inv'[i].org \in Teams /\ inv'[i].to \in Users /\ inv'[i].role \in Roles
  BY <1>1, <1>7 DEF Tokens, RowsComplete
<1>9. \A j \in Invitations : j # i => inv'[j] = inv[j]
  BY <1>1, <1>3 DEF InvitationTypes
<1> QED
  <2> DEFINE E == {i}
  <2>1. E \in SUBSET Invitations /\ i \in E
    OBVIOUS
  <2>2. \A j \in Invitations : j # i /\ j \notin E => inv'[j] = inv[j]
    BY <1>9
  <2>3. \A j \in E : inv[j].st = "open"
    BY <1>1
  <2>4. \A j \in E : j # i => inv'[j] = [inv[j] EXCEPT !.st = "revoked"]
    OBVIOUS
  <2>5. spent' = spent \cup {inv[j].token : j \in E}
    BY <1>1
  <2>6. /\ inv'[i].st = "open" /\ inv'[i].org \in Teams /\ inv'[i].to \in Users
        /\ inv'[i].by \in Users /\ inv'[i].role \in Roles /\ inv'[i].token = tokens + 1
    BY <1>7, <1>8
  <2>7. tokens' = tokens + 1 /\ accept' = accept
    BY <1>1
  <2> HIDE DEF E
  <2> QED
    BY <1>2, <1>6, <2>6, <2>7, <2>1, <2>2, <2>3, <2>4, <2>5, SendingKeeps

LEMMA InviteTokens ==
    ASSUME Owners, Tokens, now \in Nat, NEW u \in Users, NEW o \in Orgs, NEW i \in Invitations,
           NEW m \in Users, NEW r \in Roles, Invite(u, o, i, m, r)
    PROVE  Tokens'
<1> DEFINE old == {j \in Invitations : inv[j].org = o /\ inv[j].to = m /\ inv[j].st = "open"}
           row == [st |-> "open", org |-> o, to |-> m, by |-> u, role |-> r,
                   token |-> tokens + 1, expires |-> now + InvitationTTL]
<1>1. /\ Acts(u) /\ ~Personal(o) /\ inv[i].st = "none" /\ tokens' = tokens + 1
      /\ inv' = [j \in Invitations |-> IF j = i THEN row
                    ELSE IF j \in old THEN [inv[j] EXCEPT !.st = "revoked"] ELSE inv[j]]
      /\ spent' = spent \cup {inv[j].token : j \in old} /\ accept' = accept
  BY DEF Invite, NewToken
<1>2. requests' = requests + 1 /\ requests \in Nat /\ requests' \in 0..MaxRequests
  BY <1>1, ActsTypes, BoundsAssumption DEF Owners, AccountTypes
<1>3. InvitationTypes /\ \A j \in Invitations : inv[j] \in InvitationRows
  BY RowFacts DEF Tokens
<1>4. tokens + 1 \in 0..MaxRequests
  BY <1>2, <1>3, BoundsAssumption DEF Tokens, TokensNew, InvitationTypes
<1>5. now + InvitationTTL \in Nat
  BY BoundsAssumption
<1>6. o \in Teams
  BY <1>1 DEF Personal, Orgs
<1>7. row \in InvitationRows
  BY <1>4, <1>5, <1>6 DEF InvitationRows
<1>8. /\ row.st = "open" /\ row.org = o /\ row.to = m /\ row.by = u /\ row.role = r
      /\ row.token = tokens + 1
  OBVIOUS
<1> HIDE DEF row
<1>9. old \in SUBSET Invitations /\ i \notin old /\ \A j \in old : inv[j].st = "open"
  BY <1>1
<1> HIDE DEF old
<1>10. /\ inv'[i] = row
       /\ \A j \in Invitations : j # i /\ j \notin old => inv'[j] = inv[j]
       /\ \A j \in old : j # i => inv'[j] = [inv[j] EXCEPT !.st = "revoked"]
  BY <1>1, <1>9
<1>11. \A j \in Invitations : inv'[j] \in InvitationRows
  <2> SUFFICES ASSUME NEW j \in Invitations PROVE inv'[j] \in InvitationRows
    OBVIOUS
  <2>1. CASE j = i
    BY <1>7, <1>10, <2>1
  <2>2. CASE j \in old
    <3>1. inv[j] \in InvitationRows /\ inv'[j] = [inv[j] EXCEPT !.st = "revoked"]
      BY <1>3, <1>9, <1>10, <2>2
    <3> QED
      BY <3>1 DEF InvitationRows
  <2>3. CASE j # i /\ j \notin old
    BY <1>3, <1>10, <2>3
  <2> QED
    BY <2>1, <2>2, <2>3
<1>12. inv' \in [Invitations -> InvitationRows]
  BY <1>1, <1>11
<1>13. /\ inv'[i].st = "open" /\ inv'[i].org \in Teams /\ inv'[i].to \in Users
       /\ inv'[i].by \in Users /\ inv'[i].role \in Roles /\ inv'[i].token = tokens + 1
  BY <1>6, <1>8, <1>10
<1> QED
  BY <1>1, <1>2, <1>9, <1>10, <1>12, <1>13, SendingKeeps

LEMMA AcceptBeginTokens ==
    ASSUME Owners, Tokens, now \in Nat, NEW u \in Users, NEW i \in Invitations, AcceptBegin(u, i)
    PROVE  Tokens'
<1>1. /\ inv[i].st = "open"
      /\ accept' = [accept EXCEPT ![u] = [inv |-> i, token |-> inv[i].token, at |-> now]]
      /\ UNCHANGED <<requests, inv, tokens, spent>>
  BY DEF AcceptBegin
<1>2. InvitationTypes /\ inv[i].token \in 0..MaxRequests
  BY RowFacts DEF Tokens
<1>3. [inv |-> i, token |-> inv[i].token, at |-> now] \in Acceptances
  BY <1>2 DEF Acceptances
<1>4. accept' \in [Users -> Acceptances]
  BY <1>1, <1>2, <1>3 DEF InvitationTypes
<1>5. InvitationTypes'
  BY <1>1, <1>2, <1>4 DEF InvitationTypes
<1>6. RowsComplete' /\ TokensNew'
  BY <1>1 DEF Tokens, RowsComplete, TokensNew
<1>7. AcceptsFound'
  <2> SUFFICES ASSUME NEW v \in Users, accept'[v] # NoAccept
               PROVE  accept'[v].inv \in Invitations /\ inv[accept'[v].inv].st # "none"
    BY <1>1 DEF AcceptsFound
  <2>1. CASE v = u
    <3>1. accept'[v].inv = i
      BY <1>1, <1>2, <2>1 DEF InvitationTypes
    <3> QED
      BY <1>1, <3>1
  <2>2. CASE v # u
    BY <1>1, <1>2, <2>2 DEF InvitationTypes, Tokens, AcceptsFound
  <2> QED
    BY <2>1, <2>2
<1> QED
  BY <1>5, <1>6, <1>7 DEF Tokens

LEMMA AcceptCommitTokens ==
    ASSUME Owners, Tokens, NEW u \in Users, AcceptCommit(u)
    PROVE  Tokens'
<1> DEFINE i == accept[u].inv
<1>1. InvitationTypes /\ requests \in Nat
  BY BoundsAssumption DEF Tokens, Owners, AccountTypes
<1>2. /\ accept[u] # NoAccept /\ accept' = [accept EXCEPT ![u] = NoAccept]
      /\ UNCHANGED <<requests, tokens>>
  BY DEF AcceptCommit
<1>3. i \in Invitations /\ inv[i].st # "none"
  BY <1>2 DEF Tokens, AcceptsFound
<1>4. NoAccept \in Acceptances
  BY BoundsAssumption DEF NoAccept, Acceptances
<1>5. accept' \in [Users -> Acceptances] /\ \A v \in Users : accept'[v] \in {accept[v], NoAccept}
  BY <1>1, <1>2, <1>4 DEF InvitationTypes
<1>6. CASE Admits(u, accept[u])
  <2>1. inv' = [inv EXCEPT ![i].st = "accepted"] /\ spent' = spent \cup {accept[u].token}
    BY <1>6 DEF AcceptCommit
  <2>2. inv[i].token = accept[u].token
    BY <1>6 DEF Admits, StillPending
  <2>3. inv' = [j \in Invitations |-> IF j \in {i} THEN [inv[j] EXCEPT !.st = "accepted"] ELSE inv[j]]
    BY <1>1, <1>3, <2>1 DEF InvitationTypes
  <2>4. spent' = spent \cup {inv[j].token : j \in {i}}
    BY <2>1, <2>2
  <2>5. {i} \in SUBSET Invitations /\ \A j \in {i} : inv[j].st # "none"
    BY <1>3
  <2> QED
    BY <1>1, <1>2, <1>5, <2>3, <2>4, <2>5, EndingKeeps
<1>7. CASE ~Admits(u, accept[u])
  <2>1. inv' = inv /\ spent' = spent
    BY <1>7 DEF AcceptCommit
  <2>2. InvitationTypes'
    BY <1>1, <1>2, <1>5, <2>1 DEF InvitationTypes
  <2>3. RowsComplete' /\ TokensNew'
    BY <1>2, <2>1 DEF Tokens, RowsComplete, TokensNew
  <2>4. AcceptsFound'
    BY <1>5, <2>1 DEF Tokens, AcceptsFound
  <2> QED
    BY <2>2, <2>3, <2>4 DEF Tokens
<1> QED
  BY <1>6, <1>7

LEMMA PurgeOrgTokens ==
    ASSUME Owners, Tokens, NEW o \in Orgs, PurgeOrg(o)
    PROVE  Tokens'
<1> DEFINE E == {j \in Invitations : inv[j].org = o}
<1>1. requests \in Nat /\ UNCHANGED <<requests, accept, tokens>>
  BY BoundsAssumption DEF PurgeOrg, Owners, AccountTypes
<1>2. CASE PurgeDue(o)
  <2>1. inv' = [j \in Invitations |-> IF inv[j].org = o THEN [inv[j] EXCEPT !.st = "revoked"]
                                                        ELSE inv[j]]
    BY <1>2 DEF PurgeOrg
  <2>2. spent' = spent \cup {inv[j].token : j \in E}
    BY <1>2 DEF PurgeOrg
  <2>3. inv' = [j \in Invitations |-> IF j \in E THEN [inv[j] EXCEPT !.st = "revoked"] ELSE inv[j]]
    BY <2>1
  <2>4. \A j \in E : inv[j].st # "none"
    BY SetFacts DEF Tokens, TokensNew
  <2>5. accept' \in [Users -> Acceptances] /\ \A v \in Users : accept'[v] \in {accept[v], NoAccept}
    BY <1>1 DEF Tokens, InvitationTypes
  <2>6. E \in SUBSET Invitations
    OBVIOUS
  <2> HIDE DEF E
  <2> QED
    BY <1>1, <2>2, <2>3, <2>4, <2>5, <2>6, EndingKeeps
<1>3. CASE ~PurgeDue(o)
  <2>1. UNCHANGED invVars
    BY <1>1, <1>3 DEF PurgeOrg, invVars
  <2> QED
    BY <1>1, <2>1, TokensElsewhere
<1> QED
  BY <1>2, <1>3

-----------------------------------------------------------------------------
(* The requests and the purge keep the owners. *)
LEMMA ActsAccounts ==
    ASSUME AccountTypes, NEW u \in Users, Acts(u), acct' = acct
    PROVE  AccountTypes'
  BY ActsTypes DEF AccountTypes

LEMMA FoundOrgKeeps ==
    ASSUME Owners, now \in Nat, NEW u \in Users, NEW o \in Orgs,
           Create(u, o) \/ (o = u /\ EnsurePersonalWorkspace(u))
    PROVE  Owners'
<1>1. /\ Acts(u) /\ stage[o] = "absent" /\ stage' = [stage EXCEPT ![o] = "live"]
      /\ AddMember(o, u, "owner", now) /\ UNCHANGED <<purgeAfter, acct, skipped>>
  BY DEF Create, EnsurePersonalWorkspace
<1>2. AccountTypes' /\ now \in Int
  BY <1>1, ActsAccounts DEF Owners
<1> QED
  BY <1>1, <1>2, FoundingKeeps

LEMMA DeleteKeeps ==
    ASSUME Owners, now \in Nat, NEW u \in Users, NEW o \in Orgs, Delete(u, o)
    PROVE  Owners'
<1>1. /\ Acts(u) /\ stage[o] = "live" /\ stage' = [stage EXCEPT ![o] = "deleted"]
      /\ purgeAfter' = [purgeAfter EXCEPT ![o] = now + Retention]
      /\ UNCHANGED <<role, joined, acct, skipped>>
  BY DEF Delete, LockOrg, MarkOrgDeleted
<1>2. AccountTypes'
  BY <1>1, ActsAccounts DEF Owners
<1>3. OrgTypes'
  BY <1>1, BoundsAssumption DEF Owners, OrgTypes
<1>4. \A p \in Orgs : \/ stage'[p] = stage[p] /\ role'[p] = role[p]
                      \/ stage'[p] = "deleted" /\ stage[p] # "absent"
  BY <1>1 DEF Owners, OrgTypes
<1> QED
  BY <1>1, <1>2, <1>3, <1>4, NoMemberKeeps

LEMMA PurgeOrgKeeps ==
    ASSUME Owners, NEW o \in Orgs, PurgeOrg(o)
    PROVE  Owners'
<1>1. UNCHANGED <<acct, requests, late, skipped>>
  BY DEF PurgeOrg
<1>2. AccountTypes'
  BY <1>1 DEF Owners, AccountTypes
<1>3. CASE PurgeDue(o)
  <2>1. /\ stage' = [stage EXCEPT ![o] = "purged"] /\ purgeAfter' = [purgeAfter EXCEPT ![o] = 0]
        /\ role' = [role EXCEPT ![o] = NoMembers]
        /\ joined' = [joined EXCEPT ![o] = Nobody.joined]
    BY <1>3 DEF PurgeOrg
  <2>2. NoMembers \in [Users -> Roles \cup {NotMember}] /\ Nobody.joined \in [Users -> Int]
    BY DEF NoMembers, Nobody
  <2>3. OrgTypes'
    BY <1>1, <2>1, <2>2 DEF Owners, OrgTypes
  <2>4. \A p \in Orgs : \/ stage'[p] = stage[p] /\ role'[p] = role[p]
                        \/ stage'[p] = "purged"
    BY <2>1 DEF Owners, OrgTypes
  <2> QED
    BY <1>1, <1>2, <2>3, <2>4, NoMemberKeeps
<1>4. CASE ~PurgeDue(o)
  <2>1. UNCHANGED <<stage, purgeAfter, role, joined>>
    BY <1>4 DEF PurgeOrg, orgVars
  <2>2. OrgTypes'
    BY <1>1, <2>1 DEF Owners, OrgTypes
  <2> QED
    BY <1>1, <1>2, <2>1, <2>2, NoMemberKeeps
<1> QED
  BY <1>3, <1>4

(* Steps that leave organisations and accounts alone. *)
LEMMA OwnersElsewhere ==
    ASSUME Owners, AccountTypes', UNCHANGED <<orgVars, acct, skipped>>
    PROVE  Owners'
<1>1. UNCHANGED <<stage, purgeAfter, role, joined, acct, skipped>>
  BY DEF orgVars
<1>2. OrgTypes'
  BY <1>1 DEF Owners, OrgTypes
<1> QED
  BY <1>1, <1>2, NoMemberKeeps

LEMMA ChangeRoleKeeps ==
    ASSUME Owners, NEW u \in Users, NEW o \in Orgs, NEW m \in Users, NEW r \in Roles,
           ChangeRole(u, o, m, r)
    PROVE  Owners'
<1>1. /\ Acts(u) /\ stage[o] = "live" /\ role[o][m] # NotMember /\ KeepAnOwner(o, m)
      /\ role' = [role EXCEPT ![o][m] = r]
      /\ UNCHANGED <<stage, purgeAfter, joined, acct, skipped>>
  BY DEF ChangeRole, LockOrg
<1>2. AccountTypes' /\ joined' \in [Orgs -> [Users -> Int]]
  BY <1>1, ActsAccounts DEF Owners, OrgTypes
<1>3. r \in Roles \cup {NotMember}
  OBVIOUS
<1> QED
  BY <1>1, <1>2, <1>3, MembershipKeeps

LEMMA DropKeeps ==
    ASSUME Owners, NEW u \in Users, NEW o \in Orgs, NEW m \in Users,
           RemoveMember(u, o, m) \/ (m = u /\ Leave(u, o))
    PROVE  Owners'
<1> DEFINE r == NotMember
<1>1. /\ Acts(u) /\ stage[o] = "live" /\ KeepAnOwner(o, m)
      /\ role' = [role EXCEPT ![o][m] = r] /\ joined' = [joined EXCEPT ![o][m] = 0]
      /\ UNCHANGED <<stage, purgeAfter, acct, skipped>>
  BY DEF RemoveMember, Leave, LockOrg, DropMember
<1>2. role[o][m] # NotMember
  BY RoleFacts DEF RemoveMember, Leave, LockOrg, Owners, OrgTypes
<1>3. AccountTypes' /\ joined' \in [Orgs -> [Users -> Int]]
  BY <1>1, ActsAccounts DEF Owners, OrgTypes
<1>4. r \in Roles \cup {NotMember}
  OBVIOUS
<1> HIDE DEF r
<1> QED
  BY <1>1, <1>2, <1>3, <1>4, MembershipKeeps

(* Who joins does not own yet, and the inviter is there and live. *)
LEMMA AcceptCommitKeeps ==
    ASSUME Owners, Tokens, NEW u \in Users, AcceptCommit(u)
    PROVE  Owners'
<1>1. UNCHANGED <<stage, purgeAfter, acct, requests, late, skipped>> /\ accept[u] # NoAccept
  BY DEF AcceptCommit
<1>2. AccountTypes' /\ OrgTypes
  BY <1>1 DEF Owners, AccountTypes
<1>3. CASE Admits(u, accept[u])
  <2>1. PICK i, o, r, at : i = accept[u].inv /\ o = inv[i].org /\ r = inv[i].role /\ at = accept[u].at
    OBVIOUS
  <2>2. i \in Invitations /\ inv[i].st # "none"
    BY <1>1, <2>1 DEF Tokens, AcceptsFound
  <2>3. o \in Orgs /\ r \in Roles \cup {NotMember} /\ inv[i].by \in Users
    BY <2>1, <2>2, SetFacts DEF Tokens, RowsComplete
  <2>4. at \in Int
    <3>1. accept[u] \in Acceptances
      BY DEF Tokens, InvitationTypes
    <3> QED
      BY <2>1, <3>1 DEF Acceptances
  <2>5. role' = [role EXCEPT ![o][u] = r] /\ joined' = [joined EXCEPT ![o][u] = at]
    BY <1>3, <2>1 DEF AcceptCommit, AddMember
  <2>6. stage[o] = "live" /\ role[o][u] = NotMember /\ InviterMayAssign(i)
    BY <1>3, <2>1 DEF Admits
  <2>7. HasLiveMember(o)
    <3>1. Live(inv[i].by) /\ "manage" \in Permissions(role[o][inv[i].by])
      BY <2>1, <2>6 DEF InviterMayAssign
    <3>2. role[o][inv[i].by] # NotMember
      BY <1>2, <2>3, <3>1, RoleFacts DEF OrgTypes
    <3> QED
      BY <2>3, <3>1, <3>2 DEF HasLiveMember
  <2>8. KeepAnOwner(o, u)
    BY <2>6, SetFacts DEF KeepAnOwner
  <2>9. joined' \in [Orgs -> [Users -> Int]]
    BY <1>2, <2>3, <2>4, <2>5, JoinedUpdate
  <2> QED
    BY <1>1, <1>2, <2>3, <2>5, <2>6, <2>7, <2>8, <2>9, MembershipKeeps
<1>4. CASE ~Admits(u, accept[u])
  <2>1. UNCHANGED <<orgVars, acct, skipped>>
    BY <1>1, <1>4 DEF AcceptCommit, orgVars
  <2> QED
    BY <1>2, <2>1, OwnersElsewhere
<1> QED
  BY <1>3, <1>4

-----------------------------------------------------------------------------
(* The clocks. *)
LEMMA ClocksElsewhere ==
    ASSUME Clocks, UNCHANGED <<purge, now>>, faults' = faults \/ Fault
    PROVE  Clocks'
<1>1. faults' \in 0..MaxFaults
  BY BoundsAssumption DEF Clocks, ClockTypes, Fault
<1> QED
  BY <1>1 DEF Clocks, ClockTypes

LEMMA PurgeClocks ==
    ASSUME Clocks, PurgeList \/ (\E o \in Orgs : PurgeOrg(o)) \/ Tick
    PROVE  Clocks'
<1>1. purge \in [now : Nat, todo : SUBSET Orgs] /\ now \in 0..MaxNow /\ faults \in 0..MaxFaults
      /\ purge.now <= now
  BY DEF Clocks, ClockTypes
<1>2. CASE PurgeList
  <2>1. /\ purge' = [now |-> now,
                     todo |-> {o \in Orgs : stage[o] = "deleted" /\ purgeAfter[o] <= now}]
        /\ UNCHANGED <<now, faults>>
    BY <1>2 DEF PurgeList
  <2>2. purge' \in [now : Nat, todo : SUBSET Orgs] /\ purge'.now = now
    BY <1>1, <2>1, BoundsAssumption
  <2> QED
    BY <1>1, <2>1, <2>2, BoundsAssumption DEF Clocks, ClockTypes
<1>3. CASE \E o \in Orgs : PurgeOrg(o)
  <2>1. PICK o \in Orgs : purge' = [purge EXCEPT !.todo = @ \ {o}] /\ UNCHANGED <<now, faults>>
    BY <1>3 DEF PurgeOrg
  <2>2. purge' \in [now : Nat, todo : SUBSET Orgs] /\ purge'.now = purge.now
    BY <1>1, <2>1
  <2> QED
    BY <1>1, <2>1, <2>2 DEF Clocks, ClockTypes
<1>4. CASE Tick
  <2>1. now < MaxNow /\ now' = now + 1 /\ UNCHANGED <<purge, faults>>
    BY <1>4 DEF Tick
  <2>2. now' \in 0..MaxNow /\ purge.now <= now'
    BY <1>1, <2>1, BoundsAssumption
  <2> QED
    BY <1>1, <2>1, <2>2 DEF Clocks, ClockTypes
<1> QED
  BY <1>2, <1>3, <1>4

-----------------------------------------------------------------------------
(* The starts have an owner, the workspaces do not exist, every account is
   live and nothing was sent. *)
LEMMA InitInv == Init => IInv
<1> SUFFICES ASSUME Init PROVE IInv
  OBVIOUS
<1>1. PICK start \in [Teams -> Starts] :
        LET list == [o \in Orgs |-> IF o \in Teams THEN start[o] ELSE Nobody] IN
        /\ stage = [o \in Orgs |-> IF list[o].role = NoMembers THEN "absent" ELSE "live"]
        /\ role = [o \in Orgs |-> list[o].role]
        /\ joined = [o \in Orgs |-> list[o].joined]
  BY DEF Init
<1> DEFINE list == [o \in Orgs |-> IF o \in Teams THEN start[o] ELSE Nobody]
<1>2. /\ Nobody.role = NoMembers /\ Nobody.joined \in [Users -> Int]
      /\ NoMembers \in [Users -> Roles \cup {NotMember}]
  BY DEF Nobody, NoMembers
<1>3. \A o \in Orgs : /\ list[o].role \in [Users -> Roles \cup {NotMember}]
                      /\ list[o].joined \in [Users -> Int]
                      /\ list[o].role # NoMembers => \E u \in Users : list[o].role[u] = "owner"
  <2> SUFFICES ASSUME NEW o \in Orgs
               PROVE  /\ list[o].role \in [Users -> Roles \cup {NotMember}]
                      /\ list[o].joined \in [Users -> Int]
                      /\ list[o].role # NoMembers => \E u \in Users : list[o].role[u] = "owner"
    OBVIOUS
  <2>1. CASE o \in Teams
    <3>1. list[o] = start[o] /\ start[o] \in Starts
      BY <2>1
    <3> QED
      BY <3>1, StartsAssumption
  <2>2. CASE o \notin Teams
    <3>1. list[o] = Nobody
      BY <2>2
    <3> QED
      BY <1>2, <3>1
  <2> QED
    BY <2>1, <2>2
<1>4. /\ stage = [o \in Orgs |-> IF list[o].role = NoMembers THEN "absent" ELSE "live"]
      /\ role = [o \in Orgs |-> list[o].role]
      /\ joined = [o \in Orgs |-> list[o].joined]
  BY <1>1
<1> HIDE DEF list
<1>5. /\ purgeAfter = [o \in Orgs |-> 0]
      /\ acct = [u \in Users |-> [st |-> "live", todo |-> {}, at |-> NoOrg]]
      /\ requests = 0 /\ late = [u \in Users |-> 0]
      /\ inv = [i \in Invitations |-> NoInvitation] /\ accept = [u \in Users |-> NoAccept]
      /\ tokens = 0 /\ spent = {} /\ purge = [now |-> 0, todo |-> {}] /\ skipped = {}
      /\ now = 0 /\ faults = 0
  BY DEF Init
<1>6. OrgTypes
  <2>1. stage \in [Orgs -> {"absent", "live", "deleted", "purged"}]
    BY <1>4
  <2>2. role \in [Orgs -> [Users -> Roles \cup {NotMember}]] /\ joined \in [Orgs -> [Users -> Int]]
    BY <1>3, <1>4
  <2> QED
    BY <1>5, <2>1, <2>2 DEF OrgTypes
<1>7. AccountTypes
  <2>1. [st |-> "live", todo |-> {}, at |-> NoOrg] \in Accounts
    BY DEF Accounts, AccountStages
  <2>2. acct \in [Users -> Accounts]
    BY <1>5, <2>1
  <2>3. requests \in 0..MaxRequests /\ late \in [Users -> 0..MaxLate]
    BY <1>5, BoundsAssumption
  <2> QED
    BY <2>2, <2>3 DEF AccountTypes
<1>8. AbsentEmpty
  <2> SUFFICES ASSUME NEW o \in Orgs, stage[o] = "absent", NEW u \in Users
               PROVE  role[o][u] = NotMember
    BY DEF AbsentEmpty
  <2>1. role[o] = NoMembers
    BY <1>4
  <2> QED
    BY <2>1 DEF NoMembers
<1>9. \A u \in Users : acct[u].at = NoOrg /\ acct[u].st = "live"
  BY <1>5
<1>10. HookRuns
  BY <1>9 DEF HookRuns
<1>11. OwnerKept
  <2> SUFFICES ASSUME NEW o \in Orgs, stage[o] = "live" PROVE HasLiveOwner(o)
    BY DEF OwnerKept, Ownerless
  <2>1. list[o].role # NoMembers /\ role[o] = list[o].role
    BY <1>4
  <2>2. PICK u \in Users : role[o][u] = "owner"
    BY <1>3, <2>1
  <2> QED
    BY <1>9, <2>2 DEF HasLiveOwner, Live
<1>12. NoInvitation \in InvitationRows /\ NoAccept \in Acceptances
  BY BoundsAssumption DEF NoInvitation, InvitationRows, NoAccept, Acceptances
<1>13. InvitationTypes
  BY <1>5, <1>12, BoundsAssumption DEF InvitationTypes
<1>14. \A i \in Invitations : inv[i].st = "none" /\ inv[i].token = 0 /\ inv[i].org = NoOrg
  BY <1>5 DEF NoInvitation
<1>15. RowsComplete /\ TokensNew
  BY <1>5, <1>14 DEF RowsComplete, TokensNew
<1>16. AcceptsFound
  BY <1>5 DEF AcceptsFound
<1>17. Clocks
  <2>1. purge \in [now : Nat, todo : SUBSET Orgs] /\ purge.now = 0
    BY <1>5
  <2> QED
    BY <1>5, <2>1, BoundsAssumption DEF Clocks, ClockTypes
<1> QED
  BY <1>6, <1>7, <1>8, <1>10, <1>11, <1>13, <1>15, <1>16, <1>17 DEF IInv, Owners, Tokens

-----------------------------------------------------------------------------
(* The steps, by who takes them. *)
LEMMA RequestInv ==
    ASSUME IInv, NEW u \in Users, NEW o \in Orgs,
           (o \in Teams /\ Create(u, o)) \/ (o = u /\ EnsurePersonalWorkspace(u))
             \/ Membership(u, o)
    PROVE  IInv'
<1>1. Owners /\ Tokens /\ Clocks /\ now \in Nat /\ requests \in Nat
  BY BoundsAssumption DEF IInv, Clocks, ClockTypes, Owners, AccountTypes
<1>2. Acts(u) /\ UNCHANGED <<acct, purge, now, faults>>
  BY DEF Create, EnsurePersonalWorkspace, Membership, ChangeRole, RemoveMember, Leave, Delete,
         Restore, Invite
<1>3. Clocks'
  BY <1>1, <1>2, ClocksElsewhere
<1>4. requests' = requests + 1 /\ AccountTypes'
  BY <1>1, <1>2, ActsTypes, ActsAccounts DEF Owners
<1>5. CASE (o \in Teams /\ Create(u, o)) \/ (o = u /\ EnsurePersonalWorkspace(u))
  <2>1. UNCHANGED invVars
    BY <1>5 DEF Create, EnsurePersonalWorkspace
  <2>2. Tokens'
    BY <1>1, <1>4, <2>1, TokensElsewhere
  <2>3. Owners'
    BY <1>1, <1>5, FoundOrgKeeps
  <2> QED
    BY <1>3, <2>2, <2>3 DEF IInv
<1>6. ASSUME NEW m \in Users, NEW r \in Roles, ChangeRole(u, o, m, r) PROVE IInv'
  <2>1. UNCHANGED invVars
    BY <1>6 DEF ChangeRole
  <2>2. Tokens'
    BY <1>1, <1>4, <2>1, TokensElsewhere
  <2>3. Owners'
    BY <1>1, <1>6, ChangeRoleKeeps
  <2> QED
    BY <1>3, <2>2, <2>3 DEF IInv
<1>7. ASSUME NEW m \in Users, RemoveMember(u, o, m) \/ (m = u /\ Leave(u, o)) PROVE IInv'
  <2>1. UNCHANGED invVars
    BY <1>7 DEF RemoveMember, Leave
  <2>2. Tokens'
    BY <1>1, <1>4, <2>1, TokensElsewhere
  <2>3. Owners'
    BY <1>1, <1>7, DropKeeps
  <2> QED
    BY <1>3, <2>2, <2>3 DEF IInv
<1>8. CASE Delete(u, o)
  <2>1. UNCHANGED invVars
    BY <1>8 DEF Delete
  <2>2. Tokens'
    BY <1>1, <1>4, <2>1, TokensElsewhere
  <2>3. Owners'
    BY <1>1, <1>8, DeleteKeeps
  <2> QED
    BY <1>3, <2>2, <2>3 DEF IInv
<1>9. CASE Restore(u, o)
  <2>1. UNCHANGED invVars
    BY <1>9 DEF Restore
  <2>2. Tokens'
    BY <1>1, <1>4, <2>1, TokensElsewhere
  <2>3. Owners'
    BY <1>1, <1>9, RestoreKeeps
  <2> QED
    BY <1>3, <2>2, <2>3 DEF IInv
<1>10. ASSUME NEW i \in Invitations, NEW m \in Users, NEW r \in Roles, Invite(u, o, i, m, r)
       PROVE  IInv'
  <2>1. UNCHANGED <<orgVars, acct, skipped>>
    BY <1>10 DEF Invite
  <2>2. Owners'
    BY <1>1, <1>4, <2>1, OwnersElsewhere
  <2>3. Tokens'
    BY <1>1, <1>10, InviteTokens
  <2> QED
    BY <1>3, <2>2, <2>3 DEF IInv
<1> QED
  BY <1>5, <1>6, <1>7, <1>8, <1>9, <1>10 DEF Membership

LEMMA InvitedInv ==
    ASSUME IInv, NEW u \in Users, Invited(u)
    PROVE  IInv'
<1>1. Owners /\ Tokens /\ Clocks /\ now \in Nat
  BY BoundsAssumption DEF IInv, Clocks, ClockTypes
<1>2. UNCHANGED <<acct, purge, skipped, now, faults>>
  BY DEF Invited, ResendInvitation, RevokeInvitation, AcceptBegin, AcceptCommit
<1>3. Clocks'
  BY <1>1, <1>2, ClocksElsewhere
<1>4. ASSUME NEW i \in Invitations, ResendInvitation(u, i) \/ RevokeInvitation(u, i) PROVE IInv'
  <2>1. Acts(u) /\ UNCHANGED orgVars
    BY <1>4 DEF ResendInvitation, RevokeInvitation
  <2>2. AccountTypes'
    BY <1>1, <1>2, <2>1, ActsAccounts DEF Owners
  <2>3. Owners'
    BY <1>1, <1>2, <2>1, <2>2, OwnersElsewhere
  <2>4. Tokens'
    BY <1>1, <1>4, ResendTokens, RevokeTokens
  <2> QED
    BY <1>3, <2>3, <2>4 DEF IInv
<1>5. ASSUME NEW i \in Invitations, AcceptBegin(u, i) PROVE IInv'
  <2>1. UNCHANGED <<requests, late>> /\ UNCHANGED orgVars
    BY <1>5 DEF AcceptBegin
  <2>2. AccountTypes'
    BY <1>1, <1>2, <2>1 DEF Owners, AccountTypes
  <2>3. Owners'
    BY <1>1, <1>2, <2>1, <2>2, OwnersElsewhere
  <2>4. Tokens'
    BY <1>1, <1>5, AcceptBeginTokens
  <2> QED
    BY <1>3, <2>3, <2>4 DEF IInv
<1>6. CASE AcceptCommit(u)
  <2>1. Owners' /\ Tokens'
    BY <1>1, <1>6, AcceptCommitKeeps, AcceptCommitTokens
  <2> QED
    BY <1>3, <2>1 DEF IInv
<1> QED
  BY <1>4, <1>5, <1>6 DEF Invited

LEMMA DeletionInv ==
    ASSUME IInv, NEW u \in Users,
           \/ CheckAccountDeletion(u) \/ DeletionRefused(u) \/ MarkUserDeleted(u)
           \/ Hook(u) \/ HookLost(u) \/ PurgeUser(u)
           \/ \E o \in Orgs : RemoveFails(u, o)
    PROVE  IInv'
<1>1. Owners /\ Tokens /\ Clocks /\ now \in Nat /\ requests \in Nat
  BY BoundsAssumption DEF IInv, Clocks, ClockTypes, Owners, AccountTypes
<1>2. UNCHANGED <<requests, purge, now>> /\ UNCHANGED invVars
  BY DEF CheckAccountDeletion, DeletionRefused, MarkUserDeleted, Hook, RemoveAccount, RemoveOwner,
         RemoveAccountDone, RemoveFromOrg, HookLost, RemoveFails, PurgeUser
<1>3. faults' = faults \/ Fault
  BY DEF CheckAccountDeletion, DeletionRefused, MarkUserDeleted, Hook, RemoveAccount, RemoveOwner,
         RemoveAccountDone, RemoveFromOrg, HookLost, RemoveFails, PurgeUser
<1>4. Clocks'
  BY <1>1, <1>2, <1>3, ClocksElsewhere
<1>5. Tokens'
  BY <1>1, <1>2, TokensElsewhere
<1>6. Owners'
  <2>1. CASE CheckAccountDeletion(u) \/ DeletionRefused(u)
    BY <1>1, <2>1, CheckKeeps
  <2>2. CASE MarkUserDeleted(u)
    BY <1>1, <2>2, MarkUserDeletedKeeps
  <2>3. CASE RemoveAccount(u)
    BY <1>1, <2>3, RemoveAccountKeeps
  <2>4. CASE RemoveOwner(u)
    BY <1>1, <2>4, RemoveOwnerKeeps
  <2>5. CASE RemoveAccountDone(u)
    BY <1>1, <2>5, RemoveAccountDoneKeeps
  <2>6. ASSUME NEW o \in Orgs, RemoveFromOrg(u, o) PROVE Owners'
    BY <1>1, <2>6, RemoveFromOrgKeeps
  <2>7. CASE HookLost(u)
    BY <1>1, <2>7, HookLostKeeps
  <2>8. CASE PurgeUser(u)
    BY <1>1, <2>8, PurgeUserKeeps
  <2>9. ASSUME NEW o \in Orgs, RemoveFails(u, o) PROVE Owners'
    BY <1>1, <2>9, RemoveFailsKeeps
  <2> QED
    BY <2>1, <2>2, <2>3, <2>4, <2>5, <2>6, <2>7, <2>8, <2>9 DEF Hook
<1> QED
  BY <1>4, <1>5, <1>6 DEF IInv

LEMMA JobInv ==
    ASSUME IInv, PurgeList \/ (\E o \in Orgs : PurgeOrg(o)) \/ Tick
    PROVE  IInv'
<1>1. Owners /\ Tokens /\ Clocks /\ requests \in Nat
  BY BoundsAssumption DEF IInv, Owners, AccountTypes
<1>2. Clocks'
  BY <1>1, PurgeClocks
<1>3. CASE PurgeList \/ Tick
  <2>1. UNCHANGED <<orgVars, acct, requests, late, skipped>> /\ UNCHANGED invVars
    BY <1>3 DEF PurgeList, Tick
  <2>2. AccountTypes'
    BY <1>1, <2>1 DEF Owners, AccountTypes
  <2>3. Owners'
    BY <1>1, <2>1, <2>2, OwnersElsewhere
  <2>4. Tokens'
    BY <1>1, <2>1, TokensElsewhere
  <2> QED
    BY <1>2, <2>3, <2>4 DEF IInv
<1>4. ASSUME NEW o \in Orgs, PurgeOrg(o) PROVE IInv'
  <2>1. Owners' /\ Tokens'
    BY <1>1, <1>4, PurgeOrgKeeps, PurgeOrgTokens
  <2> QED
    BY <1>2, <2>1 DEF IInv
<1> QED
  BY <1>3, <1>4

LEMMA StutterInv == IInv /\ UNCHANGED vars => IInv'
<1> SUFFICES ASSUME IInv, UNCHANGED vars PROVE IInv'
  OBVIOUS
<1>1. /\ UNCHANGED <<orgVars, acct, requests, late, skipped>> /\ UNCHANGED invVars
      /\ UNCHANGED <<purge, now, faults>>
  BY DEF vars
<1>2. Owners /\ Tokens /\ Clocks /\ requests \in Nat
  BY BoundsAssumption DEF IInv, Owners, AccountTypes
<1>3. AccountTypes'
  BY <1>1, <1>2 DEF Owners, AccountTypes
<1>4. Owners'
  BY <1>1, <1>2, <1>3, OwnersElsewhere
<1>5. Tokens'
  BY <1>1, <1>2, TokensElsewhere
<1>6. Clocks'
  BY <1>1, <1>2, ClocksElsewhere
<1> QED
  BY <1>4, <1>5, <1>6 DEF IInv

LEMMA NextInv == IInv /\ [Next]_vars => IInv'
<1> SUFFICES ASSUME IInv, [Next]_vars PROVE IInv'
  OBVIOUS
<1>1. ASSUME NEW u \in Users, NEW o \in Teams, Create(u, o) PROVE IInv'
  BY <1>1, RequestInv, SetFacts
<1>2. ASSUME NEW u \in Users, NEW o \in Orgs, Membership(u, o) PROVE IInv'
  BY <1>2, RequestInv
<1>3. ASSUME NEW u \in Users, NEW o \in Orgs, RemoveFails(u, o) PROVE IInv'
  BY <1>3, DeletionInv
<1>4. ASSUME NEW u \in Users, Invited(u) PROVE IInv'
  BY <1>4, InvitedInv
<1>5. ASSUME NEW u \in Users,
             \/ CheckAccountDeletion(u) \/ DeletionRefused(u) \/ MarkUserDeleted(u)
             \/ Hook(u) \/ HookLost(u) \/ PurgeUser(u)
      PROVE  IInv'
  BY <1>5, DeletionInv
<1>6. ASSUME NEW u \in Workspaces, EnsurePersonalWorkspace(u) PROVE IInv'
  <2>1. u \in Users /\ u \in Orgs
    BY SetFacts
  <2> QED
    BY <1>6, <2>1, RequestInv
<1>7. ASSUME PurgeList \/ (\E o \in Orgs : PurgeOrg(o)) \/ Tick PROVE IInv'
  BY <1>7, JobInv
<1>8. CASE UNCHANGED vars
  BY <1>8, StutterInv
<1> QED
  BY <1>1, <1>2, <1>3, <1>4, <1>5, <1>6, <1>7, <1>8 DEF Next

LEMMA Invariance == Spec => []IInv
  BY InitInv, NextInv, PTL DEF Spec

-----------------------------------------------------------------------------
(* Every variable keeps its type: the tables, the accounts' deletions, the
   requests in flight, the purge job and the clock. *)
THEOREM TypeCorrect == Spec => []TypeOK
<1>1. IInv => TypeOK
  BY DEF IInv, Owners, Tokens, Clocks, OrgTypes, AccountTypes, InvitationTypes, ClockTypes, TypeOK
<1> QED
  BY <1>1, Invariance, PTL

(* "At least one owner": for any accounts, teams and starting memberships, in
   every interleaving of role changes, removals, leaves, accepted invitations,
   restores and account deletions, a live organisation with a live member has
   a live owner or one whose AccountDeleted hook has yet to reach it, unless
   that hook failed or a late request of a deleted account restored it. *)
THEOREM OwnerAlwaysKept == Spec => []OwnerKept
<1>1. IInv => OwnerKept
  BY DEF IInv, Owners
<1> QED
  BY <1>1, Invariance, PTL

(* Only an acceptance's transaction ends an acceptance and adds a member. *)
LEMMA OnlyAcceptAdmits ==
    ASSUME [Next]_vars, accept' # accept, role' # role
    PROVE  \E v \in Users : AcceptCommit(v)
<1>1. ASSUME NEW u \in Users, NEW o \in Orgs, Membership(u, o) PROVE accept' = accept
  BY <1>1 DEF Membership, ChangeRole, RemoveMember, Leave, Delete, Restore, Invite, invVars
<1>2. ASSUME NEW u \in Users, NEW o \in Orgs, Create(u, o) \/ EnsurePersonalWorkspace(u)
      PROVE  accept' = accept
  BY <1>2 DEF Create, EnsurePersonalWorkspace, invVars
<1>3. ASSUME NEW u \in Users,
             \/ CheckAccountDeletion(u) \/ DeletionRefused(u) \/ MarkUserDeleted(u)
             \/ Hook(u) \/ HookLost(u) \/ PurgeUser(u)
             \/ \E o \in Orgs : RemoveFails(u, o)
      PROVE  accept' = accept
  BY <1>3 DEF CheckAccountDeletion, DeletionRefused, MarkUserDeleted, Hook, RemoveAccount,
       RemoveOwner, RemoveAccountDone, RemoveFromOrg, HookLost, RemoveFails, PurgeUser, invVars
<1>4. ASSUME NEW u \in Users, NEW i \in Invitations,
             ResendInvitation(u, i) \/ RevokeInvitation(u, i) \/ AcceptBegin(u, i)
      PROVE  role' = role
  BY <1>4 DEF ResendInvitation, RevokeInvitation, AcceptBegin, orgVars
<1>5. ASSUME PurgeList \/ (\E o \in Orgs : PurgeOrg(o)) \/ Tick PROVE accept' = accept
  BY <1>5 DEF PurgeList, PurgeOrg, Tick, invVars
<1>6. Workspaces \subseteq Users /\ Workspaces \subseteq Orgs /\ Teams \subseteq Orgs
  BY SetFacts
<1>7. Next
  BY DEF vars, invVars
<1> QED
  BY <1>1, <1>2, <1>3, <1>4, <1>5, <1>6, <1>7 DEF Next, Invited

(* A token that was replaced, revoked, purged or used admits nobody, however
   AcceptInvitation's reads and its transaction are interleaved with resends,
   revocations and purges: the transaction compares the token again. *)
THEOREM SpentTokensRefused == Spec => SpentTokensAdmitNobody
<1>1. ASSUME IInv, [Next]_vars
      PROVE  \A u \in Users :
               accept[u] # NoAccept /\ accept'[u] = NoAccept /\ role' # role
                  => accept[u].token \notin spent
  <2> SUFFICES ASSUME NEW u \in Users, accept[u] # NoAccept, accept'[u] = NoAccept, role' # role
               PROVE  accept[u].token \notin spent
    OBVIOUS
  <2>1. PICK v \in Users : AcceptCommit(v)
    BY <1>1, OnlyAcceptAdmits
  <2>2. Tokens /\ accept \in [Users -> Acceptances]
    BY <1>1 DEF IInv, Tokens, InvitationTypes
  <2>3. v = u
    BY <2>1, <2>2 DEF AcceptCommit
  <2>4. Admits(u, accept[u])
    BY <2>1, <2>3 DEF AcceptCommit
  <2>5. accept[u].inv \in Invitations
    BY <2>2 DEF Tokens, AcceptsFound
  <2>6. inv[accept[u].inv].token = accept[u].token /\ inv[accept[u].inv].st = "open"
    BY <2>4 DEF Admits, StillPending
  <2> QED
    BY <2>2, <2>5, <2>6 DEF Tokens, TokensNew
<1> QED
  BY <1>1, Invariance, PTL DEF Spec, SpentTokensAdmitNobody

(* Only the purge job purges. *)
LEMMA OnlyPurgePurges ==
    ASSUME OrgTypes, [Next]_vars, NEW o \in Orgs, stage[o] # "purged", stage'[o] = "purged"
    PROVE  \E p \in Orgs : PurgeOrg(p)
<1>1. stage \in [Orgs -> {"absent", "live", "deleted", "purged"}]
  BY DEF OrgTypes
<1>2. ASSUME NEW u \in Users, NEW p \in Orgs, Create(u, p) \/ (p = u /\ EnsurePersonalWorkspace(u))
      PROVE  FALSE
  BY <1>1, <1>2 DEF Create, EnsurePersonalWorkspace
<1>3. ASSUME NEW u \in Users, NEW p \in Orgs, Membership(u, p) PROVE FALSE
  BY <1>1, <1>3 DEF Membership, ChangeRole, RemoveMember, Leave, Delete, Restore, Invite,
       MarkOrgDeleted, orgVars
<1>4. ASSUME NEW u \in Users, Invited(u) PROVE FALSE
  BY <1>4 DEF Invited, ResendInvitation, RevokeInvitation, AcceptBegin, AcceptCommit, orgVars
<1>5. ASSUME NEW u \in Users,
             \/ CheckAccountDeletion(u) \/ DeletionRefused(u) \/ MarkUserDeleted(u)
             \/ RemoveAccount(u) \/ RemoveOwner(u) \/ RemoveAccountDone(u)
             \/ HookLost(u) \/ PurgeUser(u)
             \/ \E p \in Orgs : RemoveFails(u, p)
      PROVE  FALSE
  BY <1>5 DEF CheckAccountDeletion, DeletionRefused, MarkUserDeleted, RemoveAccount,
       RemoveOwner, RemoveAccountDone, HookLost, RemoveFails, PurgeUser, orgVars
<1>6. ASSUME NEW u \in Users, NEW p \in Orgs, RemoveFromOrg(u, p) PROVE FALSE
  BY <1>1, <1>6 DEF RemoveFromOrg, MarkOrgDeleted, orgVars
<1>7. ASSUME PurgeList \/ Tick PROVE FALSE
  BY <1>7 DEF PurgeList, Tick, orgVars
<1>8. Workspaces \subseteq Users /\ Workspaces \subseteq Orgs /\ Teams \subseteq Orgs
  BY SetFacts
<1>9. Next
  BY DEF vars, orgVars
<1> QED
  BY <1>2, <1>3, <1>4, <1>5, <1>6, <1>7, <1>8, <1>9 DEF Next, Hook

(* The purge removes an organisation only while it is deleted and its own
   purge time has passed, whatever happened since the job listed it. *)
THEOREM PurgeOnlyDue == Spec => PurgesOnlyDue
<1>1. ASSUME IInv, [Next]_vars
      PROVE  \A o \in Orgs :
               stage[o] # "purged" /\ stage'[o] = "purged"
                  => stage[o] = "deleted" /\ purgeAfter[o] <= now
  <2> SUFFICES ASSUME NEW o \in Orgs, stage[o] # "purged", stage'[o] = "purged"
               PROVE  stage[o] = "deleted" /\ purgeAfter[o] <= now
    OBVIOUS
  <2>1. OrgTypes /\ Clocks
    BY <1>1 DEF IInv, Owners
  <2>2. PICK p \in Orgs : PurgeOrg(p)
    BY <1>1, <2>1, OnlyPurgePurges
  <2>3. p = o /\ PurgeDue(o)
    BY <2>1, <2>2 DEF PurgeOrg, OrgTypes, orgVars
  <2>4. stage[o] = "deleted" /\ purgeAfter[o] <= purge.now
    BY <2>3 DEF PurgeDue
  <2>5. purgeAfter[o] \in Nat /\ purge.now \in Nat /\ now \in Nat /\ purge.now <= now
    BY <2>1, BoundsAssumption DEF OrgTypes, Clocks, ClockTypes
  <2> QED
    BY <2>4, <2>5
<1> QED
  BY <1>1, Invariance, PTL DEF Spec, PurgesOnlyDue
=============================================================================
