--------------------------- MODULE SettingsProofs ---------------------------
(***************************************************************************)
(* Proofs about Settings for any number of instances, settings and         *)
(* organisations and any bounds on writes and faults: its types, that a    *)
(* waiting listener is current, and that the registries implement          *)
(* FollowedVersions.                                                       *)
(***************************************************************************)
EXTENDS Settings, TLAPS

(* Whatever a registry serves, a write has yet to apply or a reload has read
   was committed before: no route is ahead of the table. *)
NothingAhead ==
    \A i \in Instances :
        /\ \A s \in Slots : cache[i][s] <= db[s]
        /\ \A p \in pending[i] : p[2] <= db[p[1]]
        /\ \A t \in Threads, s \in Slots : rl[i][t].loaded[s] <= db[s]

(* What the listener of a subscribed connection knows of a platform setting
   without a notification left: the reload after LISTEN has read its version,
   or the registry serves it, or the one read the notification asked for is
   under way. *)
Knows(i, s) ==
    LET r == rl[i]["listener"] IN
    listening[i] /\ s \notin queue[i] \cup missed[i] =>
        \/ cache[i][s] = db[s]
        \/ r.pc \in {"idle", "begin", "readValues"}
        \/ r.pc = "replaceAll" /\ r.loaded[s] = db[s]
        \/ r.pc = "readKey" /\ r.slot = s
        \/ r.pc = "apply" /\ r.slot = s /\ r.loaded[s] = db[s]

ListenerKnows == \A i \in Instances, s \in PlatformSlots : Knows(i, s)

(* The inductive invariant. *)
IInv == TypeOK /\ NothingAhead /\ ListenerKnows

(* Slots and loops, by name. *)
LEMMA Names ==
    /\ PlatformSlots \subseteq Slots
    /\ OrgSlots \subseteq Slots
    /\ \A s \in Slots : s \in PlatformSlots <=> s \notin OrgSlots
    /\ \E s \in Slots : TRUE
    /\ "resync" \in Threads
    /\ "listener" \in Threads
  BY SlotsAssumption DEF Slots, Threads

(* A loop at rest is a well-typed one, since some setting is declared. *)
LEMMA AtRestType ==
    /\ AtRest \in Reloads
    /\ AtRest.pc = "idle"
    /\ \A s \in Slots : AtRest.loaded[s] = 0
<1>1. (CHOOSE s \in Slots : TRUE) \in Slots
  BY Names
<1> QED
  BY <1>1 DEF AtRest, Reloads, ReloadPCs, Nothing

(* Registries on an empty table satisfy the invariant. *)
LEMMA InitInv == Init => IInv
<1> SUFFICES ASSUME Init PROVE IInv
  OBVIOUS
<1>1. TypeOK
  BY AtRestType, BoundsAssumption DEF Init, TypeOK, Nothing
<1>2. NothingAhead
  <2> SUFFICES ASSUME NEW i \in Instances
               PROVE  /\ \A s \in Slots : cache[i][s] <= db[s]
                      /\ \A p \in pending[i] : p[2] <= db[p[1]]
                      /\ \A t \in Threads, s \in Slots : rl[i][t].loaded[s] <= db[s]
    BY DEF NothingAhead
  <2>1. \A s \in Slots : cache[i][s] <= db[s]
    BY DEF Init, Nothing
  <2>2. \A p \in pending[i] : p[2] <= db[p[1]]
    BY DEF Init
  <2>3. \A t \in Threads : rl[i][t] = AtRest
    BY DEF Init
  <2>4. \A t \in Threads, s \in Slots : rl[i][t].loaded[s] <= db[s]
    BY <2>3, AtRestType DEF Init, Nothing
  <2> QED
    BY <2>1, <2>2, <2>4
<1>3. ListenerKnows
  BY DEF Init, ListenerKnows, Knows
<1> QED
  BY <1>1, <1>2, <1>3 DEF IInv

(* A step of one loop leaves the others alone. *)
LEMMA StepLoop ==
    ASSUME TypeOK, NEW i \in Instances, NEW t \in Threads, NEW r, Step(i, t, r)
    PROVE  /\ r \in Reloads => rl' \in [Instances -> [Threads -> Reloads]]
           /\ rl'[i][t] = r
           /\ \A j \in Instances, u \in Threads :
                 j # i \/ u # t => rl'[j][u] = rl[j][u]
<1>1. rl \in [Instances -> [Threads -> Reloads]]
  BY DEF TypeOK
<1> QED
  BY <1>1 DEF Step

(* What the loops write is well typed. *)
LEMMA ReloadsUpdate ==
    ASSUME NEW r \in Reloads, NEW p \in ReloadPCs, NEW n \in Nat,
           NEW l \in [Slots -> Nat], NEW s \in Slots
    PROVE  /\ [r EXCEPT !.pc = p] \in Reloads
           /\ [r EXCEPT !.pc = p, !.since = n] \in Reloads
           /\ [r EXCEPT !.pc = p, !.loaded = l] \in Reloads
           /\ [r EXCEPT !.pc = p, !.slot = s] \in Reloads
  BY DEF Reloads

(* Applying a version to a registry keeps it well typed. *)
LEMMA ApplyToType ==
    ASSUME TypeOK, NEW i \in Instances, NEW s \in Slots, NEW v \in Nat,
           ApplyTo(i, s, v)
    PROVE  /\ cache' \in [Instances -> [Slots -> Nat]]
           /\ seq' \in [Instances -> [Slots -> Nat]]
           /\ orgSeq' \in [Instances -> Nat]
<1>1. /\ cache \in [Instances -> [Slots -> Nat]]
      /\ seq \in [Instances -> [Slots -> Nat]]
      /\ orgSeq \in [Instances -> Nat]
  BY DEF TypeOK
<1>2. CASE UNCHANGED registry
  BY <1>1, <1>2 DEF registry
<1>3. CASE cache' = [cache EXCEPT ![i][s] = v] /\ UNCHANGED <<orgSeq, seq>>
  BY <1>1, <1>3
<1>4. CASE /\ cache' = [cache EXCEPT ![i][s] = v]
           /\ orgSeq' = [orgSeq EXCEPT ![i] = @ + 1]
           /\ seq' = [seq EXCEPT ![i][s] = orgSeq[i] + 1]
  BY <1>1, <1>4
<1> QED
  BY <1>2, <1>3, <1>4 DEF ApplyTo

(* Every write, reload, notification, fault and restart keeps the state well
   typed. *)
LEMMA TypeInductive == TypeOK /\ [Next]_vars => TypeOK'
<1> SUFFICES ASSUME TypeOK, [Next]_vars PROVE TypeOK'
  OBVIOUS
<1> USE Names, AtRestType, BoundsAssumption
<1> USE DEF TypeOK, Fault, registry, channel
<1>a. \A i \in Instances, t \in Threads : rl[i][t] \in Reloads
  OBVIOUS
<1>b. ReloadPCs = {"idle", "begin", "readValues", "replaceAll", "readOrgs",
                   "replaceOrgs", "wait", "readKey", "apply"}
  BY DEF ReloadPCs
<1>c. \A s \in Slots : RowVersion(s) \in Nat
  BY DEF RowVersion
<1>d. Nothing \in [Slots -> Nat]
  BY DEF Nothing
<1>1. ASSUME NEW s \in Slots, WriteUnreported(s) PROVE TypeOK'
  BY <1>1 DEF WriteUnreported, CommitValue
<1>2. ASSUME NEW s \in OrgSlots, PurgeOrg(s) PROVE TypeOK'
  BY <1>2 DEF PurgeOrg
<1>3. ASSUME NEW i \in Instances, NEW s \in Slots, Write(i, s) PROVE TypeOK'
  BY <1>3 DEF Write, CommitValue
<1>4. ASSUME NEW i \in Instances, NEW s \in Slots, NEW v \in 1..MaxWrites,
             WriteApply(i, s, v)
      PROVE  TypeOK'
  <2>1. ApplyTo(i, s, v) /\ v \in Nat
    BY <1>4 DEF WriteApply
  <2> QED
    BY <1>4, <2>1, ApplyToType DEF WriteApply
<1>5. ASSUME NEW i \in Instances, NEW t \in Threads, NEW r \in Reloads,
             Step(i, t, r)
      PROVE  rl' \in [Instances -> [Threads -> Reloads]]
  BY <1>5, StepLoop
<1>6. ASSUME NEW i \in Instances, ResyncTick(i) PROVE TypeOK'
  <2>1. [rl[i]["resync"] EXCEPT !.pc = "begin"] \in Reloads
    BY <1>a, <1>b, ReloadsUpdate
  <2> QED
    BY <1>5, <1>6, <2>1 DEF ResyncTick, Goto
<1>7. ASSUME NEW i \in Instances, NEW t \in Threads, ReloadBegin(i, t)
      PROVE  TypeOK'
  <2>1. [rl[i][t] EXCEPT !.pc = "readValues", !.since = orgSeq[i]] \in Reloads
    BY <1>a, <1>b, ReloadsUpdate
  <2> QED
    BY <1>5, <1>7, <2>1 DEF ReloadBegin
<1>8. ASSUME NEW i \in Instances, NEW t \in Threads, ReadValues(i, t)
      PROVE  TypeOK'
  <2> DEFINE l == [s \in Slots |-> IF s \in PlatformSlots THEN db[s] ELSE 0]
  <2>1. l \in [Slots -> Nat]
    OBVIOUS
  <2>2. [rl[i][t] EXCEPT !.pc = "replaceAll", !.loaded = l] \in Reloads
    BY <2>1, <1>a, <1>b, ReloadsUpdate
  <2>3. rl' \in [Instances -> [Threads -> Reloads]]
    BY <1>5, <1>8, <2>2 DEF ReadValues
  <2> QED
    BY <1>8, <2>3 DEF ReadValues
<1>9. ASSUME NEW i \in Instances, NEW t \in Threads, ReplaceAll(i, t)
      PROVE  TypeOK'
  <2>1. [rl[i][t] EXCEPT !.pc = "readOrgs", !.loaded = Nothing] \in Reloads
    BY <1>a, <1>b, <1>d, ReloadsUpdate
  <2>2. rl' \in [Instances -> [Threads -> Reloads]]
    BY <1>5, <1>9, <2>1 DEF ReplaceAll
  <2>3. cache' \in [Instances -> [Slots -> Nat]]
    BY <1>9, <1>a DEF ReplaceAll, Newer, Reloads
  <2> QED
    BY <1>9, <2>2, <2>3 DEF ReplaceAll
<1>10. ASSUME NEW i \in Instances, NEW t \in Threads, ReadOrgs(i, t)
       PROVE  TypeOK'
  <2> DEFINE l == [s \in Slots |-> IF s \in OrgSlots THEN RowVersion(s) ELSE 0]
  <2>1. l \in [Slots -> Nat]
    BY <1>c
  <2>2. [rl[i][t] EXCEPT !.pc = "replaceOrgs", !.loaded = l] \in Reloads
    BY <2>1, <1>a, <1>b, ReloadsUpdate
  <2>3. rl' \in [Instances -> [Threads -> Reloads]]
    BY <1>5, <1>10, <2>2 DEF ReadOrgs
  <2> QED
    BY <1>10, <2>3 DEF ReadOrgs
<1>11. ASSUME NEW i \in Instances, NEW t \in Threads, ReplaceOrgs(i, t)
       PROVE  TypeOK'
  <2> DEFINE p == IF t = "listener" THEN "wait" ELSE "idle"
  <2>1. [AtRest EXCEPT !.pc = p] \in Reloads
    BY <1>b, ReloadsUpdate
  <2>2. rl' \in [Instances -> [Threads -> Reloads]]
    BY <1>5, <1>11, <2>1 DEF ReplaceOrgs
  <2>3. /\ cache' \in [Instances -> [Slots -> Nat]]
        /\ seq' \in [Instances -> [Slots -> Nat]]
    BY <1>11, <1>a DEF ReplaceOrgs, Reloads
  <2> QED
    BY <1>11, <2>2, <2>3 DEF ReplaceOrgs
<1>12. ASSUME NEW i \in Instances, NEW t \in Threads, ReloadFails(i, t)
       PROVE  TypeOK'
  <2>1. rl' \in [Instances -> [Threads -> Reloads]]
    BY <1>5, <1>12 DEF ReloadFails
  <2>2. listening' \in [Instances -> BOOLEAN] /\ queue' \in [Instances -> SUBSET Slots]
    BY <1>12 DEF ReloadFails
  <2> QED
    BY <1>12, <2>1, <2>2 DEF ReloadFails
<1>13. ASSUME NEW i \in Instances, Listen(i) PROVE TypeOK'
  <2>1. [rl[i]["listener"] EXCEPT !.pc = "begin"] \in Reloads
    BY <1>a, <1>b, ReloadsUpdate
  <2> QED
    BY <1>5, <1>13, <2>1 DEF Listen, Goto
<1>14. ASSUME NEW i \in Instances, NEW s \in Slots, Notified(i, s) PROVE TypeOK'
  <2>1. [rl[i]["listener"] EXCEPT !.pc = "readKey", !.slot = s] \in Reloads
    BY <1>a, <1>b, ReloadsUpdate
  <2> QED
    BY <1>5, <1>14, <2>1 DEF Notified
<1>15. ASSUME NEW i \in Instances, ReadKey(i) PROVE TypeOK'
  <2> DEFINE r == rl[i]["listener"]
             p == IF RowVersion(r.slot) = 0 THEN "wait" ELSE "apply"
             l == [Nothing EXCEPT ![r.slot] = RowVersion(r.slot)]
  <2>1. r \in Reloads /\ r.slot \in Slots
    BY <1>a DEF Reloads
  <2>2. l \in [Slots -> Nat]
    BY <1>c, <1>d, <2>1
  <2>3. p \in ReloadPCs
    BY <1>b
  <2>4. [r EXCEPT !.pc = p, !.loaded = l] \in Reloads
    BY <2>1, <2>2, <2>3, ReloadsUpdate
  <2>5. rl' \in [Instances -> [Threads -> Reloads]]
    BY <1>5, <1>15, <2>4 DEF ReadKey
  <2> QED
    BY <1>15, <2>5 DEF ReadKey
<1>16. ASSUME NEW i \in Instances, ReadKeyFails(i) PROVE TypeOK'
  <2>1. [rl[i]["listener"] EXCEPT !.pc = "wait"] \in Reloads
    BY <1>a, <1>b, ReloadsUpdate
  <2>2. rl[i]["listener"].slot \in Slots
    BY <1>a DEF Reloads
  <2> QED
    BY <1>5, <1>16, <2>1, <2>2 DEF ReadKeyFails, Goto
<1>17. ASSUME NEW i \in Instances, ApplyKey(i) PROVE TypeOK'
  <2> DEFINE r == rl[i]["listener"]
  <2>1. r.slot \in Slots /\ r.loaded[r.slot] \in Nat
    BY <1>a DEF Reloads
  <2>2. [AtRest EXCEPT !.pc = "wait"] \in Reloads
    BY <1>b, ReloadsUpdate
  <2>3. rl' \in [Instances -> [Threads -> Reloads]]
    BY <1>5, <1>17, <2>2 DEF ApplyKey
  <2>4. ApplyTo(i, r.slot, r.loaded[r.slot])
    BY <1>17 DEF ApplyKey
  <2> QED
    BY <1>17, <2>1, <2>3, <2>4, ApplyToType DEF ApplyKey
<1>18. ASSUME NEW i \in Instances, Disconnect(i) PROVE TypeOK'
  BY <1>18 DEF Disconnect
<1>21. ASSUME NEW i \in Instances, NoticeDisconnect(i) PROVE TypeOK'
  <2>1. rl' \in [Instances -> [Threads -> Reloads]]
    BY <1>5, <1>21 DEF NoticeDisconnect
  <2> QED
    BY <1>21, <2>1 DEF NoticeDisconnect
<1>19. ASSUME NEW i \in Instances, Restart(i) PROVE TypeOK'
  <2>1. rl' \in [Instances -> [Threads -> Reloads]]
    BY <1>19 DEF Restart
  <2>2. cache' \in [Instances -> [Slots -> Nat]]
    BY <1>c, <1>19 DEF Restart
  <2> QED
    BY <1>d, <1>19, <2>1, <2>2 DEF Restart
<1>20. CASE UNCHANGED vars
  BY <1>20 DEF vars
<1> QED
  BY <1>1, <1>2, <1>3, <1>4, <1>6, <1>7, <1>8, <1>9, <1>10, <1>11, <1>12,
     <1>13, <1>14, <1>15, <1>16, <1>17, <1>18, <1>19, <1>20, <1>21
     DEF Next, Resync, Listener, Reload

(* A registry changes only to what Follow allows: applying a version that is
   not ahead of the table moves one slot forward. *)
LEMMA ApplyToFollows ==
    ASSUME TypeOK, NothingAhead, TypeOK', NEW i \in Instances, NEW s \in Slots,
           NEW v \in Nat, v <= db[s], ApplyTo(i, s, v), UNCHANGED db
    PROVE  Followed!Follow(i) /\ v <= cache'[i][s]
<1>1. /\ cache \in [Instances -> [Slots -> Nat]]
      /\ cache' \in [Instances -> [Slots -> Nat]]
      /\ db \in [Slots -> Nat]
      /\ \A x \in Slots : cache[i][x] <= db[x]
  BY DEF TypeOK, NothingAhead
<1>2. CASE cache[i][s] > v
  BY <1>1, <1>2 DEF ApplyTo, registry, Followed!Follow
<1>3. CASE ~(cache[i][s] > v)
  <2>1. cache' = [cache EXCEPT ![i][s] = v]
    BY <1>3 DEF ApplyTo
  <2>2. cache'[i][s] = v /\ cache[i][s] <= v
    BY <1>1, <1>3, <2>1
  <2>3. \A x \in Slots : x # s => cache'[i][x] = cache[i][x]
    BY <1>1, <2>1
  <2>4. \A x \in Slots : cache[i][x] <= cache'[i][x] /\ cache'[i][x] <= db[x]
    BY <1>1, <2>2, <2>3
  <2>5. \A j \in Instances \ {i} : cache'[j] = cache[j]
    BY <1>1, <2>1
  <2> QED
    BY <1>1, <2>2, <2>4, <2>5 DEF Followed!Follow
<1> QED
  BY <1>2, <1>3

(* The same for the other three ways a registry changes: the two halves of a
   reload and a restart. *)
LEMMA ReplaceFollows ==
    ASSUME TypeOK, NothingAhead, TypeOK', NEW i \in Instances,
           \/ \E t \in Threads : ReplaceAll(i, t) \/ ReplaceOrgs(i, t)
           \/ Restart(i)
    PROVE  Followed!Follow(i)
<1>1. /\ cache \in [Instances -> [Slots -> Nat]]
      /\ cache' \in [Instances -> [Slots -> Nat]]
      /\ db \in [Slots -> Nat] /\ gone \subseteq OrgSlots
      /\ \A s \in Slots : cache[i][s] <= db[s]
  BY DEF TypeOK, NothingAhead
<1>2. \A t \in Threads, s \in Slots : /\ rl[i][t].loaded[s] \in Nat
                                     /\ rl[i][t].loaded[s] <= db[s]
  BY DEF TypeOK, Reloads, NothingAhead
<1>3. ASSUME NEW t \in Threads, ReplaceAll(i, t) PROVE Followed!Follow(i)
  <2>1. /\ UNCHANGED db
        /\ \A j \in Instances \ {i} : cache'[j] = cache[j]
    BY <1>1, <1>3 DEF ReplaceAll
  <2>2. \A s \in Slots : cache'[i][s] = IF s \in PlatformSlots
                                        THEN Newer(cache[i][s], rl[i][t].loaded[s])
                                        ELSE cache[i][s]
    BY <1>1, <1>3 DEF ReplaceAll
  <2>3. \A s \in Slots : cache[i][s] <= cache'[i][s] /\ cache'[i][s] <= db[s]
    BY <1>1, <1>2, <2>2 DEF Newer
  <2> QED
    BY <1>1, <2>1, <2>3 DEF Followed!Follow
<1>4. ASSUME NEW t \in Threads, ReplaceOrgs(i, t) PROVE Followed!Follow(i)
  <2>1. /\ UNCHANGED db
        /\ \A j \in Instances \ {i} : cache'[j] = cache[j]
    BY <1>1, <1>4 DEF ReplaceOrgs
  <2>2. \A s \in Slots : cache'[i][s] = IF s \in PlatformSlots \/ OrgKept(i, s, rl[i][t])
                                        THEN cache[i][s] ELSE rl[i][t].loaded[s]
    BY <1>1, <1>4 DEF ReplaceOrgs
  <2>3. ASSUME NEW s \in Slots
        PROVE  \/ cache[i][s] <= cache'[i][s] /\ cache'[i][s] <= db[s]
               \/ s \in OrgSlots /\ cache'[i][s] = 0
    BY <1>1, <1>2, <2>2, Names DEF OrgKept
  <2> QED
    BY <1>1, <2>1, <2>3 DEF Followed!Follow
<1>5. CASE Restart(i)
  <2>1. /\ UNCHANGED db
        /\ \A j \in Instances \ {i} : cache'[j] = cache[j]
    BY <1>1, <1>5 DEF Restart
  <2>2. \A s \in Slots : cache'[i][s] = RowVersion(s)
    BY <1>1, <1>5 DEF Restart
  <2> QED
    BY <1>1, <2>1, <2>2, Names DEF Followed!Follow, RowVersion
<1> QED
  BY <1>3, <1>4, <1>5

(* Every step is a step of FollowedVersions or leaves what it speaks about
   alone. *)
LEMMA NextFollows ==
    ASSUME TypeOK, NothingAhead, TypeOK', [Next]_vars
    PROVE  \/ \E s \in Slots : Followed!Commit(s)
           \/ \E i \in Instances : Followed!Follow(i)
           \/ UNCHANGED <<db, cache>>
<1>1. ASSUME NEW s \in Slots, CommitValue(s), UNCHANGED registry
      PROVE  Followed!Commit(s)
  BY <1>1 DEF CommitValue, registry, Followed!Commit
<1>2. ASSUME NEW i \in Instances, NEW s \in Slots, NEW v \in 1..MaxWrites,
             WriteApply(i, s, v)
      PROVE  Followed!Follow(i)
  <2>1. v \in Nat /\ v <= db[s]
    BY <1>2, BoundsAssumption DEF WriteApply, NothingAhead
  <2> QED
    BY <1>2, <2>1, ApplyToFollows DEF WriteApply
<1>3. ASSUME NEW i \in Instances, ApplyKey(i) PROVE Followed!Follow(i)
  <2> DEFINE r == rl[i]["listener"]
  <2>1. r.slot \in Slots /\ r.loaded[r.slot] \in Nat
    BY Names DEF TypeOK, Reloads
  <2>2. r.loaded[r.slot] <= db[r.slot]
    BY <2>1, Names DEF NothingAhead
  <2> QED
    BY <1>3, <2>1, <2>2, ApplyToFollows DEF ApplyKey
<1>4. ASSUME NEW i \in Instances, NEW t \in Threads, Reload(i, t)
      PROVE  Followed!Follow(i) \/ UNCHANGED <<db, cache>>
  BY <1>4, ReplaceFollows DEF Reload, ReloadBegin, ReadValues, ReadOrgs, registry
<1>5. ASSUME NEW i \in Instances, NEW t \in Threads, ReloadFails(i, t)
      PROVE  UNCHANGED <<db, cache>>
  BY <1>5 DEF ReloadFails, registry
<1>6. ASSUME NEW i \in Instances, Resync(i)
      PROVE  Followed!Follow(i) \/ UNCHANGED <<db, cache>>
  BY <1>4, <1>6, Names DEF Resync, ResyncTick, registry
<1>7. ASSUME NEW i \in Instances, Listener(i)
      PROVE  Followed!Follow(i) \/ UNCHANGED <<db, cache>>
  BY <1>3, <1>4, <1>7, Names
     DEF Listener, Listen, Notified, ReadKey, NoticeDisconnect, registry
<1>8. ASSUME NEW i \in Instances, ReadKeyFails(i) \/ Disconnect(i) \/ Restart(i)
      PROVE  Followed!Follow(i) \/ UNCHANGED <<db, cache>>
  BY <1>8, ReplaceFollows DEF ReadKeyFails, Disconnect, registry
<1>9. ASSUME NEW i \in Instances, NEW s \in Slots, Write(i, s)
      PROVE  Followed!Commit(s)
  BY <1>1, <1>9 DEF Write
<1>10. ASSUME NEW s \in Slots, WriteUnreported(s) PROVE Followed!Commit(s)
  BY <1>1, <1>10 DEF WriteUnreported
<1>11. ASSUME NEW s \in OrgSlots, PurgeOrg(s) PROVE UNCHANGED <<db, cache>>
  BY <1>11 DEF PurgeOrg, registry
<1>12. CASE UNCHANGED vars
  BY <1>12 DEF vars
<1> QED
  BY <1>2, <1>5, <1>6, <1>7, <1>8, <1>9, <1>10, <1>11, <1>12 DEF Next

(* Committed versions only grow, and a registry stays behind them. *)
LEMMA CacheBehind ==
    ASSUME TypeOK, NothingAhead, TypeOK', [Next]_vars
    PROVE  \A s \in Slots : /\ db[s] <= db'[s]
                            /\ \A i \in Instances : cache'[i][s] <= db'[s]
<1>1. /\ db \in [Slots -> Nat] /\ db' \in [Slots -> Nat]
      /\ cache \in [Instances -> [Slots -> Nat]]
      /\ cache' \in [Instances -> [Slots -> Nat]]
      /\ \A i \in Instances, s \in Slots : cache[i][s] <= db[s]
  BY DEF TypeOK, NothingAhead
<1>2. ASSUME NEW s \in Slots, Followed!Commit(s)
      PROVE  \A x \in Slots : /\ db[x] <= db'[x]
                              /\ \A i \in Instances : cache'[i][x] <= db'[x]
  BY <1>1, <1>2 DEF Followed!Commit
<1>3. ASSUME NEW i \in Instances, Followed!Follow(i)
      PROVE  \A x \in Slots : /\ db[x] <= db'[x]
                              /\ \A j \in Instances : cache'[j][x] <= db'[x]
  <2>1. UNCHANGED db
    BY <1>3 DEF Followed!Follow
  <2>2. \A x \in Slots : cache'[i][x] <= db[x]
    BY <1>1, <1>3 DEF Followed!Follow
  <2>3. \A j \in Instances \ {i} : cache'[j] = cache[j]
    BY <1>3 DEF Followed!Follow
  <2> QED
    BY <1>1, <2>1, <2>2, <2>3
<1>4. CASE UNCHANGED <<db, cache>>
  BY <1>1, <1>4
<1> QED
  BY <1>2, <1>3, <1>4, NextFollows

(* A result that waits to be applied was committed with that version. *)
LEMMA PendingBehind ==
    ASSUME TypeOK, NothingAhead, TypeOK', [Next]_vars, NEW i \in Instances
    PROVE  \A p \in pending'[i] : p[2] <= db'[p[1]]
<1>1. /\ pending \in [Instances -> SUBSET (Slots \X Nat)]
      /\ pending' \in [Instances -> SUBSET (Slots \X Nat)]
      /\ db \in [Slots -> Nat] /\ db' \in [Slots -> Nat]
  BY DEF TypeOK
<1>2. ASSUME NEW p \in pending[i] PROVE p[2] <= db'[p[1]]
  <2>1. p[1] \in Slots /\ p[2] \in Nat /\ p[2] <= db[p[1]]
    BY <1>1 DEF NothingAhead
  <2> QED
    BY <1>1, <2>1, CacheBehind
<1>3. ASSUME NEW j \in Instances, NEW s \in Slots, Write(j, s)
      PROVE  \A p \in pending'[i] : p \in pending[i] \/ p = <<s, db'[s]>>
  BY <1>1, <1>3 DEF Write, CommitValue
<1>4. ASSUME \A j \in Instances, s \in Slots : ~Write(j, s)
      PROVE  pending'[i] \subseteq pending[i]
  <2>1. \/ UNCHANGED pending
        \/ \E j \in Instances, s \in Slots, v \in 1..MaxWrites : WriteApply(j, s, v)
        \/ \E j \in Instances : Restart(j)
    BY <1>4 DEF Next, vars, Resync, Listener, Reload, WriteUnreported, PurgeOrg,
                ResyncTick, ReloadBegin, ReadValues, ReplaceAll, ReadOrgs,
                ReplaceOrgs, ReloadFails, Listen, Notified, ReadKey,
                ReadKeyFails, ApplyKey, Disconnect, NoticeDisconnect
  <2> QED
    BY <1>1, <2>1 DEF WriteApply, Restart
<1> QED
  BY <1>1, <1>2, <1>3, <1>4

(* So was what a reload or a notification has read. *)
LEMMA LoadedBehind ==
    ASSUME TypeOK, NothingAhead, TypeOK', [Next]_vars,
           NEW i \in Instances, NEW t \in Threads, NEW s \in Slots
    PROVE  rl'[i][t].loaded[s] <= db'[s]
<1>1. /\ db \in [Slots -> Nat] /\ db' \in [Slots -> Nat] /\ db[s] <= db'[s]
      /\ rl[i][t] \in Reloads /\ rl[i][t].loaded[s] \in Nat
      /\ rl[i][t].loaded[s] <= db[s]
  BY CacheBehind DEF TypeOK, NothingAhead, Reloads
<1>2. CASE rl'[i][t].loaded[s] \in {rl[i][t].loaded[s], 0, db[s]}
  BY <1>1, <1>2
<1>3. AtRest.loaded[s] = 0 /\ Nothing[s] = 0 /\ RowVersion(s) \in {0, db[s]}
  BY AtRestType DEF Nothing, RowVersion
<1>4. ASSUME NEW j \in Instances, NEW u \in Threads, NEW r, Step(j, u, r),
             r.loaded[s] \in {rl[j][u].loaded[s], 0, db[s]}
      PROVE  rl'[i][t].loaded[s] \in {rl[i][t].loaded[s], 0, db[s]}
  BY <1>4, StepLoop
<1>5. ASSUME NEW j \in Instances, NEW u \in Threads
      PROVE  /\ rl[j][u] \in Reloads
             /\ \A x : [rl[j][u] EXCEPT !.pc = x].loaded = rl[j][u].loaded
             /\ \A x, y : [rl[j][u] EXCEPT !.pc = x, !.since = y].loaded = rl[j][u].loaded
             /\ \A x, y : [rl[j][u] EXCEPT !.pc = x, !.slot = y].loaded = rl[j][u].loaded
             /\ \A x, y : [rl[j][u] EXCEPT !.pc = x, !.loaded = y].loaded = y
             /\ \A x : [AtRest EXCEPT !.pc = x].loaded = AtRest.loaded
  BY AtRestType DEF TypeOK, Reloads
<1>6. ASSUME NEW j \in Instances, NEW u \in Threads, Reload(j, u)
      PROVE  rl'[i][t].loaded[s] \in {rl[i][t].loaded[s], 0, db[s]}
  <2>1. CASE ReloadBegin(j, u)
    <3>1. [rl[j][u] EXCEPT !.pc = "readValues", !.since = orgSeq[j]].loaded[s] = rl[j][u].loaded[s]
      BY <1>5
    <3> QED
      BY <2>1, <3>1, <1>4 DEF ReloadBegin
  <2>2. CASE ReadValues(j, u)
    <3> DEFINE l == [x \in Slots |-> IF x \in PlatformSlots THEN db[x] ELSE 0]
    <3>1. [rl[j][u] EXCEPT !.pc = "replaceAll", !.loaded = l].loaded[s] \in {0, db[s]}
      BY <1>5
    <3> QED
      BY <2>2, <3>1, <1>4 DEF ReadValues
  <2>3. CASE ReplaceAll(j, u)
    <3>1. [rl[j][u] EXCEPT !.pc = "readOrgs", !.loaded = Nothing].loaded[s] = 0
      BY <1>3, <1>5
    <3> QED
      BY <2>3, <3>1, <1>4 DEF ReplaceAll
  <2>4. CASE ReadOrgs(j, u)
    <3> DEFINE l == [x \in Slots |-> IF x \in OrgSlots THEN RowVersion(x) ELSE 0]
    <3>1. [rl[j][u] EXCEPT !.pc = "replaceOrgs", !.loaded = l].loaded[s] \in {0, db[s]}
      BY <1>3, <1>5
    <3> QED
      BY <2>4, <3>1, <1>4 DEF ReadOrgs
  <2>5. CASE ReplaceOrgs(j, u)
    <3> DEFINE p == IF u = "listener" THEN "wait" ELSE "idle"
    <3>1. [AtRest EXCEPT !.pc = p].loaded[s] = 0
      BY <1>3, <1>5
    <3> QED
      BY <2>5, <3>1, <1>4 DEF ReplaceOrgs
  <2> QED
    BY <1>6, <2>1, <2>2, <2>3, <2>4, <2>5 DEF Reload
<1>7. ASSUME NEW j \in Instances, Listener(j) \/ Resync(j) \/ ReadKeyFails(j)
      PROVE  rl'[i][t].loaded[s] \in {rl[i][t].loaded[s], 0, db[s]}
  <2> USE Names
  <2>1. CASE ResyncTick(j) \/ Listen(j) \/ ReadKeyFails(j)
    <3>1. \A u \in Threads, p \in {"begin", "wait"} :
            [rl[j][u] EXCEPT !.pc = p].loaded[s] = rl[j][u].loaded[s]
      BY <1>5
    <3> QED
      BY <2>1, <3>1, <1>4 DEF ResyncTick, Listen, ReadKeyFails, Goto
  <2>2. ASSUME NEW x \in Slots, Notified(j, x)
        PROVE  rl'[i][t].loaded[s] \in {rl[i][t].loaded[s], 0, db[s]}
    <3> DEFINE r == rl[j]["listener"]
    <3>1. [r EXCEPT !.pc = "readKey", !.slot = x].loaded[s] = r.loaded[s]
      BY <1>5
    <3> QED
      BY <2>2, <3>1, <1>4 DEF Notified
  <2>3. CASE ReadKey(j)
    <3> DEFINE r == rl[j]["listener"]
               p == IF RowVersion(r.slot) = 0 THEN "wait" ELSE "apply"
               l == [Nothing EXCEPT ![r.slot] = RowVersion(r.slot)]
    <3>1. l[s] \in {0, db[s]}
      BY <1>3 DEF Nothing
    <3>2. [r EXCEPT !.pc = p, !.loaded = l].loaded = l
      BY <1>5
    <3> QED
      BY <2>3, <3>1, <3>2, <1>4 DEF ReadKey
  <2>4. CASE ApplyKey(j)
    <3>1. [AtRest EXCEPT !.pc = "wait"].loaded[s] = 0
      BY <1>3, <1>5
    <3> QED
      BY <2>4, <3>1, <1>4 DEF ApplyKey
  <2>5. CASE NoticeDisconnect(j)
    BY <2>5, <1>3, <1>4 DEF NoticeDisconnect
  <2> QED
    BY <1>6, <1>7, <2>1, <2>2, <2>3, <2>4, <2>5 DEF Listener, Resync
<1>8. ASSUME NEW j \in Instances, NEW u \in Threads, ReloadFails(j, u)
      PROVE  rl'[i][t].loaded[s] \in {rl[i][t].loaded[s], 0, db[s]}
  BY <1>8, <1>3, <1>4 DEF ReloadFails
<1>9. ASSUME NEW j \in Instances, Restart(j)
      PROVE  rl'[i][t].loaded[s] \in {rl[i][t].loaded[s], 0, db[s]}
  BY <1>9, <1>3 DEF Restart, TypeOK
<1>10. CASE UNCHANGED rl
  BY <1>1, <1>10
<1> QED
  BY <1>2, <1>7, <1>8, <1>9, <1>10
     DEF Next, vars, Write, WriteUnreported, WriteApply, PurgeOrg, Disconnect

(* No route gets ahead of the table. *)
LEMMA AheadInductive ==
    ASSUME TypeOK, NothingAhead, TypeOK', [Next]_vars
    PROVE  NothingAhead'
  BY CacheBehind, PendingBehind, LoadedBehind DEF NothingAhead

(* A registry that serves the committed version of a platform setting goes on
   doing so until the next commit. *)
LEMMA StaysCurrent ==
    ASSUME TypeOK, NothingAhead, TypeOK', [Next]_vars,
           NEW i \in Instances, NEW s \in PlatformSlots,
           cache[i][s] = db[s], db'[s] = db[s]
    PROVE  cache'[i][s] = db'[s]
<1>1. /\ s \in Slots /\ s \notin OrgSlots
      /\ db[s] \in Nat /\ cache'[i][s] \in Nat
  BY Names DEF TypeOK
<1>2. ASSUME NEW j \in Instances, Followed!Follow(j) PROVE cache'[i][s] = db[s]
  <2>1. CASE i = j
    <3>1. cache[i][s] <= cache'[i][s] /\ cache'[i][s] <= db[s]
      BY <1>1, <1>2, <2>1 DEF Followed!Follow
    <3> QED
      BY <1>1, <3>1
  <2>2. CASE i # j
    BY <1>2, <2>2 DEF Followed!Follow
  <2> QED
    BY <2>1, <2>2
<1>3. ASSUME NEW x \in Slots, Followed!Commit(x) PROVE cache'[i][s] = db[s]
  BY <1>3 DEF Followed!Commit
<1> QED
  BY <1>2, <1>3, NextFollows

(* What a listener knows lasts through the steps of everyone else. *)
LEMMA KnowsKept ==
    ASSUME TypeOK, NothingAhead, TypeOK', [Next]_vars,
           NEW i \in Instances, NEW s \in PlatformSlots, Knows(i, s),
           rl'[i]["listener"] = rl[i]["listener"], db'[s] = db[s],
           listening'[i] => listening[i],
           queue[i] \subseteq queue'[i], missed[i] \subseteq missed'[i]
    PROVE  Knows(i, s)'
  BY StaysCurrent DEF Knows

(* The listener's own steps: it reads before it waits, and it reads after it
   subscribed. *)
LEMMA ListenerLearns ==
    ASSUME TypeOK, NothingAhead, TypeOK', [Next]_vars, NothingAhead',
           NEW i \in Instances, NEW s \in PlatformSlots, Knows(i, s),
           Listener(i)
    PROVE  Knows(i, s)'
<1> USE Names
<1> DEFINE r == rl[i]["listener"]
<1>1. /\ s \in Slots /\ s \notin gone
      /\ db[s] \in Nat /\ cache[i][s] \in Nat /\ cache'[i][s] \in Nat
      /\ r \in Reloads /\ r.slot \in Slots /\ r.loaded[s] \in Nat
      /\ cache[i][s] <= db[s] /\ cache'[i][s] <= db'[s] /\ r.loaded[s] <= db[s]
  BY DEF TypeOK, NothingAhead, Reloads
<1>2. UNCHANGED db
  BY DEF Listener, Listen, Reload, ReloadBegin, ReadValues, ReplaceAll, ReadOrgs,
         ReplaceOrgs, Notified, ReadKey, ApplyKey, NoticeDisconnect
<1>3. CASE Listen(i) \/ ReloadBegin(i, "listener")
  <2>1. /\ [r EXCEPT !.pc = "begin"].pc = "begin"
        /\ [r EXCEPT !.pc = "readValues", !.since = orgSeq[i]].pc = "readValues"
    BY <1>1 DEF Reloads
  <2>2. CASE Listen(i)
    <3>1. rl'[i]["listener"] = [r EXCEPT !.pc = "begin"]
      BY <2>2, StepLoop DEF Listen, Goto
    <3>2. rl'[i]["listener"].pc = "begin"
      BY <2>1, <3>1
    <3> QED
      BY <3>2 DEF Knows
  <2>3. CASE ReloadBegin(i, "listener")
    <3>1. rl'[i]["listener"] = [r EXCEPT !.pc = "readValues", !.since = orgSeq[i]]
      BY <2>3, StepLoop DEF ReloadBegin
    <3>2. rl'[i]["listener"].pc = "readValues"
      BY <2>1, <3>1
    <3> QED
      BY <3>2 DEF Knows
  <2> QED
    BY <1>3, <2>2, <2>3
<1>4. CASE ReadValues(i, "listener")
  <2> DEFINE l == [x \in Slots |-> IF x \in PlatformSlots THEN db[x] ELSE 0]
  <2>1. rl'[i]["listener"] = [r EXCEPT !.pc = "replaceAll", !.loaded = l]
    BY <1>4, StepLoop DEF ReadValues
  <2>2. rl'[i]["listener"].pc = "replaceAll" /\ rl'[i]["listener"].loaded = l
    BY <1>1, <2>1 DEF Reloads
  <2> QED
    BY <1>1, <1>2, <2>2 DEF Knows
<1>5. CASE ReplaceAll(i, "listener")
  <2>1. cache'[i][s] = Newer(cache[i][s], r.loaded[s])
    BY <1>1, <1>5 DEF ReplaceAll, TypeOK
  <2>2. listening'[i] /\ s \notin queue'[i] \cup missed'[i] => cache'[i][s] = db'[s]
    BY <1>1, <1>2, <1>5, <2>1 DEF ReplaceAll, Knows, channel, Newer
  <2> QED
    BY <2>2 DEF Knows
<1>6. CASE ReadOrgs(i, "listener") \/ ReplaceOrgs(i, "listener")
  <2>1. listening[i] /\ s \notin queue[i] \cup missed[i] => cache[i][s] = db[s]
    BY <1>6 DEF Knows, ReadOrgs, ReplaceOrgs
  <2> QED
    BY <1>2, <1>6, <2>1, StaysCurrent DEF Knows, ReadOrgs, ReplaceOrgs, channel
<1>7. ASSUME NEW x \in Slots, Notified(i, x) PROVE Knows(i, s)'
  <2>1. rl'[i]["listener"] = [r EXCEPT !.pc = "readKey", !.slot = x]
    BY <1>7, StepLoop DEF Notified
  <2>2. rl'[i]["listener"].pc = "readKey" /\ rl'[i]["listener"].slot = x
    BY <1>1, <2>1 DEF Reloads
  <2>3. CASE x = s
    BY <2>2, <2>3 DEF Knows
  <2>4. CASE x # s
    <3>1. listening'[i] /\ s \notin queue'[i] \cup missed'[i] => cache[i][s] = db[s]
      BY <1>7, <2>4 DEF Notified, Knows, TypeOK
    <3> QED
      BY <1>2, <3>1, StaysCurrent DEF Knows
  <2> QED
    BY <2>3, <2>4
<1>8. CASE ReadKey(i)
  <2> DEFINE found == RowVersion(r.slot)
             p == IF found = 0 THEN "wait" ELSE "apply"
             l == [Nothing EXCEPT ![r.slot] = found]
  <2>1. rl'[i]["listener"] = [r EXCEPT !.pc = p, !.loaded = l]
    BY <1>8, StepLoop DEF ReadKey
  <2>2. /\ rl'[i]["listener"].pc = p
        /\ rl'[i]["listener"].loaded = l
        /\ rl'[i]["listener"].slot = r.slot
    BY <1>1, <2>1 DEF Reloads
  <2>3. CASE cache[i][s] = db[s]
    BY <1>2, <2>3, StaysCurrent DEF Knows
  <2>4. CASE r.slot = s
    <3>1. l[s] = db[s] /\ found = db[s]
      BY <1>1, <2>4 DEF Nothing, RowVersion
    <3>2. found = 0 => cache[i][s] = db[s]
      BY <1>1, <3>1
    <3> QED
      BY <1>2, <2>2, <2>3, <2>4, <3>1, <3>2 DEF Knows
  <2>5. CASE cache[i][s] # db[s] /\ r.slot # s
    BY <1>8, <2>5 DEF Knows, ReadKey, channel
  <2> QED
    BY <2>3, <2>4, <2>5
<1>9. CASE ApplyKey(i)
  <2>1. CASE cache[i][s] = db[s]
    BY <1>2, <2>1, StaysCurrent DEF Knows
  <2>2. CASE r.slot = s /\ r.loaded[s] = db[s]
    <3>1. ApplyTo(i, s, db[s])
      BY <1>9, <2>2 DEF ApplyKey
    <3>2. db[s] <= cache'[i][s]
      BY <1>1, <1>2, <3>1, ApplyToFollows
    <3>3. cache'[i][s] = db'[s]
      BY <1>1, <1>2, <3>2
    <3> QED
      BY <3>3 DEF Knows
  <2>3. CASE cache[i][s] # db[s] /\ ~(r.slot = s /\ r.loaded[s] = db[s])
    BY <1>9, <2>3 DEF Knows, ApplyKey, channel
  <2> QED
    BY <2>1, <2>2, <2>3
<1>10. CASE NoticeDisconnect(i)
  BY <1>10 DEF NoticeDisconnect, Knows, channel
<1> QED
  BY <1>3, <1>4, <1>5, <1>6, <1>7, <1>8, <1>9, <1>10 DEF Listener, Reload

(* A commit reaches the queue of every subscribed connection. *)
LEMMA CommitNotifies ==
    ASSUME TypeOK, NothingAhead, TypeOK', [Next]_vars,
           NEW i \in Instances, NEW s \in PlatformSlots, Knows(i, s),
           NEW x \in Slots, CommitValue(x), UNCHANGED <<listening, rl, missed>>
    PROVE  Knows(i, s)'
<1>1. CASE x = s
  BY <1>1 DEF CommitValue, Knows, TypeOK
<1>2. CASE x # s
  <2>1. db'[s] = db[s] /\ queue[i] \subseteq queue'[i]
    BY <1>2, Names DEF CommitValue, TypeOK
  <2> QED
    BY <2>1, KnowsKept
<1> QED
  BY <1>1, <1>2

(* What listeners know survives every step. *)
LEMMA KnowsInductive ==
    ASSUME IInv, TypeOK', NothingAhead', [Next]_vars
    PROVE  ListenerKnows'
<1> SUFFICES ASSUME NEW i \in Instances, NEW s \in PlatformSlots PROVE Knows(i, s)'
  BY DEF ListenerKnows
<1>0. TypeOK /\ NothingAhead /\ Knows(i, s)
  BY DEF IInv, ListenerKnows
<1> USE <1>0, Names
<1>1. ASSUME NEW x \in Slots, WriteUnreported(x) PROVE Knows(i, s)'
  BY <1>1, CommitNotifies DEF WriteUnreported
<1>2. ASSUME NEW j \in Instances, NEW x \in Slots, Write(j, x) PROVE Knows(i, s)'
  BY <1>2, CommitNotifies DEF Write
<1>3. CASE /\ UNCHANGED <<db, listening, queue, missed>>
           /\ rl'[i]["listener"] = rl[i]["listener"]
  BY <1>3, KnowsKept
<1>4. ASSUME NEW x \in OrgSlots, PurgeOrg(x) PROVE Knows(i, s)'
  BY <1>3, <1>4 DEF PurgeOrg, channel
<1>5. ASSUME NEW j \in Instances, NEW x \in Slots, NEW v \in 1..MaxWrites,
             WriteApply(j, x, v)
      PROVE  Knows(i, s)'
  BY <1>3, <1>5 DEF WriteApply, channel
<1>6. ASSUME NEW j \in Instances, NEW t \in Threads, NEW r, Step(j, t, r),
             j # i \/ t # "listener"
      PROVE  rl'[i]["listener"] = rl[i]["listener"]
  BY <1>6, StepLoop
<1>7. ASSUME NEW j \in Instances, Resync(j) PROVE Knows(i, s)'
  <2>1. \E r : Step(j, "resync", r)
    BY <1>7 DEF Resync, ResyncTick, Reload, ReloadBegin, ReadValues, ReplaceAll,
                ReadOrgs, ReplaceOrgs, Goto
  <2>2. UNCHANGED <<db, listening, queue, missed>>
    BY <1>7 DEF Resync, ResyncTick, Reload, ReloadBegin, ReadValues, ReplaceAll,
                ReadOrgs, ReplaceOrgs, channel
  <2> QED
    BY <1>3, <1>6, <2>1, <2>2
<1>8. ASSUME NEW j \in Instances, j # i, Listener(j) PROVE Knows(i, s)'
  <2>1. \E r : Step(j, "listener", r)
    BY <1>8 DEF Listener, Listen, Reload, ReloadBegin, ReadValues, ReplaceAll,
                ReadOrgs, ReplaceOrgs, Notified, ReadKey, ApplyKey,
                NoticeDisconnect, Goto
  <2>2. /\ UNCHANGED <<db, missed>>
        /\ listening'[i] = listening[i] /\ queue'[i] = queue[i]
    BY <1>8 DEF Listener, Listen, Reload, ReloadBegin, ReadValues, ReplaceAll,
                ReadOrgs, ReplaceOrgs, Notified, ReadKey, ApplyKey,
                NoticeDisconnect, channel, TypeOK
  <2>3. rl'[i]["listener"] = rl[i]["listener"]
    BY <1>6, <1>8, <2>1
  <2> QED
    BY <2>2, <2>3, KnowsKept
<1>9. ASSUME NEW j \in Instances, NEW t \in Threads, ReloadFails(j, t)
      PROVE  Knows(i, s)'
  <2>1. CASE j = i /\ t = "listener"
    BY <1>9, <2>1 DEF ReloadFails, Knows, TypeOK
  <2>2. CASE j # i \/ t # "listener"
    <3>1. rl'[i]["listener"] = rl[i]["listener"]
      BY <1>6, <1>9, <2>2 DEF ReloadFails
    <3>2. /\ UNCHANGED <<db, missed>>
          /\ listening'[i] = listening[i] /\ queue'[i] = queue[i]
      BY <1>9, <2>2 DEF ReloadFails, channel, TypeOK
    <3> QED
      BY <3>1, <3>2, KnowsKept
  <2> QED
    BY <2>1, <2>2
<1>10. ASSUME NEW j \in Instances, ReadKeyFails(j) PROVE Knows(i, s)'
  <2>1. CASE j = i
    <3>1. CASE rl[i]["listener"].slot = s
      BY <1>10, <2>1, <3>1 DEF ReadKeyFails, Knows, TypeOK
    <3>2. CASE rl[i]["listener"].slot # s
      <4>1. listening[i] /\ s \notin queue[i] \cup missed[i] => cache[i][s] = db[s]
        BY <1>10, <2>1, <3>2 DEF ReadKeyFails, Knows
      <4>2. /\ UNCHANGED <<db, channel>>
            /\ missed[i] \subseteq missed'[i]
        BY <1>10, <2>1 DEF ReadKeyFails, TypeOK
      <4> QED
        BY <4>1, <4>2, StaysCurrent DEF Knows, channel
    <3> QED
      BY <3>1, <3>2
  <2>2. CASE j # i
    <3>1. rl'[i]["listener"] = rl[i]["listener"]
      BY <1>6, <1>10, <2>2 DEF ReadKeyFails, Goto
    <3>2. UNCHANGED <<db, channel>> /\ missed'[i] = missed[i]
      BY <1>10, <2>2 DEF ReadKeyFails, TypeOK
    <3> QED
      BY <3>1, <3>2, KnowsKept DEF channel
  <2> QED
    BY <2>1, <2>2
<1>11. ASSUME NEW j \in Instances, Disconnect(j) \/ Restart(j) PROVE Knows(i, s)'
  <2>1. CASE j = i
    <3>1. ~listening'[i]
      BY <1>11, <2>1 DEF Disconnect, Restart, TypeOK
    <3> QED
      BY <3>1 DEF Knows
  <2>2. CASE j # i
    <3>1. /\ rl'[i] = rl[i] /\ UNCHANGED db
          /\ listening'[i] = listening[i] /\ queue'[i] = queue[i]
          /\ missed'[i] = missed[i]
      BY <1>11, <2>2 DEF Disconnect, Restart, TypeOK
    <3> QED
      BY <3>1, KnowsKept
  <2> QED
    BY <2>1, <2>2
<1>12. CASE UNCHANGED vars
  BY <1>3, <1>12 DEF vars
<1> QED
  BY <1>1, <1>2, <1>4, <1>5, <1>7, <1>8, <1>9, <1>10, <1>11, <1>12,
     ListenerLearns DEF Next

(* The invariant is inductive. *)
LEMMA NextInv == IInv /\ [Next]_vars => IInv'
  BY TypeInductive, AheadInductive, KnowsInductive DEF IInv

-----------------------------------------------------------------------------

(* Every reachable state is well typed. *)
THEOREM TypeCorrect == Spec => []TypeOK
<1>1. Init => TypeOK
  BY InitInv DEF IInv
<1> QED
  BY <1>1, TypeInductive, PTL DEF Spec

(* The invariant holds in every reachable state. *)
LEMMA Invariance == Spec => []IInv
  BY InitInv, NextInv, PTL DEF Spec

(* A listener that waits with no notification left serves the committed
   version of every platform setting, unless a read of it failed. *)
THEOREM WaitingListenersCurrent == Spec => []WaitingIsCurrent
<1>1. IInv => WaitingIsCurrent
  BY DEF IInv, ListenerKnows, Knows, WaitingIsCurrent
<1> QED
  BY <1>1, Invariance, PTL

(* The registries of all instances implement FollowedVersions: whatever
   writes, notifications, reloads and restarts meet, what an instance serves
   only moves forward to committed versions, and only an organisation's value
   is forgotten. *)
THEOREM RegistriesFollow == Spec => ValuesFollow
<1>1. Init => Followed!Init
  BY DEF Init, Followed!Init, Nothing
<1>2. IInv /\ IInv' /\ [Next]_vars => [Followed!Next]_<<db, cache>>
  BY NextFollows DEF IInv, Followed!Next
<1> QED
  BY <1>1, <1>2, Invariance, PTL DEF Spec, ValuesFollow, Followed!Spec
=============================================================================
