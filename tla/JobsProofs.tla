----------------------------- MODULE JobsProofs -----------------------------
(***************************************************************************)
(* Proofs about Jobs for any number of instances, of requests that write   *)
(* at once and of definitions, any schedules and releases, and any bounds  *)
(* on changes and faults: its types, that the overrides implement          *)
(* FollowedVersions, and that River's periodic jobs are the schedules in   *)
(* force, or what a failed reconcile left of them.                         *)
(***************************************************************************)
EXTENDS Jobs, TLAPS

(* A version is a committed change. *)
VersionsCounted == \A d \in Definitions : Version(d) <= writes

(* Whatever an instance holds or one of its goroutines has read was committed
   before. *)
NothingAhead ==
    \A i \in Instances, d \in Definitions :
        /\ over[i][d] <= Version(d)
        /\ \A t \in Threads : th[i][t].loaded[d] <= Version(d)

(* The scheduler's mutex. *)
OneReconciles(i) ==
    \A t, u \in Threads :
        th[i][t].pc = "reconcile" /\ th[i][u].pc = "reconcile" => t = u

(* What a goroutine that reconciles has put together so far is what River has
   registered, except where a failed reconcile left it out of line. *)
Tracked(i) ==
    \A t \in Threads : th[i][t].pc = "reconcile" =>
        /\ th[i][t].k >= 1
        /\ \A d \in Definitions \ broken[i] : registered[i][d] = th[i][t].next[d]

(* So is what the last reconcile remembered, while nobody reconciles. *)
Remembered(i) ==
    MutexFree(i) => \A d \in Definitions \ broken[i] : registered[i][d] = applied[i][d]

(* A definition is scheduled as its override asks, or a goroutine has yet to
   reconcile it: one waits for the mutex, or one is at an earlier
   definition. *)
InLine(i) ==
    \A n \in 1..Len(Names) :
        \/ Names[n] \in broken[i]
        \/ registered[i][Names[n]] = Want(i, Names[n], over[i][Names[n]])
        \/ \E t \in Threads : \/ th[i][t].pc = "lock"
                              \/ th[i][t].pc = "reconcile" /\ th[i][t].k <= n

Scheduler(i) == OneReconciles(i) /\ Tracked(i) /\ Remembered(i) /\ InLine(i)

(* The schedule s was in force at a version up to n, and another one since. *)
Was(i, d, n, s) == \E u \in 0..n : Want(i, d, u) = s
Left(i, d, n, s) ==
    \E u, v \in 0..n : u < v /\ Want(i, d, u) = s /\ Want(i, d, v) # s

(* Where River has something else registered than what is remembered, the
   schedule was changed from that before: so the next reconcile sees the
   difference, unless it was changed back. *)
Outdated(i, d, s) ==
    /\ Was(i, d, over[i][d], s)
    /\ registered[i][d] # s => Left(i, d, over[i][d], s)
Memory(i) ==
    /\ \A d \in Definitions : Outdated(i, d, applied[i][d])
    /\ \A t \in Threads : th[i][t].pc = "reconcile" =>
         /\ \A d \in Definitions : Outdated(i, d, th[i][t].next[d])
         /\ \A n \in 1..Len(Names) :
              th[i][t].k <= n => th[i][t].next[Names[n]] = applied[i][Names[n]]

(* The inductive invariant. *)
IInv == /\ TypeOK
        /\ VersionsCounted
        /\ NothingAhead
        /\ \A i \in Instances : Scheduler(i) /\ Memory(i)

(* Definitions and goroutines, by name. *)
LEMMA Naming ==
    /\ Len(Names) \in Nat /\ Len(Names) >= 1
    /\ \A n \in 1..Len(Names) : Names[n] \in Definitions
    /\ \A d \in Definitions : \E n \in 1..Len(Names) : Names[n] = d
    /\ \A m, n \in 1..Len(Names) : Names[m] = Names[n] => m = n
    /\ {"client", "listener", "resync"} \subseteq Threads /\ Writers \subseteq Threads
  BY NamesAssumption DEF Definitions, Threads

(* A goroutine at rest is a well-typed one. *)
LEMMA AtRestType ==
    /\ AtRest \in Goroutines
    /\ AtRest.pc = "idle"
    /\ \A d \in Definitions : AtRest.loaded[d] = 0
<1>1. Names[1] \in Definitions
  BY Naming
<1> QED
  BY <1>1, Naming, SchedulesAssumption, BoundsAssumption
     DEF AtRest, Goroutines, PCs

(* So is one that starts a step from there. *)
LEMMA FromRest ==
    ASSUME NEW p \in PCs
    PROVE  /\ [AtRest EXCEPT !.pc = p] \in Goroutines
           /\ [AtRest EXCEPT !.pc = p].pc = p
           /\ \A d \in Definitions : [AtRest EXCEPT !.pc = p].loaded[d] = 0
           /\ [AtRest EXCEPT !.pc = p, !.full = TRUE] \in Goroutines
           /\ [AtRest EXCEPT !.pc = p, !.full = TRUE].pc = p
           /\ \A d \in Definitions : [AtRest EXCEPT !.pc = p, !.full = TRUE].loaded[d] = 0
           /\ \A d \in Definitions :
                /\ [AtRest EXCEPT !.pc = p, !.d = d] \in Goroutines
                /\ [AtRest EXCEPT !.pc = p, !.d = d].pc = p
                /\ \A e \in Definitions : [AtRest EXCEPT !.pc = p, !.d = d].loaded[e] = 0
           /\ \A l \in [Definitions -> 0..MaxWrites] :
                /\ [AtRest EXCEPT !.pc = p, !.loaded = l] \in Goroutines
                /\ [AtRest EXCEPT !.pc = p, !.loaded = l].pc = p
                /\ [AtRest EXCEPT !.pc = p, !.loaded = l].loaded = l
  BY AtRestType DEF Goroutines

LEMMA StartedType ==
    /\ Started \in [Threads -> Goroutines]
    /\ \A t \in Threads : /\ Started[t].pc \in {"idle", "lock"}
                          /\ \A d \in Definitions : Started[t].loaded[d] = 0
<1>1. "lock" \in PCs
  BY DEF PCs
<1> QED
  BY <1>1, FromRest, AtRestType DEF Started

(* Instances that have applied the schedules of the code on an empty table
   satisfy the invariant. *)
LEMMA InitInv == Init => IInv
<1> SUFFICES ASSUME Init PROVE IInv
  OBVIOUS
<1>0. \A i \in Instances, t \in Threads : th[i][t] = Started[t]
  BY DEF Init
<1>1. TypeOK
  BY StartedType, SchedulesAssumption, BoundsAssumption DEF Init, TypeOK
<1>2. VersionsCounted
  BY DEF Init, VersionsCounted, Version
<1>3. NothingAhead
  BY <1>0, StartedType DEF Init, NothingAhead, Version
<1>4. ASSUME NEW i \in Instances PROVE Scheduler(i)
  <2>1. OneReconciles(i) /\ Tracked(i)
    BY <1>0, StartedType DEF OneReconciles, Tracked
  <2>2. Remembered(i)
    BY DEF Init, Remembered
  <2>3. InLine(i)
    BY Naming DEF Init, InLine, Want
  <2> QED
    BY <2>1, <2>2, <2>3 DEF Scheduler
<1>5. ASSUME NEW i \in Instances PROVE Memory(i)
  <2>1. ASSUME NEW d \in Definitions
        PROVE  /\ registered[i][d] = applied[i][d] /\ over[i][d] = 0
               /\ Want(i, d, 0) = applied[i][d]
    BY DEF Init, Want
  <2>2. \A d \in Definitions : Outdated(i, d, applied[i][d])
    BY <2>1 DEF Outdated, Was
  <2>3. \A t \in Threads : th[i][t].pc # "reconcile"
    BY <1>0, StartedType
  <2> QED
    BY <2>2, <2>3 DEF Memory
<1> QED
  BY <1>1, <1>2, <1>3, <1>4, <1>5 DEF IInv

(* A step of one goroutine leaves the others alone. *)
LEMMA StepThread ==
    ASSUME TypeOK, NEW i \in Instances, NEW t \in Threads, NEW r, Step(i, t, r)
    PROVE  /\ r \in Goroutines => th' \in [Instances -> [Threads -> Goroutines]]
           /\ th'[i][t] = r
           /\ \A j \in Instances, u \in Threads :
                 j # i \/ u # t => th'[j][u] = th[j][u]
<1>1. th \in [Instances -> [Threads -> Goroutines]]
  BY DEF TypeOK
<1> QED
  BY <1>1 DEF Step

(* A goroutine that is done, or whose connection or read failed, waits or is
   idle. *)
LEMMA Returned ==
    ASSUME TypeOK, NEW i \in Instances, NEW t \in Threads,
           Return(i, t) \/ ReloadError(i, t)
    PROVE  /\ th'[i][t].pc \in {"wait", "idle"}
           /\ \A j \in Instances, u \in Threads :
                 j # i \/ u # t => th'[j][u] = th[j][u]
<1> DEFINE p == IF t = "listener" THEN "wait" ELSE "idle"
           q == [AtRest EXCEPT !.pc = p]
<1>1. q.pc \in {"wait", "idle"}
  BY DEF AtRest
<1>2. AtRest.pc = "idle"
  BY AtRestType
<1>3. Step(i, t, q) \/ Step(i, t, AtRest)
  BY DEF Return, ReloadError, Hangup
<1> HIDE DEF q
<1> QED
  BY <1>1, <1>2, <1>3, StepThread

(* What a goroutine holds, and what it becomes, is well typed. *)
LEMMA GoroutineUpdate ==
    ASSUME NEW r \in Goroutines, NEW p \in PCs
    PROVE  /\ r.d \in Definitions
           /\ r.loaded \in [Definitions -> 0..MaxWrites]
           /\ r.next \in [Definitions -> Wants]
           /\ \A n \in [Definitions -> Wants] :
                 [r EXCEPT !.pc = p, !.k = 1, !.next = n] \in Goroutines
<1>1. 1 \in 0..(Len(Names) + 1)
  BY Naming
<1> QED
  BY <1>1 DEF Goroutines

(* The schedule in force for a committed version is a schedule, or none. *)
LEMMA WantType ==
    ASSUME TypeOK, NEW i \in Instances, NEW d \in Definitions,
           NEW v \in 0..Version(d)
    PROVE  Want(i, d, v) \in Wants
  BY SchedulesAssumption DEF TypeOK, Version, Want

(* A commit adds one version and leaves the earlier ones alone. *)
LEMMA CommitAppends ==
    ASSUME TypeOK, VersionsCounted, NEW d \in Definitions, NEW w \in Wants,
           CommitChange(d, w)
    PROVE  /\ log' \in [Definitions -> Seq(Wants)]
           /\ writes' \in 0..MaxWrites /\ Version(d) + 1 \in 0..MaxWrites
           /\ queue' \in [Instances -> SUBSET Definitions]
           /\ VersionsCounted'
           /\ \A e \in Definitions : Version(e)' = IF e = d THEN Version(d) + 1 ELSE Version(e)
           /\ \A e \in Definitions : \A v \in 1..Version(e) : log'[e][v] = log[e][v]
<1>1. /\ log \in [Definitions -> Seq(Wants)]
      /\ writes \in Nat /\ writes < MaxWrites /\ writes' = writes + 1
      /\ log' = [log EXCEPT ![d] = Append(@, w)]
      /\ \A e \in Definitions : Len(log[e]) \in Nat /\ Len(log[e]) <= writes
  BY BoundsAssumption DEF TypeOK, VersionsCounted, Version, CommitChange
<1>2. log' \in [Definitions -> Seq(Wants)]
  BY <1>1
<1>3. /\ log'[d] = Append(log[d], w)
      /\ \A e \in Definitions : e # d => log'[e] = log[e]
  BY <1>1
<1>4. Len(log'[d]) = Len(log[d]) + 1
  BY <1>1, <1>3
<1>5. \A v \in 1..Len(log[d]) : log'[d][v] = log[d][v]
  BY <1>1, <1>3
<1>6. queue' \in [Instances -> SUBSET Definitions]
  BY DEF CommitChange, TypeOK
<1> QED
  BY <1>1, <1>2, <1>3, <1>4, <1>5, <1>6, BoundsAssumption DEF Version, VersionsCounted

(* A reconcile leaves its definition registered as it found it, or replaces the
   periodic job. *)
LEMMA ReconcileOneCases ==
    ASSUME NEW i, NEW t, ReconcileOne(i, t)
    PROVE  LET r == th[i][t]
               d == Names[r.k]
               want == Want(i, d, over[i][d])
           IN  \/ /\ r.next[d] = want
                  /\ Step(i, t, [r EXCEPT !.k = @ + 1])
                  /\ registered' = registered
               \/ /\ Step(i, t, [r EXCEPT !.k = @ + 1, !.next[d] = want])
                  /\ registered' = [registered EXCEPT ![i][d] = want]
  BY DEF ReconcileOne

(* One periodic job replaced. *)
LEMMA RegisteredUpdate ==
    ASSUME registered \in [Instances -> [Definitions -> Wants]],
           NEW i \in Instances, NEW d \in Definitions, NEW want \in Wants,
           registered' = [registered EXCEPT ![i][d] = want]
    PROVE  /\ registered' \in [Instances -> [Definitions -> Wants]]
           /\ registered'[i][d] = want
           /\ \A j \in Instances, e \in Definitions :
                 j # i \/ e # d => registered'[j][e] = registered[j][e]
  OBVIOUS

(* Every change, reload, reconcile, notification, fault and restart keeps the
   state well typed. *)
LEMMA TypeInductive ==
    ASSUME IInv, [Next]_vars
    PROVE  TypeOK'
<1> USE Naming, AtRestType, SchedulesAssumption, BoundsAssumption
<1>0. /\ TypeOK /\ VersionsCounted /\ NothingAhead
      /\ \A i \in Instances : Tracked(i)
  BY DEF IInv, Scheduler
<1> USE <1>0 DEF TypeOK, Fault, schedules, channel
<1>a. \A i \in Instances, t \in Threads : th[i][t] \in Goroutines
  OBVIOUS
<1>b. PCs = {"idle", "wait", "read", "replace", "readOne", "apply", "lock", "reconcile"}
  BY DEF PCs
<1>c. \A d \in Definitions : Version(d) \in 0..MaxWrites
  BY DEF Version, VersionsCounted
<1>d. ASSUME NEW i \in Instances, NEW t \in Threads, NEW r \in Goroutines,
             Step(i, t, r)
      PROVE  th' \in [Instances -> [Threads -> Goroutines]]
  BY <1>d, StepThread
<1>e. ASSUME NEW i \in Instances, NEW t \in Threads, NEW p \in PCs,
             \/ Step(i, t, [AtRest EXCEPT !.pc = p])
             \/ Step(i, t, [AtRest EXCEPT !.pc = p, !.full = TRUE])
      PROVE  th' \in [Instances -> [Threads -> Goroutines]]
  BY <1>d, <1>e, FromRest
<1>f. ASSUME NEW i \in Instances, NEW t \in Threads, Return(i, t)
      PROVE  th' \in [Instances -> [Threads -> Goroutines]]
  <2> DEFINE p == IF t = "listener" THEN "wait" ELSE "idle"
  <2>1. p \in PCs
    BY <1>b
  <2>2. [AtRest EXCEPT !.pc = p] \in Goroutines
    BY <2>1 DEF Goroutines
  <2> QED
    BY <1>d, <1>f, <2>2 DEF Return
<1>g. ASSUME NEW i \in Instances, NEW t \in Threads,
             \/ ReloadError(i, t)
             \/ Return(i, t) /\ UNCHANGED channel
      PROVE  /\ th' \in [Instances -> [Threads -> Goroutines]]
             /\ listening' \in [Instances -> BOOLEAN]
             /\ queue' \in [Instances -> SUBSET Definitions]
  <2>1. CASE Hangup(i)
    BY <1>d, <2>1 DEF Hangup
  <2>2. CASE Return(i, t) /\ UNCHANGED channel
    BY <1>f, <2>2
  <2> QED
    BY <1>g, <2>1, <2>2 DEF ReloadError
<1>1. ASSUME NEW d \in Definitions, NEW w \in Wants, WriteElsewhere(d, w)
      PROVE  TypeOK'
  <2>1. CommitChange(d, w)
    BY <1>1 DEF WriteElsewhere
  <2> QED
    BY <1>1, <2>1, CommitAppends DEF WriteElsewhere
<1>2. ASSUME NEW i \in Instances, NEW t \in Writers, NEW d \in Definitions, NEW w \in Wants,
             Write(i, t, d, w)
      PROVE  TypeOK'
  <2> DEFINE v == Version(d) + 1
  <2>1. CommitChange(d, w)
    BY <1>2 DEF Write
  <2>2. v \in 0..MaxWrites
    BY <2>1, CommitAppends
  <2>3. [AtRest EXCEPT !.pc = "apply", !.d = d, !.loaded[d] = v] \in Goroutines
    BY <1>b, <2>2 DEF Goroutines
  <2>4. th' \in [Instances -> [Threads -> Goroutines]]
    BY <1>2, <1>d, <2>3 DEF Write
  <2> QED
    BY <1>2, <2>1, <2>4, CommitAppends DEF Write
<1>3. ASSUME NEW i \in Instances, NEW t \in Threads, ApplyOverride(i, t)
      PROVE  TypeOK'
  <2>1. th' \in [Instances -> [Threads -> Goroutines]]
    BY <1>3, <1>b, <1>e DEF ApplyOverride
  <2> DEFINE d == th[i][t].d
             v == Newer(over[i][d], th[i][t].loaded[d])
  <2>2. d \in Definitions /\ th[i][t].loaded \in [Definitions -> 0..MaxWrites]
    BY <1>a, <1>b, GoroutineUpdate
  <2>3. v \in 0..MaxWrites
    BY <2>2 DEF Newer
  <2>4. over' = [over EXCEPT ![i][d] = v]
    BY <1>3 DEF ApplyOverride
  <2>5. over' \in [Instances -> [Definitions -> 0..MaxWrites]]
    BY <2>2, <2>3, <2>4
  <2> QED
    BY <1>3, <2>1, <2>5 DEF ApplyOverride
<1>4. ASSUME NEW i \in Instances, NEW t \in Threads, SelectDefinitions(i, t)
      PROVE  TypeOK'
  <2> DEFINE l == [d \in Definitions |-> Version(d)]
  <2>1. l \in [Definitions -> 0..MaxWrites]
    BY <1>c
  <2>2. [AtRest EXCEPT !.pc = "replace", !.loaded = l] \in Goroutines
    BY <1>b, <2>1, FromRest
  <2>3. th' \in [Instances -> [Threads -> Goroutines]]
    BY <1>4, <1>d, <2>2 DEF SelectDefinitions
  <2> QED
    BY <1>4, <2>3 DEF SelectDefinitions
<1>5. ASSUME NEW i \in Instances, NEW t \in Threads, ReplaceOverrides(i, t)
      PROVE  TypeOK'
  <2>1. th' \in [Instances -> [Threads -> Goroutines]]
    BY <1>5, <1>b, <1>e DEF ReplaceOverrides
  <2>2. th[i][t].loaded \in [Definitions -> 0..MaxWrites]
    BY <1>a DEF Goroutines
  <2>3. over' \in [Instances -> [Definitions -> 0..MaxWrites]]
    BY <1>5, <2>2 DEF ReplaceOverrides, Newer
  <2> QED
    BY <1>5, <2>1, <2>3 DEF ReplaceOverrides
<1>6. ASSUME NEW i \in Instances, NEW t \in Threads, ReconcileBegin(i, t)
      PROVE  TypeOK'
  <2>2. [th[i][t] EXCEPT !.pc = "reconcile", !.k = 1, !.next = applied[i]] \in Goroutines
    BY <1>a, <1>b, GoroutineUpdate
  <2>3. th' \in [Instances -> [Threads -> Goroutines]]
    BY <1>6, <1>d, <2>2 DEF ReconcileBegin
  <2> QED
    BY <1>6, <2>3 DEF ReconcileBegin
<1>h. ASSUME NEW i \in Instances, NEW t \in Threads,
             th[i][t].pc = "reconcile", th[i][t].k <= Len(Names)
      PROVE  /\ th[i][t].k \in 1..Len(Names)
             /\ Names[th[i][t].k] \in Definitions
             /\ Want(i, Names[th[i][t].k], over[i][Names[th[i][t].k]]) \in Wants
  <2>1. th[i][t].k \in 1..Len(Names)
    BY <1>a, <1>h DEF Tracked, Goroutines
  <2>2. \A d \in Definitions : over[i][d] \in 0..Version(d)
    BY <1>c DEF NothingAhead
  <2> QED
    BY <2>1, <2>2, WantType
<1>7. ASSUME NEW i \in Instances, NEW t \in Threads, ReconcileOne(i, t)
      PROVE  TypeOK'
  <2> DEFINE r == th[i][t]
             d == Names[r.k]
             want == Want(i, d, over[i][d])
  <2>1. d \in Definitions /\ want \in Wants /\ r.k + 1 \in 0..(Len(Names) + 1)
    BY <1>7, <1>h DEF ReconcileOne
  <2>2. r \in Goroutines /\ [r.next EXCEPT ![d] = want] \in [Definitions -> Wants]
    BY <1>a, <2>1 DEF Goroutines
  <2>3. /\ [r EXCEPT !.k = @ + 1] \in Goroutines
        /\ [r EXCEPT !.k = @ + 1, !.next[d] = want] \in Goroutines
    BY <2>1, <2>2 DEF Goroutines
  <2>4. th' \in [Instances -> [Threads -> Goroutines]]
    BY <1>7, <1>d, <2>3 DEF ReconcileOne
  <2>7. \/ registered' = registered
        \/ registered' = [registered EXCEPT ![i][d] = want]
    BY <1>7, ReconcileOneCases
  <2> HIDE DEF r, d, want
  <2>5. registered' \in [Instances -> [Definitions -> Wants]]
    BY <2>1, <2>7, RegisteredUpdate
  <2>6. broken' \in [Instances -> SUBSET Definitions]
    BY <1>7 DEF ReconcileOne
  <2> QED
    BY <1>7, <2>4, <2>5, <2>6 DEF ReconcileOne
<1>8. ASSUME NEW i \in Instances, NEW t \in Threads, ReconcileEnd(i, t)
      PROVE  TypeOK'
  <2>1. th[i][t].next \in [Definitions -> Wants]
    BY <1>a DEF Goroutines
  <2>2. th' \in [Instances -> [Threads -> Goroutines]]
    BY <1>8, <1>f DEF ReconcileEnd
  <2> QED
    BY <1>8, <2>1, <2>2 DEF ReconcileEnd
<1>9. ASSUME NEW i \in Instances, NEW t \in Threads, ReconcileFails(i, t)
      PROVE  TypeOK'
  <2> DEFINE d == Names[th[i][t].k]
  <2>1. d \in Definitions
    BY <1>9, <1>h DEF ReconcileFails
  <2>2. /\ th' \in [Instances -> [Threads -> Goroutines]]
        /\ listening' \in [Instances -> BOOLEAN]
        /\ queue' \in [Instances -> SUBSET Definitions]
    BY <1>9, <1>g DEF ReconcileFails
  <2>3. registered' \in [Instances -> [Definitions -> Wants]]
    BY <1>9, <2>1 DEF ReconcileFails, Wants
  <2>4. broken' \in [Instances -> SUBSET Definitions]
    BY <1>9 DEF ReconcileFails
  <2> QED
    BY <1>9, <2>2, <2>3, <2>4 DEF ReconcileFails
<1>10. ASSUME NEW i \in Instances, ResyncTick(i) \/ Listen(i) PROVE TypeOK'
  <2>1. th' \in [Instances -> [Threads -> Goroutines]]
    BY <1>10, <1>b, <1>e DEF ResyncTick, Listen
  <2> QED
    BY <1>10, <2>1 DEF ResyncTick, Listen
<1>11. ASSUME NEW i \in Instances, NEW d \in Definitions, Notified(i, d)
       PROVE  TypeOK'
  <2>1. [AtRest EXCEPT !.pc = "readOne", !.d = d] \in Goroutines
    BY <1>b, FromRest
  <2>2. th' \in [Instances -> [Threads -> Goroutines]]
    BY <1>11, <1>d, <2>1 DEF Notified
  <2> QED
    BY <1>11, <2>2 DEF Notified
<1>12. ASSUME NEW i \in Instances, SelectDefinition(i) PROVE TypeOK'
  <2> DEFINE r == th[i]["listener"]
             v == Version(r.d)
  <2>1. r \in Goroutines /\ r.d \in Definitions /\ v \in 0..MaxWrites
    BY <1>a, <1>c DEF Goroutines
  <2>2. [r EXCEPT !.pc = "apply", !.loaded[r.d] = v] \in Goroutines
    BY <1>b, <2>1 DEF Goroutines
  <2>3. th' \in [Instances -> [Threads -> Goroutines]]
    BY <1>12, <1>d, <2>2 DEF SelectDefinition
  <2> QED
    BY <1>12, <2>3 DEF SelectDefinition
<1>13. ASSUME NEW i \in Instances, NEW t \in Threads, ReadFails(i, t)
       PROVE  TypeOK'
  <2>1. /\ th' \in [Instances -> [Threads -> Goroutines]]
        /\ listening' \in [Instances -> BOOLEAN]
        /\ queue' \in [Instances -> SUBSET Definitions]
    BY <1>13, <1>g DEF ReadFails
  <2> QED
    BY <1>13, <2>1 DEF ReadFails
<1>14. ASSUME NEW i \in Instances, Disconnect(i) PROVE TypeOK'
  BY <1>14 DEF Disconnect
<1>15. ASSUME NEW i \in Instances, NoticeDisconnect(i) PROVE TypeOK'
  <2>1. th' \in [Instances -> [Threads -> Goroutines]]
    BY <1>15, <1>d DEF NoticeDisconnect, Hangup
  <2> QED
    BY <1>15, <2>1 DEF NoticeDisconnect, Hangup
<1>16. ASSUME NEW i \in Instances, Restart(i) PROVE TypeOK'
  <2>1. \A d \in Definitions : Want(i, d, Version(d)) \in Wants
    BY <1>c, WantType
  <2>2. th' \in [Instances -> [Threads -> Goroutines]]
    BY <1>16, StartedType DEF Restart
  <2>3. over' \in [Instances -> [Definitions -> 0..MaxWrites]]
    BY <1>16, <1>c DEF Restart
  <2>4. /\ registered' \in [Instances -> [Definitions -> Wants]]
        /\ applied' \in [Instances -> [Definitions -> Wants]]
    BY <1>16, <2>1 DEF Restart
  <2> QED
    BY <1>16, <2>2, <2>3, <2>4 DEF Restart
<1>17. CASE UNCHANGED vars
  BY <1>17 DEF vars
<1> QED
  BY <1>1, <1>2, <1>3, <1>4, <1>5, <1>6, <1>7, <1>8, <1>9, <1>10, <1>11,
     <1>12, <1>13, <1>14, <1>15, <1>16, <1>17
     DEF Next, WriteEnds, Resync, Listener, Reload, ApplySchedules

-----------------------------------------------------------------------------

(* The table changes by commits, and no instance's overrides change with it. *)
LEMMA LogSteps ==
    ASSUME [Next]_vars
    PROVE  \/ UNCHANGED <<log, writes>>
           \/ \E d \in Definitions, w \in Wants : CommitChange(d, w) /\ UNCHANGED over
<1>1. ASSUME NEW d \in Definitions, NEW w \in Wants, NEW i \in Instances,
             NEW t \in Writers, Write(i, t, d, w)
      PROVE  CommitChange(d, w) /\ UNCHANGED over
  BY <1>1 DEF Write
<1>2. ASSUME NEW d \in Definitions, NEW w \in Wants, WriteElsewhere(d, w)
      PROVE  CommitChange(d, w) /\ UNCHANGED over
  BY <1>2 DEF WriteElsewhere
<1>3. ASSUME NEW i \in Instances, NEW t \in Threads,
             WriteEnds(i, t) \/ ApplySchedules(i, t) \/ Resync(i) \/ Listener(i)
      PROVE  UNCHANGED <<log, writes>>
  BY <1>3 DEF WriteEnds, Resync, Listener, Reload, ApplySchedules, ApplyOverride,
              SelectDefinitions, ReplaceOverrides, ReconcileBegin, ReconcileOne,
              ReconcileEnd, ResyncTick, Listen, Notified, SelectDefinition,
              NoticeDisconnect
<1>4. ASSUME NEW i \in Instances, NEW t \in Threads, ReadFails(i, t) \/ ReconcileFails(i, t)
      PROVE  UNCHANGED <<log, writes>>
  BY <1>4 DEF ReadFails, ReconcileFails
<1>5. ASSUME NEW i \in Instances, Disconnect(i) \/ Restart(i)
      PROVE  UNCHANGED <<log, writes>>
  BY <1>5 DEF Disconnect, Restart
<1>6. CASE UNCHANGED vars
  BY <1>6 DEF vars
<1> QED
  BY <1>1, <1>2, <1>3, <1>4, <1>5, <1>6, Naming DEF Next

(* What a version asks for is settled when it is committed. *)
LEMMA LogGrows ==
    ASSUME TypeOK, VersionsCounted, [Next]_vars
    PROVE  /\ VersionsCounted'
           /\ \A d \in Definitions : /\ Version(d) \in Nat
                                     /\ Version(d)' \in Nat
                                     /\ Version(d) <= Version(d)'
           /\ \A i \in Instances, d \in Definitions : \A v \in 0..Version(d) :
                 Want(i, d, v)' = Want(i, d, v)
<1>1. \A d \in Definitions : Version(d) \in Nat
  BY DEF TypeOK, Version
<1>2. CASE UNCHANGED <<log, writes>>
  BY <1>1, <1>2 DEF VersionsCounted, Version, Want
<1>3. ASSUME NEW d \in Definitions, NEW w \in Wants, CommitChange(d, w)
      PROVE  /\ VersionsCounted'
             /\ \A e \in Definitions : Version(e)' \in Nat /\ Version(e) <= Version(e)'
             /\ \A e \in Definitions : \A v \in 1..Version(e) : log'[e][v] = log[e][v]
  BY <1>1, <1>3, CommitAppends
<1>4. ASSUME NEW d \in Definitions, NEW w \in Wants, CommitChange(d, w),
             NEW i \in Instances, NEW e \in Definitions, NEW v \in 0..Version(e)
      PROVE  Want(i, e, v)' = Want(i, e, v)
  BY <1>1, <1>3, <1>4 DEF Want
<1> QED
  BY <1>1, <1>2, <1>3, <1>4, LogSteps

(* The newer of two committed versions. *)
LEMMA NewerOf ==
    ASSUME NEW a \in Nat, NEW b \in Nat, NEW c \in Nat, a <= c, b <= c
    PROVE  Newer(a, b) \in Nat /\ a <= Newer(a, b) /\ Newer(a, b) <= c
  BY DEF Newer

(* An instance that applies what it read moves forward to committed versions,
   and nobody else moves. *)
LEMMA OverFollows ==
    ASSUME TypeOK, TypeOK', VersionsCounted, NothingAhead, NEW i \in Instances, NEW t \in Threads,
           ApplyOverride(i, t) \/ ReplaceOverrides(i, t) \/ Restart(i)
    PROVE  /\ \A d \in Definitions : over[i][d] <= over'[i][d] /\ over'[i][d] <= Version(d)
           /\ \A j \in Instances \ {i} : over'[j] = over[j]
           /\ UNCHANGED log
<1>1. /\ th[i][t] \in Goroutines /\ over \in [Instances -> [Definitions -> 0..MaxWrites]]
      /\ \A d \in Definitions : over[i][d] \in Nat /\ Version(d) \in Nat
  BY BoundsAssumption DEF TypeOK, Version
<1>2. /\ th[i][t].d \in Definitions
      /\ \A d \in Definitions : th[i][t].loaded[d] \in Nat
  BY <1>1, BoundsAssumption DEF Goroutines
<1>3. \A d \in Definitions : over[i][d] <= Version(d) /\ th[i][t].loaded[d] <= Version(d)
  BY DEF NothingAhead
<1>4. UNCHANGED log
  BY DEF ApplyOverride, ReplaceOverrides, Restart
<1>5. CASE ApplyOverride(i, t)
  <2> DEFINE x == th[i][t].d
             v == Newer(over[i][x], th[i][t].loaded[x])
  <2>1. over' = [over EXCEPT ![i][x] = v]
    BY <1>5 DEF ApplyOverride
  <2>2. x \in Definitions /\ v \in Nat /\ over[i][x] <= v /\ v <= Version(x)
    BY <1>1, <1>2, <1>3, NewerOf
  <2> HIDE DEF x, v
  <2>3. over'[i] = [over[i] EXCEPT ![x] = v] /\ \A j \in Instances \ {i} : over'[j] = over[j]
    BY <1>1, <2>1
  <2> QED
    BY <1>1, <1>3, <1>4, <2>2, <2>3
<1>6. CASE ReplaceOverrides(i, t)
  <2>1. /\ \A d \in Definitions : over'[i][d] = Newer(over[i][d], th[i][t].loaded[d])
        /\ \A j \in Instances \ {i} : over'[j] = over[j]
    BY <1>1, <1>6 DEF ReplaceOverrides
  <2>2. ASSUME NEW d \in Definitions
        PROVE  over[i][d] <= over'[i][d] /\ over'[i][d] <= Version(d)
    <3>1. over'[i][d] = Newer(over[i][d], th[i][t].loaded[d])
      BY <2>1
    <3> QED
      BY <1>1, <1>2, <1>3, <3>1, NewerOf
  <2> QED
    BY <1>4, <2>1, <2>2
<1>7. CASE Restart(i)
  <2>1. /\ \A d \in Definitions : over'[i][d] = Version(d)
        /\ \A j \in Instances \ {i} : over'[j] = over[j]
    BY <1>1, <1>7 DEF Restart
  <2> QED
    BY <1>1, <1>3, <1>4, <2>1
<1> QED
  BY <1>5, <1>6, <1>7

(* Only these three steps change what an instance holds. *)
LEMMA OverSteps ==
    ASSUME [Next]_vars
    PROVE  \/ UNCHANGED over
           \/ \E i \in Instances, t \in Threads :
                 ApplyOverride(i, t) \/ ReplaceOverrides(i, t) \/ Restart(i)
<1>1. ASSUME NEW d \in Definitions, NEW w \in Wants
      PROVE  /\ WriteElsewhere(d, w) => UNCHANGED over
             /\ \A i \in Instances, t \in Writers : Write(i, t, d, w) => UNCHANGED over
  BY DEF Write, WriteElsewhere
<1>2. ASSUME NEW i \in Instances, NEW t \in Threads, ApplySchedules(i, t)
      PROVE  UNCHANGED over
  BY <1>2 DEF ApplySchedules, ReconcileBegin, ReconcileOne, ReconcileEnd
<1>3. ASSUME NEW i \in Instances, NEW t \in Threads, ReadFails(i, t) \/ ReconcileFails(i, t)
      PROVE  UNCHANGED over
  BY <1>3 DEF ReadFails, ReconcileFails
<1>4. ASSUME NEW i \in Instances,
             \/ ResyncTick(i) \/ Listen(i) \/ NoticeDisconnect(i) \/ SelectDefinition(i)
             \/ Disconnect(i) \/ \E d \in Definitions : Notified(i, d)
             \/ \E t \in Threads : SelectDefinitions(i, t)
      PROVE  UNCHANGED over
  BY <1>4 DEF ResyncTick, Listen, NoticeDisconnect, SelectDefinition, Disconnect,
              Notified, SelectDefinitions
<1>5. CASE UNCHANGED vars
  BY <1>5 DEF vars
<1> QED
  BY <1>1, <1>2, <1>3, <1>4, <1>5, Naming DEF Next, WriteEnds, Resync, Listener, Reload

(* Every step commits a version of one definition, has one instance move
   forward, or changes neither the table nor what the instances hold. *)
LEMMA NextFollows ==
    ASSUME TypeOK, TypeOK', VersionsCounted, NothingAhead, [Next]_vars
    PROVE  \/ \E d \in Definitions : Followed!Commit(d)
           \/ \E i \in Instances : Followed!Follow(i)
           \/ UNCHANGED <<[d \in Definitions |-> Version(d)], over>>
<1>1. ASSUME NEW d \in Definitions, NEW w \in Wants, CommitChange(d, w), UNCHANGED over
      PROVE  Followed!Commit(d)
  <2>1. \A e \in Definitions : Version(e)' = IF e = d THEN Version(d) + 1 ELSE Version(e)
    BY <1>1, CommitAppends
  <2> QED
    BY <1>1, <2>1 DEF Followed!Commit
<1>2. ASSUME NEW i \in Instances, NEW t \in Threads,
             ApplyOverride(i, t) \/ ReplaceOverrides(i, t) \/ Restart(i)
      PROVE  Followed!Follow(i)
  <2>1. over' \in [Instances -> [Definitions -> Nat]]
    BY DEF TypeOK
  <2>2. UNCHANGED [d \in Definitions |-> Version(d)]
    BY <1>2, OverFollows DEF Version
  <2> QED
    BY <1>2, <2>1, <2>2, OverFollows DEF Followed!Follow
<1>3. CASE UNCHANGED <<log, over>>
  BY <1>3 DEF Version
<1> QED
  BY <1>1, <1>2, <1>3, LogSteps, OverSteps

(* What a step leaves a goroutine with: what it had loaded, nothing, or
   committed versions. *)
LEMMA LoadedSteps ==
    ASSUME TypeOK, TypeOK', [Next]_vars, NEW i \in Instances, NEW t \in Threads,
           NEW d \in Definitions
    PROVE  th'[i][t].loaded[d] \in {th[i][t].loaded[d], 0, Version(d), Version(d)'}
<1> USE Naming
<1> DEFINE Good == {th[i][t].loaded[d], 0, Version(d), Version(d)'}
<1>a. \A j \in Instances, u \in Threads : th[j][u] \in Goroutines
  BY DEF TypeOK
<1>b. ASSUME NEW j \in Instances, NEW u \in Threads, NEW r, Step(j, u, r),
             r.loaded[d] \in {th[j][u].loaded[d], 0, Version(d), Version(d)'}
      PROVE  th'[i][t].loaded[d] \in Good
  BY <1>b, StepThread
<1>c. ASSUME NEW j \in Instances, NEW u \in Threads, NEW p \in PCs,
             \/ Step(j, u, [AtRest EXCEPT !.pc = p])
             \/ Step(j, u, [AtRest EXCEPT !.pc = p, !.full = TRUE])
             \/ \E x \in Definitions : Step(j, u, [AtRest EXCEPT !.pc = p, !.d = x])
      PROVE  th'[i][t].loaded[d] \in Good
  <2>1. /\ [AtRest EXCEPT !.pc = p].loaded[d] = 0
        /\ [AtRest EXCEPT !.pc = p, !.full = TRUE].loaded[d] = 0
        /\ \A x \in Definitions : [AtRest EXCEPT !.pc = p, !.d = x].loaded[d] = 0
    BY AtRestType DEF Goroutines
  <2>2. CASE Step(j, u, [AtRest EXCEPT !.pc = p])
    BY <1>b, <2>1, <2>2
  <2>3. CASE Step(j, u, [AtRest EXCEPT !.pc = p, !.full = TRUE])
    BY <1>b, <2>1, <2>3
  <2>4. CASE \E x \in Definitions : Step(j, u, [AtRest EXCEPT !.pc = p, !.d = x])
    BY <1>b, <2>1, <2>4
  <2> QED
    BY <1>c, <2>2, <2>3, <2>4
<1>d. ASSUME NEW p PROVE [AtRest EXCEPT !.pc = p].loaded[d] = 0
  BY AtRestType DEF Goroutines
<1>e. ASSUME NEW j \in Instances, NEW u \in Threads,
             Hangup(j) \/ Return(j, u) \/ ReloadError(j, u)
      PROVE  th'[i][t].loaded[d] \in Good
  <2>1. CASE Hangup(j)
    BY <1>b, <2>1, AtRestType DEF Hangup
  <2>2. CASE Return(j, u)
    BY <1>b, <1>d, <2>2 DEF Return
  <2> QED
    BY <1>e, <2>1, <2>2 DEF ReloadError
<1>1. ASSUME NEW j \in Instances, NEW u \in Writers, NEW x \in Definitions, NEW w \in Wants,
             Write(j, u, x, w)
      PROVE  th'[i][t].loaded[d] \in Good
  <2> DEFINE v == Version(x) + 1
             q == [AtRest EXCEPT !.pc = "apply", !.d = x, !.loaded[x] = v]
  <2>1. v = Version(x)'
    BY <1>1 DEF Write, CommitChange, Version, TypeOK
  <2>2. Step(j, u, q)
    BY <1>1 DEF Write
  <2> HIDE DEF v
  <2>3. q.loaded[d] = IF d = x THEN v ELSE AtRest.loaded[d]
    BY AtRestType DEF Goroutines
  <2> HIDE DEF q
  <2>4. q.loaded[d] \in {0, Version(d)'}
    BY <2>1, <2>3, AtRestType
  <2> QED
    BY <1>b, <2>2, <2>4
<1>2. ASSUME NEW j \in Instances, NEW u \in Threads,
             ApplyOverride(j, u) \/ ReplaceOverrides(j, u)
      PROVE  th'[i][t].loaded[d] \in Good
  BY <1>2, <1>c DEF ApplyOverride, ReplaceOverrides, PCs
<1>3. ASSUME NEW j \in Instances, NEW u \in Threads, SelectDefinitions(j, u)
      PROVE  th'[i][t].loaded[d] \in Good
  <2> DEFINE l == [e \in Definitions |-> Version(e)]
  <2>1. [AtRest EXCEPT !.pc = "replace", !.loaded = l].loaded = l
    BY AtRestType DEF Goroutines
  <2>2. Step(j, u, [AtRest EXCEPT !.pc = "replace", !.loaded = l])
    BY <1>3 DEF SelectDefinitions
  <2>3. l[d] = Version(d)
    OBVIOUS
  <2> HIDE DEF l
  <2> QED
    BY <1>b, <2>1, <2>2, <2>3
<1>4. ASSUME NEW j \in Instances, NEW u \in Threads, ReconcileBegin(j, u)
      PROVE  th'[i][t].loaded[d] \in Good
  <2>1. [th[j][u] EXCEPT !.pc = "reconcile", !.k = 1, !.next = applied[j]].loaded
           = th[j][u].loaded
    BY <1>a DEF Goroutines
  <2> QED
    BY <1>4, <1>b, <2>1 DEF ReconcileBegin
<1>5. ASSUME NEW j \in Instances, NEW u \in Threads, ReconcileOne(j, u)
      PROVE  th'[i][t].loaded[d] \in Good
  <2> DEFINE r == th[j][u]
             x == Names[r.k]
             want == Want(j, x, over[j][x])
  <2>1. \/ Step(j, u, [r EXCEPT !.k = @ + 1])
        \/ Step(j, u, [r EXCEPT !.k = @ + 1, !.next[x] = want])
    BY <1>5, ReconcileOneCases
  <2>2. r \in Goroutines
    BY <1>a
  <2> HIDE DEF x, want
  <2>3. /\ [r EXCEPT !.k = @ + 1].loaded = r.loaded
        /\ [r EXCEPT !.k = @ + 1, !.next[x] = want].loaded = r.loaded
    BY <2>2 DEF Goroutines
  <2> QED
    BY <1>b, <2>1, <2>3
<1>6. ASSUME NEW j \in Instances, NEW u \in Threads,
             ReconcileEnd(j, u) \/ ReconcileFails(j, u) \/ ReadFails(j, u)
      PROVE  th'[i][t].loaded[d] \in Good
  BY <1>6, <1>e DEF ReconcileEnd, ReconcileFails, ReadFails
<1>7. ASSUME NEW j \in Instances, ResyncTick(j) \/ Listen(j)
      PROVE  th'[i][t].loaded[d] \in Good
  BY <1>7, <1>c DEF ResyncTick, Listen, PCs
<1>8. ASSUME NEW j \in Instances, NEW x \in Definitions, Notified(j, x)
      PROVE  th'[i][t].loaded[d] \in Good
  BY <1>8, <1>c DEF Notified, PCs
<1>9. ASSUME NEW j \in Instances, SelectDefinition(j)
      PROVE  th'[i][t].loaded[d] \in Good
  <2> DEFINE r == th[j]["listener"]
             v == Version(r.d)
             q == [r EXCEPT !.pc = "apply", !.loaded[r.d] = v]
  <2>1. r \in Goroutines
    BY <1>a
  <2>2. Step(j, "listener", q)
    BY <1>9 DEF SelectDefinition
  <2>3. r.d = d => v = Version(d)
    OBVIOUS
  <2> HIDE DEF v
  <2>4. q.loaded[d] = IF d = r.d THEN v ELSE r.loaded[d]
    BY <2>1 DEF Goroutines
  <2> HIDE DEF q
  <2>5. q.loaded[d] \in {r.loaded[d], Version(d)}
    BY <2>3, <2>4
  <2> QED
    BY <1>b, <2>2, <2>5
<1>10. ASSUME NEW j \in Instances, NoticeDisconnect(j)
       PROVE  th'[i][t].loaded[d] \in Good
  BY <1>10, <1>e DEF NoticeDisconnect
<1>11. ASSUME NEW j \in Instances, Restart(j)
       PROVE  th'[i][t].loaded[d] \in Good
  <2>1. CASE i = j
    <3>1. th'[i][t] = Started[t]
      BY <1>11, <2>1 DEF Restart, TypeOK
    <3> QED
      BY <3>1, StartedType
  <2>2. CASE i # j
    BY <1>11, <2>2 DEF Restart, TypeOK
  <2> QED
    BY <2>1, <2>2
<1>12. CASE UNCHANGED th
  BY <1>12
<1> QED
  BY <1>1, <1>2, <1>3, <1>4, <1>5, <1>6, <1>7, <1>8, <1>9, <1>10, <1>11, <1>12
     DEF Next, vars, WriteElsewhere, Disconnect, WriteEnds, Resync, Listener, Reload, ApplySchedules

(* No instance and no goroutine gets ahead of the table. *)
LEMMA AheadInductive ==
    ASSUME TypeOK, TypeOK', VersionsCounted, NothingAhead, [Next]_vars
    PROVE  NothingAhead'
<1> SUFFICES ASSUME NEW i \in Instances, NEW d \in Definitions
             PROVE  /\ over'[i][d] <= Version(d)'
                    /\ \A t \in Threads : th'[i][t].loaded[d] <= Version(d)'
  BY DEF NothingAhead
<1>1. /\ over[i][d] \in Nat /\ over'[i][d] \in Nat
      /\ Version(d) \in Nat /\ Version(d)' \in Nat /\ Version(d) <= Version(d)'
      /\ over[i][d] <= Version(d)
  BY LogGrows, BoundsAssumption DEF TypeOK, NothingAhead
<1>2. over'[i][d] <= Version(d)
  BY <1>1, OverSteps, OverFollows
<1>3. ASSUME NEW t \in Threads PROVE th'[i][t].loaded[d] <= Version(d)'
  <2>1. th[i][t].loaded[d] \in Nat /\ th[i][t].loaded[d] <= Version(d)
    BY BoundsAssumption DEF TypeOK, NothingAhead, Goroutines
  <2> QED
    BY <1>1, <2>1, LoadedSteps
<1> QED
  BY <1>1, <1>2, <1>3

-----------------------------------------------------------------------------

(* A step that leaves the schedules and overrides of i alone, and no goroutine
   of it at, to or from the mutex. *)
Quiet(i) ==
    /\ over'[i] = over[i] /\ registered'[i] = registered[i]
    /\ applied'[i] = applied[i] /\ broken'[i] = broken[i]
    /\ \A t \in Threads :
         \/ th'[i][t] = th[i][t]
         \/ /\ th[i][t].pc \notin {"lock", "reconcile"}
            /\ th'[i][t].pc \notin {"lock", "reconcile"}

(* The overrides an instance holds ask for what they asked for, whatever is
   committed after them. *)
LEMMA WantSettled ==
    ASSUME TypeOK, VersionsCounted, NothingAhead, [Next]_vars,
           NEW i \in Instances, NEW d \in Definitions, over'[i] = over[i]
    PROVE  Want(i, d, over[i][d])' = Want(i, d, over[i][d])
<1>1. over[i][d] \in 0..Version(d)
  BY LogGrows, BoundsAssumption DEF TypeOK, NothingAhead
<1>2. \A v \in 0..Version(d) : Want(i, d, v)' = Want(i, d, v)
  BY LogGrows
<1> QED
  BY <1>1, <1>2 DEF Want

(* Quiet steps keep the schedules as they are. *)
LEMMA QuietKeeps ==
    ASSUME TypeOK, VersionsCounted, NothingAhead, [Next]_vars,
           NEW i \in Instances, Scheduler(i), Quiet(i)
    PROVE  Scheduler(i)'
<1>1. OneReconciles(i)'
  BY DEF Scheduler, OneReconciles, Quiet
<1>2. Tracked(i)'
  BY DEF Scheduler, Tracked, Quiet
<1>3. Remembered(i)'
  BY DEF Scheduler, Remembered, MutexFree, Quiet
<1>4. InLine(i)'
  <2> SUFFICES ASSUME NEW n \in 1..Len(Names)
               PROVE  InLine(i)!(n)'
    BY DEF InLine
  <2> QED
    BY WantSettled, Naming DEF Scheduler, InLine, Quiet
<1> QED
  BY <1>1, <1>2, <1>3, <1>4 DEF Scheduler

(* Whoever changed overrides goes for the mutex. *)
LEMMA OverrideSteps ==
    ASSUME TypeOK, NEW i \in Instances, NEW t \in Threads,
           ApplyOverride(i, t) \/ ReplaceOverrides(i, t)
    PROVE  /\ th[i][t].pc \in {"apply", "replace"} /\ th'[i][t].pc = "lock"
           /\ \A u \in Threads : u # t => th'[i][u] = th[i][u]
           /\ UNCHANGED schedules
<1>1. /\ th[i][t].pc \in {"apply", "replace"}
      /\ \/ Step(i, t, [AtRest EXCEPT !.pc = "lock"])
         \/ Step(i, t, [AtRest EXCEPT !.pc = "lock", !.full = TRUE])
      /\ UNCHANGED schedules
  BY DEF ApplyOverride, ReplaceOverrides
<1>2. /\ [AtRest EXCEPT !.pc = "lock"].pc = "lock"
      /\ [AtRest EXCEPT !.pc = "lock", !.full = TRUE].pc = "lock"
  BY AtRestType DEF Goroutines
<1>3. PICK q : Step(i, t, q) /\ q.pc = "lock"
  BY <1>1, <1>2
<1>4. th'[i][t] = q /\ \A u \in Threads : u # t => th'[i][u] = th[i][u]
  BY <1>3, StepThread
<1> QED
  BY <1>1, <1>3, <1>4

(* Changed overrides have a goroutine go for the mutex. *)
LEMMA OverrideKeeps ==
    ASSUME TypeOK, NEW i \in Instances, NEW t \in Threads, Scheduler(i),
           ApplyOverride(i, t) \/ ReplaceOverrides(i, t)
    PROVE  Scheduler(i)'
<1>1. th[i][t].pc \in {"apply", "replace"} /\ UNCHANGED schedules
  BY OverrideSteps
<1>3. /\ th'[i][t].pc = "lock"
      /\ \A u \in Threads : u # t => th'[i][u] = th[i][u]
  BY OverrideSteps
<1>4. OneReconciles(i)'
  BY <1>3 DEF Scheduler, OneReconciles
<1>5. Tracked(i)'
  BY <1>1, <1>3 DEF Scheduler, Tracked, schedules
<1>6. Remembered(i)'
  BY <1>1, <1>3 DEF Scheduler, Remembered, MutexFree, schedules
<1>7. InLine(i)'
  BY <1>3 DEF InLine
<1> QED
  BY <1>4, <1>5, <1>6, <1>7 DEF Scheduler

(* The mutex is taken with what was applied before. *)
LEMMA BeginKeeps ==
    ASSUME TypeOK, NEW i \in Instances, NEW t \in Threads, Scheduler(i),
           ReconcileBegin(i, t)
    PROVE  Scheduler(i)'
<1> DEFINE q == [th[i][t] EXCEPT !.pc = "reconcile", !.k = 1, !.next = applied[i]]
<1>1. q.pc = "reconcile" /\ q.k = 1 /\ q.next = applied[i]
  BY DEF TypeOK, Goroutines
<1>2. Step(i, t, q)
  BY DEF ReconcileBegin
<1> HIDE DEF q
<1>3. /\ th'[i][t] = q
      /\ \A u \in Threads : u # t => th'[i][u] = th[i][u]
  BY <1>2, StepThread
<1>4. MutexFree(i) /\ UNCHANGED schedules
  BY DEF ReconcileBegin
<1>5. OneReconciles(i)'
  BY <1>3, <1>4 DEF OneReconciles, MutexFree
<1>6. Tracked(i)'
  BY <1>1, <1>3, <1>4 DEF Scheduler, Tracked, Remembered, MutexFree, schedules
<1>7. Remembered(i)'
  BY <1>1, <1>3 DEF Remembered, MutexFree
<1>8. InLine(i)'
  BY <1>1, <1>3, Naming DEF InLine
<1> QED
  BY <1>5, <1>6, <1>7, <1>8 DEF Scheduler

(* A step of reconcile looks at one definition, and leaves it registered as it
   is in force, or as it was where that was remembered. *)
LEMMA OneSteps ==
    ASSUME TypeOK, NothingAhead, NEW i \in Instances, NEW t \in Threads, Scheduler(i),
           ReconcileOne(i, t)
    PROVE  LET r == th[i][t]
               d == Names[r.k]
               want == Want(i, d, over[i][d])
               q == th'[i][t]
           IN  /\ r.k \in 1..Len(Names) /\ r.pc = "reconcile" /\ d \in Definitions
               /\ \A u \in Threads : u # t => th'[i][u] = th[i][u]
               /\ broken'[i] = IF registered'[i][d] = want THEN broken[i] \ {d} ELSE broken[i]
               /\ q.pc = "reconcile" /\ q.k = r.k + 1
               /\ q.next[d] = want
               /\ \A e \in Definitions : e # d => q.next[e] = r.next[e]
               /\ \A e \in Definitions : e # d => registered'[i][e] = registered[i][e]
               /\ \/ registered'[i][d] = want
                  \/ r.next[d] = want /\ registered'[i][d] = registered[i][d]
<1> DEFINE r == th[i][t]
           d == Names[r.k]
           want == Want(i, d, over[i][d])
           q == th'[i][t]
<1>1. /\ r \in Goroutines /\ r.k \in 1..Len(Names) /\ r.pc = "reconcile"
      /\ d \in Definitions
  <2>1. r \in Goroutines
    BY DEF TypeOK
  <2>2. r.pc = "reconcile" /\ r.k <= Len(Names)
    BY DEF ReconcileOne
  <2>3. r.k \in 1..Len(Names)
    BY <2>1, <2>2, Naming DEF Scheduler, Tracked, Goroutines
  <2> QED
    BY <2>1, <2>2, <2>3, Naming
<1>2. \/ /\ r.next[d] = want
         /\ Step(i, t, [r EXCEPT !.k = @ + 1])
         /\ registered' = registered
      \/ /\ Step(i, t, [r EXCEPT !.k = @ + 1, !.next[d] = want])
         /\ registered' = [registered EXCEPT ![i][d] = want]
  BY ReconcileOneCases
<1>3. broken'[i] = IF registered'[i][d] = want THEN broken[i] \ {d} ELSE broken[i]
  BY DEF ReconcileOne, TypeOK
<1>5. want = Want(i, d, over[i][d]) /\ want \in Wants
  <2>1. over[i][d] \in 0..Version(d)
    BY <1>1, BoundsAssumption DEF TypeOK, NothingAhead, Version
  <2> QED
    BY <1>1, <2>1, WantType
<1> HIDE DEF want
<1>6. /\ [r EXCEPT !.k = @ + 1].pc = "reconcile"
      /\ [r EXCEPT !.k = @ + 1].k = r.k + 1
      /\ [r EXCEPT !.k = @ + 1].next = r.next
      /\ [r EXCEPT !.k = @ + 1, !.next[d] = want].pc = "reconcile"
      /\ [r EXCEPT !.k = @ + 1, !.next[d] = want].k = r.k + 1
      /\ [r EXCEPT !.k = @ + 1, !.next[d] = want].next = [r.next EXCEPT ![d] = want]
  BY <1>1 DEF Goroutines
<1>7. \A u \in Threads : u # t => th'[i][u] = th[i][u]
  BY <1>2, StepThread
<1>8. \/ /\ r.next[d] = want
         /\ q = [r EXCEPT !.k = @ + 1]
         /\ registered' = registered
      \/ /\ q = [r EXCEPT !.k = @ + 1, !.next[d] = want]
         /\ registered' = [registered EXCEPT ![i][d] = want]
  BY <1>2, StepThread
<1>9. /\ q.pc = "reconcile" /\ q.k = r.k + 1
      /\ q.next[d] = want
      /\ \A e \in Definitions : e # d => q.next[e] = r.next[e]
      /\ \A e \in Definitions : e # d => registered'[i][e] = registered[i][e]
      /\ \/ registered'[i][d] = want
         \/ r.next[d] = want /\ registered'[i][d] = registered[i][d]
  <2>1. registered \in [Instances -> [Definitions -> Wants]]
    BY DEF TypeOK
  <2>2. r.next \in [Definitions -> Wants]
    BY <1>1 DEF Goroutines
  <2>3. /\ [r.next EXCEPT ![d] = want][d] = want
        /\ \A e \in Definitions : e # d => [r.next EXCEPT ![d] = want][e] = r.next[e]
    BY <1>1, <2>2
  <2> HIDE DEF r, d, q
  <2>4. CASE r.next[d] = want /\ q = [r EXCEPT !.k = @ + 1] /\ registered' = registered
    BY <1>6, <2>4
  <2>5. CASE /\ q = [r EXCEPT !.k = @ + 1, !.next[d] = want]
             /\ registered' = [registered EXCEPT ![i][d] = want]
    <3>1. /\ registered'[i][d] = want
          /\ \A e \in Definitions : e # d => registered'[i][e] = registered[i][e]
      BY <1>1, <1>5, <2>1, <2>5, RegisteredUpdate
    <3>2. q.pc = "reconcile" /\ q.k = r.k + 1 /\ q.next = [r.next EXCEPT ![d] = want]
      BY <1>6, <2>5
    <3> QED
      BY <2>3, <3>1, <3>2
  <2> QED
    BY <1>8, <2>4, <2>5
<1> QED
  BY <1>1, <1>3, <1>7, <1>9 DEF want

(* One more definition is in line, or was out of line before. *)
LEMMA OneKeeps ==
    ASSUME TypeOK, NothingAhead, NEW i \in Instances, NEW t \in Threads, Scheduler(i),
           ReconcileOne(i, t)
    PROVE  Scheduler(i)'
<1> DEFINE r == th[i][t]
           d == Names[r.k]
           want == Want(i, d, over[i][d])
           q == th'[i][t]
<1>1. /\ r.k \in 1..Len(Names) /\ r.pc = "reconcile" /\ d \in Definitions
      /\ \A u \in Threads : u # t => th'[i][u] = th[i][u]
      /\ broken'[i] = IF registered'[i][d] = want THEN broken[i] \ {d} ELSE broken[i]
      /\ q.pc = "reconcile" /\ q.k = r.k + 1
      /\ q.next[d] = want
      /\ \A e \in Definitions : e # d => q.next[e] = r.next[e]
      /\ \A e \in Definitions : e # d => registered'[i][e] = registered[i][e]
      /\ \/ registered'[i][d] = want
         \/ r.next[d] = want /\ registered'[i][d] = registered[i][d]
  BY OneSteps
<1>4. \A e \in Definitions : Want(i, e, over[i][e])' = Want(i, e, over[i][e])
  BY DEF ReconcileOne, Want
<1>5. want = Want(i, d, over[i][d])
  OBVIOUS
<1> HIDE DEF want
<1>10. \A e \in Definitions \ broken[i] : registered[i][e] = r.next[e]
  BY <1>1 DEF Scheduler, Tracked
<1>11. d \in broken'[i] \/ registered'[i][d] = want
  BY <1>1, <1>10
<1>12. OneReconciles(i)'
  BY <1>1 DEF Scheduler, OneReconciles
<1>13. Tracked(i)'
  <2>1. q.k >= 1
    BY <1>1
  <2>2. ASSUME NEW e \in Definitions \ broken'[i] PROVE registered'[i][e] = q.next[e]
    <3>1. CASE e = d
      BY <1>1, <1>11, <2>2, <3>1
    <3>2. CASE e # d
      BY <1>1, <1>10, <2>2, <3>2
    <3> QED
      BY <3>1, <3>2
  <2>3. \A u \in Threads : th'[i][u].pc = "reconcile" => u = t
    BY <1>1, <1>12 DEF OneReconciles
  <2> QED
    BY <2>1, <2>2, <2>3 DEF Tracked
<1>14. Remembered(i)'
  BY <1>1 DEF Remembered, MutexFree
<1>15. InLine(i)'
  <2> SUFFICES ASSUME NEW n \in 1..Len(Names)
               PROVE  InLine(i)!(n)'
    BY DEF InLine
  <2>1. CASE n = r.k
    BY <1>1, <1>4, <1>5, <1>11, <2>1 DEF InLine
  <2>2. CASE n # r.k
    <3>1. Names[n] \in Definitions /\ Names[n] # d
      BY <1>1, <2>2, Naming
    <3>2. CASE Names[n] \in broken[i]
      BY <1>1, <3>1, <3>2
    <3>3. CASE registered[i][Names[n]] = Want(i, Names[n], over[i][Names[n]])
      BY <1>4, <1>1, <3>1, <3>3
    <3>4. ASSUME NEW u \in Threads, th[i][u].pc = "lock" PROVE th'[i][u].pc = "lock"
      BY <1>1, <3>4
    <3>5. ASSUME NEW u \in Threads, th[i][u].pc = "reconcile", th[i][u].k <= n
          PROVE  q.pc = "reconcile" /\ q.k <= n
      <4>1. u = t
        BY <1>1, <3>5 DEF Scheduler, OneReconciles
      <4> QED
        BY <1>1, <2>2, <3>5, <4>1, Naming
    <3> QED
      BY <3>2, <3>3, <3>4, <3>5 DEF Scheduler, InLine
  <2> QED
    BY <2>1, <2>2
<1> QED
  BY <1>12, <1>13, <1>14, <1>15 DEF Scheduler

(* A reconcile that went through is remembered, and lets the mutex go. *)
LEMMA EndKeeps ==
    ASSUME TypeOK, NEW i \in Instances, NEW t \in Threads, Scheduler(i),
           ReconcileEnd(i, t)
    PROVE  Scheduler(i)'
<1> DEFINE q == th'[i][t]
<1>1. /\ th[i][t].pc = "reconcile" /\ th[i][t].k > Len(Names)
      /\ th[i][t].k \in Nat /\ Len(Names) \in Nat
  BY Naming DEF ReconcileEnd, TypeOK, Goroutines
<1>2. /\ q.pc \in {"wait", "idle"}
      /\ \A u \in Threads : u # t => th'[i][u] = th[i][u]
  BY Returned DEF ReconcileEnd
<1> HIDE DEF q
<1>3. /\ applied'[i] = th[i][t].next /\ UNCHANGED <<registered, broken>>
      /\ \A d \in Definitions : Want(i, d, over[i][d])' = Want(i, d, over[i][d])
  BY DEF ReconcileEnd, TypeOK, Want
<1>4. \A u \in Threads : th[i][u].pc = "reconcile" => u = t
  BY <1>1 DEF Scheduler, OneReconciles
<1>5. OneReconciles(i)' /\ Tracked(i)'
  BY <1>2, <1>4 DEF OneReconciles, Tracked, q
<1>6. Remembered(i)'
  BY <1>1, <1>3 DEF Remembered, Scheduler, Tracked
<1>7. InLine(i)'
  <2> SUFFICES ASSUME NEW n \in 1..Len(Names)
               PROVE  InLine(i)!(n)'
    BY DEF InLine
  <2>1. ASSUME NEW u \in Threads, th[i][u].pc = "lock" PROVE th'[i][u].pc = "lock"
    BY <1>1, <1>2, <2>1
  <2>2. \A u \in Threads : ~(th[i][u].pc = "reconcile" /\ th[i][u].k <= n)
    BY <1>1, <1>4
  <2> QED
    BY <1>3, <2>1, <2>2, Naming DEF Scheduler, InLine
<1> QED
  BY <1>5, <1>6, <1>7 DEF Scheduler

(* What a failed reconcile leaves out of line is known to be. *)
LEMMA FailKeeps ==
    ASSUME TypeOK, NEW i \in Instances, NEW t \in Threads, Scheduler(i),
           ReconcileFails(i, t)
    PROVE  Scheduler(i)'
<1>1. th[i][t].pc = "reconcile"
  BY DEF ReconcileFails
<1>2. /\ th'[i][t].pc \in {"wait", "idle"}
      /\ \A u \in Threads : u # t => th'[i][u] = th[i][u]
  BY Returned DEF ReconcileFails
<1>3. \A u \in Threads : th[i][u].pc = "reconcile" => u = t
  BY <1>1 DEF Scheduler, OneReconciles
<1>4. /\ applied' = applied
      /\ broken'[i] = {e \in Definitions :
                          \/ registered'[i][e] # applied[i][e]
                          \/ registered'[i][e] # Want(i, e, over[i][e])}
      /\ \A d \in Definitions : Want(i, d, over[i][d])' = Want(i, d, over[i][d])
  BY DEF ReconcileFails, TypeOK, Want
<1>5. OneReconciles(i)' /\ Tracked(i)'
  BY <1>2, <1>3 DEF OneReconciles, Tracked
<1>6. Remembered(i)'
  BY <1>4 DEF Remembered
<1>7. InLine(i)'
  BY <1>4, Naming DEF InLine
<1> QED
  BY <1>5, <1>6, <1>7 DEF Scheduler

(* A restarted instance schedules what the table asks for. *)
LEMMA RestartKeeps ==
    ASSUME TypeOK, NEW i \in Instances, Restart(i)
    PROVE  Scheduler(i)'
<1>1. \A t \in Threads : th'[i][t] = Started[t]
  BY DEF Restart, TypeOK
<1>2. \A d \in Definitions : /\ over'[i][d] = Version(d)
                             /\ registered'[i][d] = Want(i, d, Version(d))
                             /\ applied'[i][d] = Want(i, d, Version(d))
  BY DEF Restart, TypeOK
<1>3. \A d \in Definitions : Want(i, d, over[i][d])' = Want(i, d, Version(d))
  BY <1>2 DEF Restart, Want
<1>4. OneReconciles(i)' /\ Tracked(i)'
  BY <1>1, StartedType DEF OneReconciles, Tracked
<1>5. Remembered(i)'
  BY <1>2 DEF Remembered
<1>6. InLine(i)'
  BY <1>2, <1>3, Naming DEF InLine
<1> QED
  BY <1>4, <1>5, <1>6 DEF Scheduler

(* Every other step is quiet. *)
LEMMA StepKinds ==
    ASSUME TypeOK, [Next]_vars, NEW i \in Instances
    PROVE  \/ Quiet(i)
           \/ Restart(i)
           \/ \E t \in Threads : \/ ApplyOverride(i, t) \/ ReplaceOverrides(i, t)
                                 \/ ReconcileBegin(i, t) \/ ReconcileOne(i, t)
                                 \/ ReconcileEnd(i, t) \/ ReconcileFails(i, t)
<1> USE Naming
<1> DEFINE Other == {"idle", "wait", "read", "replace", "readOne", "apply"}
<1>a. ASSUME NEW j \in Instances, NEW t \in Threads, NEW r, Step(j, t, r),
             UNCHANGED <<over, schedules>>,
             th[j][t].pc \in Other, r.pc \in Other
      PROVE  Quiet(i)
  <2>1. \A u \in Threads : th'[i][u] = th[i][u] \/ (j = i /\ u = t)
    BY <1>a, StepThread
  <2>2. th'[j][t].pc \in Other
    BY <1>a, StepThread
  <2> QED
    BY <1>a, <2>1, <2>2 DEF Quiet, schedules
<1>b. \A j \in Instances, t \in Threads : th[j][t] \in Goroutines
  BY DEF TypeOK
<1>c. ASSUME NEW j \in Instances, NEW t \in Threads, NEW p \in Other,
             \/ Step(j, t, [AtRest EXCEPT !.pc = p])
             \/ \E d \in Definitions : Step(j, t, [AtRest EXCEPT !.pc = p, !.d = d]),
             UNCHANGED <<over, schedules>>, th[j][t].pc \in Other
      PROVE  Quiet(i)
  <2>1. p \in PCs
    BY DEF PCs
  <2>2. /\ [AtRest EXCEPT !.pc = p].pc = p
        /\ \A d \in Definitions : [AtRest EXCEPT !.pc = p, !.d = d].pc = p
    BY <2>1, FromRest
  <2>3. CASE Step(j, t, [AtRest EXCEPT !.pc = p])
    BY <1>a, <1>c, <2>2, <2>3
  <2>4. CASE \E d \in Definitions : Step(j, t, [AtRest EXCEPT !.pc = p, !.d = d])
    BY <1>a, <1>c, <2>2, <2>4
  <2> QED
    BY <1>c, <2>3, <2>4
<1>d. ASSUME NEW j \in Instances, NEW t \in Threads, j # i,
             over'[i] = over[i], registered'[i] = registered[i],
             applied'[i] = applied[i], broken'[i] = broken[i],
             \/ \E r : Step(j, t, r)
             \/ Return(j, t) \/ ReloadError(j, t)
             \/ \A u \in Threads : th'[i][u] = th[i][u]
      PROVE  Quiet(i)
  BY <1>d, StepThread, Returned DEF Quiet
<1>1. ASSUME NEW d \in Definitions, NEW w \in Wants, WriteElsewhere(d, w)
      PROVE  Quiet(i)
  BY <1>1 DEF WriteElsewhere, Quiet, schedules
<1>2. ASSUME NEW j \in Instances, NEW t \in Writers, NEW d \in Definitions, NEW w \in Wants,
             Write(j, t, d, w)
      PROVE  Quiet(i)
  <2> DEFINE v == Version(d) + 1
  <2>1. [AtRest EXCEPT !.pc = "apply", !.d = d, !.loaded[d] = v].pc = "apply"
    BY AtRestType DEF Goroutines
  <2> QED
    BY <1>2, <1>a, <2>1 DEF Write
<1>3. ASSUME NEW j \in Instances, NEW t \in Threads, SelectDefinitions(j, t)
      PROVE  Quiet(i)
  <2> DEFINE l == [d \in Definitions |-> Version(d)]
  <2>1. [AtRest EXCEPT !.pc = "replace", !.loaded = l].pc = "replace"
    BY AtRestType DEF Goroutines
  <2> QED
    BY <1>3, <1>a, <2>1 DEF SelectDefinitions
<1>4. ASSUME NEW j \in Instances, ResyncTick(j) PROVE Quiet(i)
  BY <1>4, <1>c DEF ResyncTick
<1>5. ASSUME NEW j \in Instances, Listen(j) PROVE Quiet(i)
  BY <1>5, <1>c DEF Listen
<1>6. ASSUME NEW j \in Instances, NEW d \in Definitions, Notified(j, d) PROVE Quiet(i)
  BY <1>6, <1>c DEF Notified
<1>7. ASSUME NEW j \in Instances, SelectDefinition(j) PROVE Quiet(i)
  <2> DEFINE r == th[j]["listener"]
             v == Version(r.d)
  <2>1. [r EXCEPT !.pc = "apply", !.loaded[r.d] = v].pc = "apply"
    BY <1>b DEF Goroutines
  <2> QED
    BY <1>7, <1>a, <2>1 DEF SelectDefinition
<1>8. ASSUME NEW j \in Instances, NEW t \in Threads, ReadFails(j, t) PROVE Quiet(i)
  <2>1. /\ th[j][t].pc \in Other /\ UNCHANGED <<over, schedules>>
        /\ Return(j, t) \/ ReloadError(j, t)
    BY <1>8 DEF ReadFails
  <2>2. /\ th'[j][t].pc \in {"wait", "idle"}
        /\ \A u \in Threads : th'[i][u] = th[i][u] \/ (j = i /\ u = t)
    BY <2>1, Returned
  <2> QED
    BY <2>1, <2>2 DEF Quiet, schedules
<1>9. ASSUME NEW j \in Instances, Disconnect(j) PROVE Quiet(i)
  BY <1>9 DEF Disconnect, Quiet, schedules
<1>10. ASSUME NEW j \in Instances, NoticeDisconnect(j) PROVE Quiet(i)
  BY <1>10, <1>a, AtRestType DEF NoticeDisconnect, Hangup
<1>11. ASSUME NEW j \in Instances, j # i, Restart(j) PROVE Quiet(i)
  BY <1>11 DEF Restart, Quiet, TypeOK
<1>12. ASSUME NEW j \in Instances, NEW t \in Threads, j # i,
              ApplyOverride(j, t) \/ ReplaceOverrides(j, t)
       PROVE  Quiet(i)
  BY <1>12, <1>d DEF ApplyOverride, ReplaceOverrides, schedules, TypeOK
<1>13. ASSUME NEW j \in Instances, NEW t \in Threads, j # i, ReconcileBegin(j, t)
       PROVE  Quiet(i)
  BY <1>13, <1>d DEF ReconcileBegin, schedules
<1>14. ASSUME NEW j \in Instances, NEW t \in Threads, j # i, ReconcileOne(j, t)
       PROVE  Quiet(i)
  <2>1. \E r : Step(j, t, r)
    BY <1>14, ReconcileOneCases
  <2> DEFINE d == Names[th[j][t].k]
             want == Want(j, d, over[j][d])
  <2>2. registered' = registered \/ registered' = [registered EXCEPT ![j][d] = want]
    BY <1>14, ReconcileOneCases
  <2> HIDE DEF d, want
  <2>3. registered \in [Instances -> [Definitions -> Wants]]
    BY DEF TypeOK
  <2>4. registered'[i] = registered[i]
    BY <1>14, <2>2, <2>3
  <2> QED
    BY <1>14, <1>d, <2>1, <2>4 DEF ReconcileOne, TypeOK
<1>15. ASSUME NEW j \in Instances, NEW t \in Threads, j # i,
              ReconcileEnd(j, t) \/ ReconcileFails(j, t)
       PROVE  Quiet(i)
  <2>1. Return(j, t) \/ ReloadError(j, t)
    BY <1>15 DEF ReconcileEnd, ReconcileFails
  <2>2. /\ over'[i] = over[i] /\ registered'[i] = registered[i]
        /\ applied'[i] = applied[i] /\ broken'[i] = broken[i]
    BY <1>15 DEF ReconcileEnd, ReconcileFails, TypeOK
  <2> QED
    BY <1>15, <1>d, <2>1, <2>2
<1>16. CASE UNCHANGED vars
  BY <1>16 DEF vars, Quiet
<1> QED
  BY <1>1, <1>2, <1>3, <1>4, <1>5, <1>6, <1>7, <1>8, <1>9, <1>10, <1>11, <1>12,
     <1>13, <1>14, <1>15, <1>16
     DEF Next, WriteEnds, Resync, Listener, Reload, ApplySchedules

(* A schedule that was in force and is not any more has been left. *)
LEMMA LeftSince ==
    ASSUME NEW i, NEW d, NEW n \in Nat, NEW s, Was(i, d, n, s), Want(i, d, n) # s
    PROVE  Left(i, d, n, s)
<1>1. PICK u \in 0..n : Want(i, d, u) = s
  BY DEF Was
<1>2. u < n /\ n \in 0..n
  BY <1>1
<1> QED
  BY <1>1, <1>2 DEF Left

(* What was in force, or was left, stays so as overrides move forward. *)
LEMMA PastKept ==
    ASSUME TypeOK, TypeOK', VersionsCounted, NothingAhead, [Next]_vars,
           NEW i \in Instances, NEW d \in Definitions, NEW s
    PROVE  /\ Was(i, d, over[i][d], s) => Was(i, d, over[i][d], s)'
           /\ Left(i, d, over[i][d], s) => Left(i, d, over[i][d], s)'
<1>1. /\ over[i][d] \in Nat /\ over'[i][d] \in Nat /\ Version(d) \in Nat
      /\ over[i][d] <= Version(d)
  BY LogGrows, BoundsAssumption DEF TypeOK, NothingAhead
<1>2. over[i][d] <= over'[i][d]
  BY <1>1, OverSteps, OverFollows
<1>3. /\ 0..over[i][d] \subseteq 0..over'[i][d]
      /\ 0..over[i][d] \subseteq 0..Version(d)
  BY <1>1, <1>2
<1>4. \A v \in 0..Version(d) : Want(i, d, v)' = Want(i, d, v)
  BY LogGrows
<1> QED
  BY <1>3, <1>4 DEF Was, Left

(* The schedule s is outdated in the next state. *)
OutdatedNext(i, d, s) ==
    /\ \E u \in 0..over'[i][d] : Want(i, d, u)' = s
    /\ registered'[i][d] # s =>
         \E u, v \in 0..over'[i][d] : u < v /\ Want(i, d, u)' = s /\ Want(i, d, v)' # s

(* What is remembered stays outdated where it differs from what is registered:
   a periodic job is only replaced by the schedule remembered, or once that one
   was left. *)
LEMMA OutdatedKept ==
    ASSUME TypeOK, TypeOK', VersionsCounted, NothingAhead, [Next]_vars,
           NEW i \in Instances, NEW d \in Definitions, NEW s, Outdated(i, d, s),
           \/ registered'[i][d] \in {registered[i][d], s}
           \/ Left(i, d, over[i][d], s)
    PROVE  OutdatedNext(i, d, s)
<1>1. Was(i, d, over[i][d], s)'
  BY PastKept DEF Outdated
<1>2. registered'[i][d] # s => Left(i, d, over[i][d], s)'
  BY PastKept DEF Outdated
<1> QED
  BY <1>1, <1>2 DEF OutdatedNext, Was, Left

(* What an instance remembers of the schedules it applied stays outdated where
   River has something else registered. *)
LEMMA MemoryKept ==
    ASSUME TypeOK, TypeOK', VersionsCounted, NothingAhead, [Next]_vars,
           NEW i \in Instances, Scheduler(i), Memory(i)
    PROVE  Memory(i)'
<1>0. ASSUME NEW d \in Definitions, NEW s, Outdated(i, d, s),
             \/ registered'[i][d] \in {registered[i][d], s}
             \/ Left(i, d, over[i][d], s)
      PROVE  OutdatedNext(i, d, s)
  BY <1>0, OutdatedKept
<1> DEFINE Goal ==
      /\ \A d \in Definitions : OutdatedNext(i, d, applied'[i][d])
      /\ \A t \in Threads : th'[i][t].pc = "reconcile" =>
           /\ \A d \in Definitions : OutdatedNext(i, d, th'[i][t].next[d])
           /\ \A n \in 1..Len(Names) :
                th'[i][t].k <= n => th'[i][t].next[Names[n]] = applied'[i][Names[n]]
<1>a. SUFFICES Goal
  BY DEF Memory, Outdated, Was, Left, OutdatedNext
<1>b. /\ \A d \in Definitions : Outdated(i, d, applied[i][d])
      /\ \A t \in Threads : th[i][t].pc = "reconcile" =>
           /\ \A d \in Definitions : Outdated(i, d, th[i][t].next[d])
           /\ \A n \in 1..Len(Names) :
                th[i][t].k <= n => th[i][t].next[Names[n]] = applied[i][Names[n]]
  BY DEF Memory
<1>1. CASE Quiet(i)
  BY <1>0, <1>b, <1>1 DEF Quiet
<1>2. ASSUME NEW t \in Threads, ApplyOverride(i, t) \/ ReplaceOverrides(i, t)
      PROVE  Goal
  <2>1. UNCHANGED schedules
    BY <1>2 DEF ApplyOverride, ReplaceOverrides
  <2>2. /\ th'[i][t].pc = "lock"
        /\ \A u \in Threads : u # t => th'[i][u] = th[i][u]
    BY <1>2, OverrideSteps
  <2> QED
    BY <1>0, <1>b, <2>1, <2>2 DEF schedules
<1>3. ASSUME NEW t \in Threads, ReconcileBegin(i, t)
      PROVE  Goal
  <2> DEFINE q == [th[i][t] EXCEPT !.pc = "reconcile", !.k = 1, !.next = applied[i]]
  <2>1. q.next = applied[i]
    BY DEF TypeOK, Goroutines
  <2>2. Step(i, t, q) /\ UNCHANGED schedules
    BY <1>3 DEF ReconcileBegin
  <2> HIDE DEF q
  <2>3. /\ th'[i][t] = q
        /\ \A u \in Threads : u # t => th'[i][u] = th[i][u]
    BY <2>2, StepThread
  <2> QED
    BY <1>0, <1>b, <2>1, <2>2, <2>3 DEF schedules
<1>4. ASSUME NEW t \in Threads, ReconcileOne(i, t)
      PROVE  Goal
  <2> DEFINE r == th[i][t]
             q == th'[i][t]
             x == Names[r.k]
             w == Want(i, x, over[i][x])
  <2>0. /\ r.k \in 1..Len(Names) /\ r.pc = "reconcile" /\ x \in Definitions
        /\ \A u \in Threads : u # t => th'[i][u] = th[i][u]
        /\ q.k = r.k + 1
        /\ q.next[x] = w
        /\ \A e \in Definitions : e # x => q.next[e] = r.next[e]
        /\ \A e \in Definitions : e # x => registered'[i][e] = registered[i][e]
        /\ \/ registered'[i][x] = w
           \/ r.next[x] = w /\ registered'[i][x] = registered[i][x]
    BY <1>4, OneSteps
  <2>a. PICK d : d = x
    OBVIOUS
  <2>b. PICK want : want = w
    OBVIOUS
  <2>c. d = Names[r.k] /\ want = Want(i, d, over[i][d])
    BY <2>a, <2>b
  <2> HIDE DEF x, w
  <2>1. /\ r.k \in 1..Len(Names) /\ r.pc = "reconcile" /\ d \in Definitions
        /\ \A u \in Threads : u # t => th'[i][u] = th[i][u]
        /\ q.k = r.k + 1
        /\ q.next[d] = want
        /\ \A e \in Definitions : e # d => q.next[e] = r.next[e]
        /\ \A e \in Definitions : e # d => registered'[i][e] = registered[i][e]
        /\ \/ registered'[i][d] = want
           \/ r.next[d] = want /\ registered'[i][d] = registered[i][d]
    BY <2>0, <2>a, <2>b
  <2>2. applied' = applied /\ UNCHANGED <<log, over>>
    BY <1>4 DEF ReconcileOne
  <2>3. over[i][d] \in Nat
    BY <2>1, BoundsAssumption DEF TypeOK
  <2>4. \A u \in Threads : u # t => th'[i][u].pc # "reconcile"
    BY <2>1 DEF Scheduler, OneReconciles
  <2>5. ASSUME NEW s, Outdated(i, d, s) PROVE OutdatedNext(i, d, s)
    <3>1. CASE registered'[i][d] = registered[i][d] \/ want = s
      BY <1>0, <2>1, <2>5, <3>1
    <3>2. CASE want # s
      <4>1. Left(i, d, over[i][d], s)
        BY <2>c, <2>3, <2>5, <3>2, LeftSince DEF Outdated
      <4> QED
        BY <1>0, <2>1, <2>5, <4>1
    <3> QED
      BY <3>1, <3>2
  <2>6. OutdatedNext(i, d, want)
    <3>1. CASE registered'[i][d] = want
      <4>1. over[i][d] \in 0..over'[i][d] /\ Want(i, d, over[i][d]) = want
        BY <2>c, <2>2, <2>3
      <4>2. \A u : Want(i, d, u)' = Want(i, d, u)
        BY <2>2 DEF Want
      <4> QED
        BY <3>1, <4>1, <4>2 DEF OutdatedNext
    <3>2. CASE r.next[d] = want
      BY <1>b, <2>1, <2>5, <3>2
    <3> QED
      BY <2>1, <3>1, <3>2
  <2>7. ASSUME NEW e \in Definitions
        PROVE  OutdatedNext(i, e, applied'[i][e]) /\ OutdatedNext(i, e, q.next[e])
    <3>1. CASE e = d
      BY <1>b, <2>1, <2>2, <2>5, <2>6, <3>1
    <3>2. CASE e # d
      BY <1>0, <1>b, <2>1, <2>2, <3>2
    <3> QED
      BY <3>1, <3>2
  <2>8. ASSUME NEW n \in 1..Len(Names), q.k <= n
        PROVE  q.next[Names[n]] = applied'[i][Names[n]]
    <3>1. r.k <= n /\ n # r.k
      BY <2>1, <2>8, Naming
    <3>2. Names[n] \in Definitions /\ Names[n] # d
      BY <2>c, <2>1, <3>1, Naming
    <3> QED
      BY <1>b, <2>1, <2>2, <3>1, <3>2
  <2> HIDE DEF q
  <2> QED
    BY <2>4, <2>7, <2>8 DEF q
<1>5. ASSUME NEW t \in Threads, ReconcileEnd(i, t)
      PROVE  Goal
  <2>1. /\ th[i][t].pc = "reconcile"
        /\ applied'[i] = th[i][t].next /\ registered' = registered
    BY <1>5 DEF ReconcileEnd, TypeOK
  <2>2. \A u \in Threads : th'[i][u].pc # "reconcile"
    BY <1>5, <2>1, Returned DEF ReconcileEnd, Scheduler, OneReconciles
  <2> QED
    BY <1>0, <1>b, <2>1, <2>2
<1>6. ASSUME NEW t \in Threads, ReconcileFails(i, t)
      PROVE  Goal
  <2> DEFINE r == th[i][t]
  <2>a. PICK d : d = Names[r.k]
    OBVIOUS
  <2>1. /\ r.pc = "reconcile" /\ applied' = applied
        /\ Want(i, d, over[i][d]) # r.next[d]
        /\ registered' = [registered EXCEPT ![i][d] = NoSchedule]
        /\ r.k <= Len(Names)
    BY <1>6, <2>a DEF ReconcileFails
  <2>2. r.k \in 1..Len(Names) /\ d \in Definitions
    <3>1. r \in Goroutines
      BY DEF TypeOK
    <3>2. r.k \in 1..Len(Names)
      BY <2>1, <3>1, Naming DEF Scheduler, Tracked, Goroutines
    <3> QED
      BY <2>a, <3>2, Naming
  <2>3. over[i][d] \in Nat
    BY <2>2, BoundsAssumption DEF TypeOK
  <2>7. r.next[d] = applied[i][d]
    <3>1. r.k <= r.k
      BY <2>2, Naming
    <3> QED
      BY <1>b, <2>a, <2>1, <2>2, <3>1
  <2>4. Left(i, d, over[i][d], applied[i][d])
    BY <1>b, <2>1, <2>2, <2>3, <2>7, LeftSince DEF Outdated
  <2>5. \A u \in Threads : th'[i][u].pc # "reconcile"
    BY <1>6, <2>1, Returned DEF ReconcileFails, Scheduler, OneReconciles
  <2>6. \A e \in Definitions : e # d => registered'[i][e] = registered[i][e]
    BY <2>1, <2>2 DEF TypeOK
  <2> QED
    BY <1>0, <1>b, <2>1, <2>2, <2>4, <2>5, <2>6
<1>7. CASE Restart(i)
  <2>1. \A t \in Threads : th'[i][t].pc # "reconcile"
    <3>1. \A t \in Threads : th'[i][t] = Started[t]
      BY <1>7 DEF Restart, TypeOK
    <3> QED
      BY <3>1, StartedType
  <2>2. ASSUME NEW d \in Definitions PROVE OutdatedNext(i, d, applied'[i][d])
    <3>1. /\ over'[i][d] = Version(d) /\ Version(d) \in Nat
          /\ registered'[i][d] = applied'[i][d]
          /\ applied'[i][d] = Want(i, d, Version(d)) /\ log' = log
      BY <1>7, LogGrows DEF Restart, TypeOK
    <3>2. Want(i, d, Version(d))' = applied'[i][d] /\ Version(d)' = Version(d)
      BY <3>1 DEF Want, Version
    <3>3. \E u \in 0..over'[i][d] : Want(i, d, u)' = applied'[i][d]
      BY <3>1, <3>2 DEF Want, Version
    <3> QED
      BY <3>1, <3>3 DEF OutdatedNext
  <2> QED
    BY <2>1, <2>2
<1> QED
  BY <1>1, <1>2, <1>3, <1>4, <1>5, <1>6, <1>7, StepKinds

(* The invariant is inductive. *)
LEMMA NextInv == IInv /\ [Next]_vars => IInv'
<1> SUFFICES ASSUME IInv, [Next]_vars PROVE IInv'
  OBVIOUS
<1>1. TypeOK /\ VersionsCounted /\ NothingAhead
  BY DEF IInv
<1>2. TypeOK'
  BY TypeInductive
<1>3. VersionsCounted' /\ NothingAhead'
  BY <1>1, <1>2, LogGrows, AheadInductive
<1>5. ASSUME NEW i \in Instances PROVE Memory(i)'
  <2>1. Scheduler(i) /\ Memory(i)
    BY DEF IInv
  <2> QED
    BY <1>1, <1>2, <2>1, MemoryKept
<1>4. ASSUME NEW i \in Instances PROVE Scheduler(i)'
  <2>1. Scheduler(i)
    BY DEF IInv
  <2> QED
    BY <1>1, <2>1, StepKinds, QuietKeeps, OverrideKeeps, BeginKeeps, OneKeeps,
       EndKeeps, FailKeeps, RestartKeeps
<1> QED
  BY <1>2, <1>3, <1>4, <1>5 DEF IInv

-----------------------------------------------------------------------------

(* The invariant holds in every reachable state. *)
LEMMA Invariance == Spec => []IInv
  BY InitInv, NextInv, PTL DEF Spec

(* Every reachable state is well typed. *)
THEOREM TypeCorrect == Spec => []TypeOK
<1>1. IInv => TypeOK
  BY DEF IInv
<1> QED
  BY <1>1, Invariance, PTL

(* Whenever no goroutine of an instance is about to reconcile, River's periodic
   jobs are the schedules in force there: scheduler.reconcile loses no override
   that changes while it runs.  Where AddSafely failed, what is remembered
   differs from what should be, so that the next reconcile mends it, unless the
   schedule went back to an earlier one. *)
THEOREM SchedulesFollow == Spec => []SchedulesInForce
<1>1. IInv => SchedulesInForce
  <2> SUFFICES ASSUME IInv, NEW i \in Instances, Settled(i), NEW d \in Definitions,
                      registered[i][d] # Want(i, d, over[i][d]),
                      applied[i][d] = Want(i, d, over[i][d]) \/ d \notin broken[i]
               PROVE  d \in broken[i] /\ WentBack(i, d, over[i][d])
    BY DEF SchedulesInForce
  <2>1. PICK n \in 1..Len(Names) : Names[n] = d
    BY Naming
  <2>2. d \in broken[i]
    BY <2>1 DEF IInv, Scheduler, InLine, Settled
  <2>3. Left(i, d, over[i][d], applied[i][d])
    BY <2>2 DEF IInv, Memory, Outdated
  <2> QED
    BY <2>2, <2>3 DEF Left, WentBack
<1> QED
  BY <1>1, Invariance, PTL

(* The overrides of all instances implement FollowedVersions: whatever writes,
   notifications, reloads and restarts meet, what an instance holds only moves
   forward, to committed versions. *)
THEOREM OverridesFollowTable == Spec => OverridesFollow
<1>1. Init => Followed!Init
  BY DEF Init, Followed!Init, Version
<1>2. IInv /\ IInv' /\ [Next]_vars
         => [Followed!Next]_<<[d \in Definitions |-> Version(d)], over>>
  BY NextFollows DEF IInv, Followed!Next
<1> QED
  BY <1>1, <1>2, Invariance, PTL DEF Spec, OverridesFollow, Followed!Spec
=============================================================================
