-------------------------------- MODULE Jobs --------------------------------
(***************************************************************************)
(* Job definitions (modules/jobs): operators override the configuration of *)
(* a job in jobs_definitions, every instance follows that table, and every *)
(* working instance keeps River's periodic jobs in line with the schedules *)
(* in force.                                                               *)
(*                                                                         *)
(* Several goroutines of an instance change its overrides and then         *)
(* reconcile its schedules: the requests that write, the listener and the  *)
(* resync loop; the client reconciles once when it starts to work.  The    *)
(* overrides are replaced atomically (overridesMu); reconcile runs under a *)
(* mutex of its own, definition by definition, while overrides change.     *)
(*                                                                         *)
(* Of a configuration only the schedule in force is kept: NoSchedule for a *)
(* job that is disabled or on demand.                                      *)
(***************************************************************************)
EXTENDS Integers, Sequences

CONSTANTS
    Instances,
    Writers,    \* the calls of Update and Reset that an instance serves at once
    Names,      \* the definitions, in declaration order
    Schedules,
    NoSchedule,
    Default,    \* the schedule in force of every definition's code defaults
    Accepts,    \* the schedules an instance's release finds valid
    MaxWrites,  \* bound on committed changes
    MaxFaults   \* bound on lost connections, failed reads and calls, restarts

Definitions == {Names[k] : k \in DOMAIN Names}
Wants == Schedules \cup {NoSchedule}
Threads == Writers \cup {"client", "listener", "resync"}

ASSUME NamesAssumption ==
    /\ Names \in Seq(STRING) /\ Names # <<>> \* some job is declared
    /\ \A j, k \in DOMAIN Names : Names[j] = Names[k] => j = k
ASSUME WritersAssumption == Writers \cap {"client", "listener", "resync"} = {}
ASSUME SchedulesAssumption ==
    /\ NoSchedule \notin Schedules
    /\ Default \in [Definitions -> Wants]
    /\ Accepts \in [Instances -> SUBSET Schedules]
ASSUME BoundsAssumption == MaxWrites \in Nat /\ MaxFaults \in Nat

VARIABLES
    log,       \* jobs_definitions: the schedule each version of a row asked for
    over,      \* Definitions.overrides: the version each instance holds
    registered,\* River's periodic jobs, by definition
    applied,   \* scheduler.applied
    th,        \* every goroutine of every instance; full while Reload reconciles
    listening, \* the dedicated connection is subscribed
    queue,     \* notifications delivered to it
    broken,    \* history: definitions a failed reconcile left out of line
    writes, faults

vars == <<log, over, registered, applied, th, listening, queue, broken, writes, faults>>
schedules == <<registered, applied, broken>>
channel == <<listening, queue>>

PCs == {"idle", "wait", "read", "replace", "readOne", "apply", "lock", "reconcile"}
Goroutines == [pc : PCs, full : BOOLEAN, d : Definitions,
               loaded : [Definitions -> 0..MaxWrites], k : 0..(Len(Names) + 1),
               next : [Definitions -> Wants]]
AtRest == [pc |-> "idle", full |-> FALSE, d |-> Names[1],
           loaded |-> [d \in Definitions |-> 0], k |-> 0, next |-> Default]

TypeOK ==
    /\ log \in [Definitions -> Seq(Wants)]
    /\ over \in [Instances -> [Definitions -> 0..MaxWrites]]
    /\ registered \in [Instances -> [Definitions -> Wants]]
    /\ applied \in [Instances -> [Definitions -> Wants]]
    /\ th \in [Instances -> [Threads -> Goroutines]]
    /\ listening \in [Instances -> BOOLEAN]
    /\ queue \in [Instances -> SUBSET Definitions]
    /\ broken \in [Instances -> SUBSET Definitions]
    /\ writes \in 0..MaxWrites
    /\ faults \in 0..MaxFaults

(* NewManager has returned: the client is about to apply the schedules again
   (Client.Run), the listener to connect. *)
Started == [t \in Threads |-> IF t = "client" THEN [AtRest EXCEPT !.pc = "lock"] ELSE AtRest]

(* Every instance has run NewManager on an empty table. *)
Init ==
    /\ log = [d \in Definitions |-> <<>>]
    /\ over = [i \in Instances |-> [d \in Definitions |-> 0]]
    /\ registered = [i \in Instances |-> Default]
    /\ applied = [i \in Instances |-> Default]
    /\ th = [i \in Instances |-> Started]
    /\ listening = [i \in Instances |-> FALSE]
    /\ queue = [i \in Instances |-> {}]
    /\ broken = [i \in Instances |-> {}]
    /\ writes = 0
    /\ faults = 0

Version(d) == Len(log[d])

(* effective, and checked: an override that the instance's release finds
   invalid leaves the code defaults in force. *)
Want(i, d, v) ==
    IF v = 0 \/ (log[d][v] # NoSchedule /\ log[d][v] \notin Accepts[i])
    THEN Default[d] ELSE log[d][v]

Step(i, t, r) == th' = [th EXCEPT ![i][t] = r]
Fault == faults < MaxFaults /\ faults' = faults + 1

-----------------------------------------------------------------------------
(* Changes *)

(* The transaction of write, for Update and Reset: the version check under FOR
   UPDATE (or the unique index, for a first insert) lets one caller of a
   version through; the row, its history and the notification commit together.
   A refused or unchanged configuration changes nothing. *)
CommitChange(d, w) ==
    /\ writes < MaxWrites
    /\ writes' = writes + 1
    /\ log' = [log EXCEPT ![d] = Append(@, w)]
    /\ queue' = [i \in Instances |->
                    IF listening[i] THEN queue[i] \cup {d} ELSE queue[i]]

\* Faulty variant: the version the update returned is counted up again.
WriteAhead(i, t, d, w) ==
    /\ th[i][t].pc = "idle"
    /\ w \in Accepts[i] \cup {NoSchedule, Default[d]}
    /\ CommitChange(d, w)
    /\ Step(i, t, [AtRest EXCEPT !.pc = "apply", !.d = d,
                                 !.loaded[d] = Version(d) + 2])
    /\ UNCHANGED <<over, schedules, listening, faults>>

Write(i, t, d, w) ==
    /\ th[i][t].pc = "idle"
    /\ w \in Accepts[i] \cup {NoSchedule, Default[d]}
    /\ CommitChange(d, w)
    /\ Step(i, t, [AtRest EXCEPT !.pc = "apply", !.d = d,
                                 !.loaded[d] = Version(d) + 1])
    /\ UNCHANGED <<over, schedules, listening, faults>>

(* The commit's answer is lost, or an instance of another release, which this
   model does not follow, made the change. *)
WriteElsewhere(d, w) ==
    /\ CommitChange(d, w)
    /\ UNCHANGED <<over, schedules, listening, th, faults>>

-----------------------------------------------------------------------------
(* Overrides *)

\* Faulty variant: a reload replaces what was applied since it read.
NewerNot(old, loaded) == loaded

(* replaceOverrides and applyOverride keep a newer version. *)
Newer(old, loaded) == IF old > loaded THEN old ELSE loaded

(* applyOverride, for a write and for a notification. *)
ApplyOverride(i, t) ==
    LET d == th[i][t].d IN
    /\ th[i][t].pc = "apply"
    /\ over' = [over EXCEPT ![i][d] = Newer(@, th[i][t].loaded[d])]
    /\ Step(i, t, [AtRest EXCEPT !.pc = "lock"])
    /\ UNCHANGED <<log, schedules, channel, writes, faults>>

(* Reload: selectDefinitions, and then replaceOverrides. *)
SelectDefinitions(i, t) ==
    /\ th[i][t].pc = "read"
    /\ Step(i, t, [AtRest EXCEPT !.pc = "replace",
                                 !.loaded = [d \in Definitions |-> Version(d)]])
    /\ UNCHANGED <<log, over, schedules, channel, writes, faults>>

ReplaceOverrides(i, t) ==
    /\ th[i][t].pc = "replace"
    /\ over' = [over EXCEPT ![i] = [d \in Definitions |->
                    Newer(over[i][d], th[i][t].loaded[d])]]
    /\ Step(i, t, [AtRest EXCEPT !.pc = "lock", !.full = TRUE])
    /\ UNCHANGED <<log, schedules, channel, writes, faults>>

-----------------------------------------------------------------------------
(* applySchedules: scheduler.reconcile *)

\* Faulty variant: reconcile does not take the mutex.
MutexFreeAlways(i) == TRUE

MutexFree(i) == \A t \in Threads : th[i][t].pc # "reconcile"

ReconcileBegin(i, t) ==
    /\ th[i][t].pc = "lock"
    /\ MutexFree(i)
    /\ Step(i, t, [th[i][t] EXCEPT !.pc = "reconcile", !.k = 1, !.next = applied[i]])
    /\ UNCHANGED <<log, over, schedules, channel, writes, faults>>

(* One definition: its periodic job is removed, and added with the schedule in
   force now, if that is not the one applied before. *)
ReconcileOne(i, t) ==
    LET r == th[i][t]
        d == Names[r.k]
        want == Want(i, d, over[i][d]) IN
    /\ r.pc = "reconcile" /\ r.k <= Len(Names)
    /\ IF r.next[d] = want
       THEN /\ Step(i, t, [r EXCEPT !.k = @ + 1])
            /\ UNCHANGED registered
       ELSE /\ Step(i, t, [r EXCEPT !.k = @ + 1, !.next[d] = want])
            /\ registered' = [registered EXCEPT ![i][d] = want]
    /\ broken' = [broken EXCEPT ![i] =
                    IF registered'[i][d] = want THEN @ \ {d} ELSE @]
    /\ UNCHANGED <<log, over, applied, channel, writes, faults>>

(* What the goroutine does after Reload or reloadDefinition returned. *)
Return(i, t) ==
    Step(i, t, [AtRest EXCEPT !.pc = IF t = "listener" THEN "wait" ELSE "idle"])

(* listen returns, and its connection closes. *)
Hangup(i) ==
    /\ Step(i, "listener", AtRest)
    /\ listening' = [listening EXCEPT ![i] = FALSE]
    /\ queue' = [queue EXCEPT ![i] = {}]

(* A Reload failed. *)
ReloadError(i, t) ==
    IF t = "listener" THEN Hangup(i) ELSE Return(i, t) /\ UNCHANGED channel

ReconcileEnd(i, t) ==
    /\ th[i][t].pc = "reconcile" /\ th[i][t].k > Len(Names)
    /\ applied' = [applied EXCEPT ![i] = th[i][t].next]
    /\ Return(i, t)
    /\ UNCHANGED <<log, over, registered, broken, channel, writes, faults>>

\* Faulty variant: what was about to be added is remembered as applied.
ReconcileFailsRemembers(i, t) ==
    LET r == th[i][t]
        d == Names[r.k]
        want == Want(i, d, over[i][d]) IN
    /\ t # "client" /\ r.pc = "reconcile" /\ r.k <= Len(Names)
    /\ want \notin {NoSchedule, r.next[d]}
    /\ Fault
    /\ registered' = [registered EXCEPT ![i][d] = NoSchedule]
    /\ applied' = [applied EXCEPT ![i] = [r.next EXCEPT ![d] = want]]
    /\ broken' = [broken EXCEPT ![i] =
                    {e \in Definitions : registered'[i][e] # Want(i, e, over[i][e])}]
    /\ IF r.full THEN ReloadError(i, t) ELSE Return(i, t) /\ UNCHANGED channel
    /\ UNCHANGED <<log, over, writes>>

(* AddSafely refuses a periodic job that was just removed: reconcile returns,
   and nothing it did is remembered in applied.  The listener's first reload
   ends its connection; everyone else logs the error, but for the client, whose
   Run then returns and ends the process (Restart). *)
ReconcileFails(i, t) ==
    LET r == th[i][t]
        d == Names[r.k]
        want == Want(i, d, over[i][d]) IN
    /\ t # "client" /\ r.pc = "reconcile" /\ r.k <= Len(Names)
    /\ want \notin {NoSchedule, r.next[d]}
    /\ Fault
    /\ registered' = [registered EXCEPT ![i][d] = NoSchedule]
    /\ broken' = [broken EXCEPT ![i] =
                    {e \in Definitions : \/ registered'[i][e] # applied[i][e]
                                         \/ registered'[i][e] # Want(i, e, over[i][e])}]
    /\ IF r.full THEN ReloadError(i, t) ELSE Return(i, t) /\ UNCHANGED channel
    /\ UNCHANGED <<log, over, applied, writes>>

-----------------------------------------------------------------------------
(* The resync loop and the listener *)

ResyncTick(i) ==
    /\ th[i]["resync"].pc = "idle"
    /\ Step(i, "resync", [AtRest EXCEPT !.pc = "read"])
    /\ UNCHANGED <<log, over, schedules, channel, writes, faults>>

Listen(i) ==
    /\ th[i]["listener"].pc = "idle"
    /\ listening' = [listening EXCEPT ![i] = TRUE]
    /\ Step(i, "listener", [AtRest EXCEPT !.pc = "read"])
    /\ UNCHANGED <<log, over, schedules, queue, writes, faults>>

Notified(i, d) ==
    /\ th[i]["listener"].pc = "wait"
    /\ d \in queue[i]
    /\ queue' = [queue EXCEPT ![i] = @ \ {d}]
    /\ Step(i, "listener", [AtRest EXCEPT !.pc = "readOne", !.d = d])
    /\ UNCHANGED <<log, over, schedules, listening, writes, faults>>

(* reloadDefinition *)
SelectDefinition(i) ==
    LET r == th[i]["listener"] IN
    /\ r.pc = "readOne"
    /\ Step(i, "listener", [r EXCEPT !.pc = "apply", !.loaded[r.d] = Version(r.d)])
    /\ UNCHANGED <<log, over, schedules, channel, writes, faults>>

(* A read fails: a Reload ends, a notification is spent. *)
ReadFails(i, t) ==
    /\ th[i][t].pc \in {"read", "readOne"}
    /\ Fault
    /\ IF th[i][t].pc = "read" THEN ReloadError(i, t)
                               ELSE Return(i, t) /\ UNCHANGED channel
    /\ UNCHANGED <<log, over, schedules, writes>>

(* The connection dies with the notifications it holds; the listener learns of
   it when it next waits. *)
Disconnect(i) ==
    /\ listening[i]
    /\ Fault
    /\ listening' = [listening EXCEPT ![i] = FALSE]
    /\ queue' = [queue EXCEPT ![i] = {}]
    /\ UNCHANGED <<log, over, schedules, th, writes>>

NoticeDisconnect(i) ==
    /\ th[i]["listener"].pc = "wait"
    /\ ~listening[i]
    /\ Hangup(i)
    /\ UNCHANGED <<log, over, schedules, writes, faults>>

(* The process ends, of itself or because the client could not apply the
   schedules, and starts again: NewManager reloads before anything else runs,
   into a client without periodic jobs.  If it fails the process ends and starts
   once more. *)
Restart(i) ==
    LET wants == [d \in Definitions |-> Want(i, d, Version(d))] IN
    /\ Fault
    /\ over' = [over EXCEPT ![i] = [d \in Definitions |-> Version(d)]]
    /\ registered' = [registered EXCEPT ![i] = wants]
    /\ applied' = [applied EXCEPT ![i] = wants]
    /\ broken' = [broken EXCEPT ![i] = {}]
    /\ th' = [th EXCEPT ![i] = Started]
    /\ listening' = [listening EXCEPT ![i] = FALSE]
    /\ queue' = [queue EXCEPT ![i] = {}]
    /\ UNCHANGED <<log, writes>>

-----------------------------------------------------------------------------
ApplySchedules(i, t) == ReconcileBegin(i, t) \/ ReconcileOne(i, t) \/ ReconcileEnd(i, t)

Reload(i, t) ==
    SelectDefinitions(i, t) \/ ReplaceOverrides(i, t) \/ ApplySchedules(i, t)

WriteEnds(i, t) == ApplyOverride(i, t) \/ ApplySchedules(i, t)

Resync(i) == ResyncTick(i) \/ Reload(i, "resync")

Listener(i) ==
    \/ Listen(i) \/ NoticeDisconnect(i)
    \/ \E d \in Definitions : Notified(i, d)
    \/ SelectDefinition(i) \/ ApplyOverride(i, "listener")
    \/ Reload(i, "listener")

Next ==
    \/ \E d \in Definitions, w \in Wants :
         \/ \E i \in Instances, t \in Writers : Write(i, t, d, w)
         \/ WriteElsewhere(d, w)
    \/ \E i \in Instances :
         \/ \E t \in Writers : WriteEnds(i, t)
         \/ ApplySchedules(i, "client") \/ Resync(i) \/ Listener(i)
         \/ \E t \in Threads : ReadFails(i, t) \/ ReconcileFails(i, t)
         \/ Disconnect(i) \/ Restart(i)

Spec == Init /\ [][Next]_vars

(* Goroutines that can run do run, and the resync ticker keeps ticking. *)
FairSpec ==
    /\ Spec
    /\ \A i \in Instances :
         /\ \A t \in Writers : WF_vars(WriteEnds(i, t))
         /\ WF_vars(ApplySchedules(i, "client")) /\ WF_vars(Resync(i)) /\ WF_vars(Listener(i))

-----------------------------------------------------------------------------
(* Properties *)

(* What the instances promise of the overrides they hold: they only move
   forward, to committed versions, whatever reloads, notifications and writes
   meet on the way (replaceOverrides "keeping any newer version already
   applied"). *)
Followed == INSTANCE FollowedVersions WITH
    Replicas <- Instances, Rows <- Definitions, Deletable <- {},
    committed <- [d \in Definitions |-> Version(d)], served <- over
OverridesFollow == Followed!Spec

(* No goroutine of i has overrides to apply schedules for. *)
Settled(i) == \A t \in Threads : th[i][t].pc \notin {"lock", "reconcile"}

(* Up to version n, d's schedule was another one in between. *)
WentBack(i, d, n) ==
    \E u, v \in 0..n : u < v /\ Want(i, d, u) = Want(i, d, n) /\ Want(i, d, v) # Want(i, d, n)

(* River's periodic jobs are the schedules in force whenever no goroutine is
   about to reconcile: overrides that change while another goroutine
   reconciles are never left unapplied.  A failed reconcile may leave
   definitions out of line, but the next one mends them, as what is remembered
   (applied) is not what they should be: unless the schedule meanwhile went back
   to what it was before. *)
SchedulesInForce ==
    \A i \in Instances : Settled(i) =>
        \A d \in Definitions :
            LET want == Want(i, d, over[i][d]) IN
            \/ registered[i][d] = want
            \/ d \in broken[i] /\ (applied[i][d] # want \/ WentBack(i, d, over[i][d]))

(* After the last change, every instance schedules what the table asks for,
   whatever notifications, connections and reads were lost on the way, and
   whatever reconcile failed: only a definition whose schedule went back may be
   left out of line by that. *)
EventuallyScheduled ==
    <>[](\A i \in Instances : \A d \in Definitions :
            \/ registered[i][d] = Want(i, d, Version(d))
            \/ d \in broken[i] /\ WentBack(i, d, Version(d)))
=============================================================================
