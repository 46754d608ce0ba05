------------------------------ MODULE Settings ------------------------------
(***************************************************************************)
(* Runtime settings (modules/settings): values live in PostgreSQL with a   *)
(* version per row, every instance serves reads from its registry, and the *)
(* registries follow the table by three routes at once:                    *)
(*   - a write applies its own result after its transaction committed;     *)
(*   - the listener (Run, listen) reloads everything after LISTEN and then *)
(*     the one value each notification names;                              *)
(*   - the resync loop reloads everything from time to time.               *)
(* Each registry update is atomic (snapMu); each SQL statement is atomic;  *)
(* everything else interleaves.                                            *)
(*                                                                         *)
(* A slot is one row: a platform value (key) or an organisation's value    *)
(* (key, organisation).  A committed value is identified by its version,   *)
(* which never repeats in a slot; version 0 is no row.                     *)
(***************************************************************************)
EXTENDS Integers

CONSTANTS
    Instances,
    PlatformSlots,
    OrgSlots,
    MaxWrites, \* bound on committed writes
    MaxFaults  \* bound on disconnections, failed reads and restarts

ASSUME SlotsAssumption ==
    /\ PlatformSlots \cap OrgSlots = {}
    /\ PlatformSlots \cup OrgSlots # {} \* some setting is declared
ASSUME BoundsAssumption == MaxWrites \in Nat /\ MaxFaults \in Nat

Slots == PlatformSlots \cup OrgSlots
Threads == {"resync", "listener"}

VARIABLES
    db,        \* settings_values: the version of each slot's row
    gone,      \* organisation slots whose row went with its organisation
    cache,     \* Registry.live and Registry.orgs: the version each holds
    seq,       \* stored.seq of organisation values
    orgSeq,    \* Registry.orgSeq
    pending,   \* committed writes that have not applied their result yet
    listening, \* the dedicated connection is subscribed
    queue,     \* notifications delivered to it
    rl,        \* Reload and reloadKey in each of the instance's two loops
    missed,    \* history: slots with a notification a failed read spent
    writes,    \* committed writes so far
    faults     \* faults so far

vars == <<db, gone, cache, seq, orgSeq, pending, listening, queue, rl, missed,
          writes, faults>>
registry == <<cache, seq, orgSeq>>
channel == <<listening, queue>>

ReloadPCs == {"idle", "begin", "readValues", "replaceAll", "readOrgs",
              "replaceOrgs", "wait", "readKey", "apply"}
Reloads == [pc : ReloadPCs, since : Nat, loaded : [Slots -> Nat],
            slot : Slots]

TypeOK ==
    /\ db \in [Slots -> Nat]
    /\ gone \subseteq OrgSlots
    /\ cache \in [Instances -> [Slots -> Nat]]
    /\ seq \in [Instances -> [Slots -> Nat]]
    /\ orgSeq \in [Instances -> Nat]
    /\ pending \in [Instances -> SUBSET (Slots \X Nat)]
    /\ listening \in [Instances -> BOOLEAN]
    /\ queue \in [Instances -> SUBSET Slots]
    /\ rl \in [Instances -> [Threads -> Reloads]]
    /\ missed \in [Instances -> SUBSET Slots]
    /\ writes \in 0..MaxWrites
    /\ faults \in 0..MaxFaults

Nothing == [s \in Slots |-> 0]
AtRest == [pc |-> "idle", since |-> 0, loaded |-> Nothing,
           slot |-> CHOOSE s \in Slots : TRUE]

(* Every instance has run NewStore on an empty table. *)
Init ==
    /\ db = Nothing
    /\ gone = {}
    /\ cache = [i \in Instances |-> Nothing]
    /\ seq = [i \in Instances |-> Nothing]
    /\ orgSeq = [i \in Instances |-> 0]
    /\ pending = [i \in Instances |-> {}]
    /\ listening = [i \in Instances |-> FALSE]
    /\ queue = [i \in Instances |-> {}]
    /\ rl = [i \in Instances |-> [t \in Threads |-> AtRest]]
    /\ missed = [i \in Instances |-> {}]
    /\ writes = 0
    /\ faults = 0

(* What a SELECT returns. *)
RowVersion(s) == IF s \in gone THEN 0 ELSE db[s]

Step(i, t, r) == rl' = [rl EXCEPT ![i][t] = r]
Goto(i, t, p) == Step(i, t, [rl[i][t] EXCEPT !.pc = p])
Fault == faults < MaxFaults /\ faults' = faults + 1

-----------------------------------------------------------------------------
(* Writes *)

\* Faulty variant: the version is counted down.
CommitValueDown(s) ==
    /\ s \notin gone
    /\ writes < MaxWrites
    /\ writes' = writes + 1
    /\ db' = [db EXCEPT ![s] = @ - 1]
    /\ UNCHANGED queue

(* write's transaction: the version check under FOR UPDATE (or the unique
   index, for a first insert) lets exactly one caller of a version through;
   the update, the history row and the notification commit together.  A
   conflict, a failed statement and an unchanged value change nothing. *)
CommitValue(s) ==
    /\ s \notin gone
    /\ writes < MaxWrites
    /\ writes' = writes + 1
    /\ db' = [db EXCEPT ![s] = @ + 1]
    /\ queue' = [i \in Instances |->
                    IF listening[i] THEN queue[i] \cup {s} ELSE queue[i]]

Write(i, s) ==
    /\ CommitValue(s)
    /\ pending' = [pending EXCEPT ![i] = @ \cup {<<s, db[s] + 1>>}]
    /\ UNCHANGED <<gone, registry, listening, rl, missed, faults>>

(* The writer's connection is lost after the commit: it reports an error and
   applies nothing. *)
WriteUnreported(s) ==
    /\ CommitValue(s)
    /\ UNCHANGED <<gone, registry, listening, pending, rl, missed, faults>>

(* apply and applyOrg: keep a newer version; number organisation values. *)
ApplyTo(i, s, v) ==
    IF cache[i][s] > v
    THEN UNCHANGED registry
    ELSE /\ cache' = [cache EXCEPT ![i][s] = v]
         /\ IF s \in OrgSlots
            THEN /\ orgSeq' = [orgSeq EXCEPT ![i] = @ + 1]
                 /\ seq' = [seq EXCEPT ![i][s] = orgSeq[i] + 1]
            ELSE UNCHANGED <<orgSeq, seq>>

WriteApply(i, s, v) ==
    /\ <<s, v>> \in pending[i]
    /\ ApplyTo(i, s, v)
    /\ pending' = [pending EXCEPT ![i] = @ \ {<<s, v>>}]
    /\ UNCHANGED <<db, gone, channel, rl, missed, faults, writes>>

(* An organisation is purged: its rows are deleted by ON DELETE CASCADE, and
   no value can be written for it again. *)
PurgeOrg(s) ==
    /\ s \notin gone
    /\ gone' = gone \cup {s}
    /\ UNCHANGED <<db, registry, pending, channel, rl, missed, writes, faults>>

-----------------------------------------------------------------------------
(* Reload, in the resync loop and after LISTEN *)

ResyncTick(i) ==
    /\ rl[i]["resync"].pc = "idle"
    /\ Goto(i, "resync", "begin")
    /\ UNCHANGED <<db, gone, registry, pending, channel, missed, faults, writes>>

ReloadBegin(i, t) ==
    /\ rl[i][t].pc = "begin"
    /\ Step(i, t, [rl[i][t] EXCEPT !.pc = "readValues", !.since = orgSeq[i]])
    /\ UNCHANGED <<db, gone, registry, pending, channel, missed, faults, writes>>

ReadValues(i, t) ==
    /\ rl[i][t].pc = "readValues"
    /\ Step(i, t, [rl[i][t] EXCEPT !.pc = "replaceAll",
                                   !.loaded = [s \in Slots |->
                                       IF s \in PlatformSlots THEN db[s] ELSE 0]])
    /\ UNCHANGED <<db, gone, registry, pending, channel, missed, faults, writes>>

\* Faulty variant: a reload replaces whatever is there.
NewerNot(old, loaded) == loaded

(* replaceAll keeps any newer version already applied. *)
Newer(old, loaded) == IF old > loaded THEN old ELSE loaded

ReplaceAll(i, t) ==
    /\ rl[i][t].pc = "replaceAll"
    /\ cache' = [cache EXCEPT ![i] = [s \in Slots |->
                    IF s \in PlatformSlots
                    THEN Newer(cache[i][s], rl[i][t].loaded[s])
                    ELSE cache[i][s]]]
    /\ Step(i, t, [rl[i][t] EXCEPT !.pc = "readOrgs", !.loaded = Nothing])
    /\ UNCHANGED <<db, gone, seq, orgSeq, pending, channel, missed, faults, writes>>

ReadOrgs(i, t) ==
    /\ rl[i][t].pc = "readOrgs"
    /\ Step(i, t, [rl[i][t] EXCEPT !.pc = "replaceOrgs",
                                   !.loaded = [s \in Slots |->
                                       IF s \in OrgSlots THEN RowVersion(s) ELSE 0]])
    /\ UNCHANGED <<db, gone, registry, pending, channel, missed, faults, writes>>

\* Faulty variant: a value missing from the reload always stays.
OrgKeptMissing(i, s, r) == r.loaded[s] = 0 \/ cache[i][s] > r.loaded[s]

(* What replaceOrgs leaves in slot s: an already applied value that the reload
   misses stays only when it was numbered after the reload began, and a loaded
   one carries no number. *)
OrgKept(i, s, r) ==
    IF r.loaded[s] = 0 THEN seq[i][s] > r.since ELSE cache[i][s] > r.loaded[s]

ReplaceOrgs(i, t) ==
    /\ rl[i][t].pc = "replaceOrgs"
    /\ cache' = [cache EXCEPT ![i] = [s \in Slots |->
                    IF s \in PlatformSlots \/ OrgKept(i, s, rl[i][t])
                    THEN cache[i][s] ELSE rl[i][t].loaded[s]]]
    /\ seq' = [seq EXCEPT ![i] = [s \in Slots |->
                    IF s \in PlatformSlots \/ OrgKept(i, s, rl[i][t])
                    THEN seq[i][s] ELSE 0]]
    /\ Step(i, t, [AtRest EXCEPT !.pc = IF t = "listener" THEN "wait" ELSE "idle"])
    /\ UNCHANGED <<db, gone, orgSeq, pending, channel, missed, faults, writes>>

(* One of Reload's reads fails: the resync loop waits for its next tick,
   listen returns and its connection closes. *)
ReloadFails(i, t) ==
    /\ rl[i][t].pc \in {"readValues", "readOrgs"}
    /\ Fault
    /\ Step(i, t, AtRest)
    /\ IF t = "listener"
       THEN /\ listening' = [listening EXCEPT ![i] = FALSE]
            /\ queue' = [queue EXCEPT ![i] = {}]
       ELSE UNCHANGED channel
    /\ UNCHANGED <<db, gone, registry, pending, missed, writes>>

-----------------------------------------------------------------------------
(* The listener *)

\* Faulty variant: the listener waits without a reload after LISTEN.
ListenOnly(i) ==
    /\ rl[i]["listener"].pc = "idle"
    /\ listening' = [listening EXCEPT ![i] = TRUE]
    /\ queue' = [queue EXCEPT ![i] = {}]
    /\ Goto(i, "listener", "wait")
    /\ UNCHANGED <<db, gone, registry, pending, missed, faults, writes>>

Listen(i) ==
    /\ rl[i]["listener"].pc = "idle"
    /\ listening' = [listening EXCEPT ![i] = TRUE]
    /\ queue' = [queue EXCEPT ![i] = {}]
    /\ Goto(i, "listener", "begin")
    /\ UNCHANGED <<db, gone, registry, pending, missed, faults, writes>>

Notified(i, s) ==
    /\ rl[i]["listener"].pc = "wait"
    /\ s \in queue[i]
    /\ queue' = [queue EXCEPT ![i] = @ \ {s}]
    /\ Step(i, "listener", [rl[i]["listener"] EXCEPT !.pc = "readKey", !.slot = s])
    /\ UNCHANGED <<db, gone, registry, pending, listening, missed, faults, writes>>

(* reloadKey reads the row; a missing one is ignored. *)
ReadKey(i) ==
    LET r == rl[i]["listener"]
        found == RowVersion(r.slot) IN
    /\ r.pc = "readKey"
    /\ Step(i, "listener", [r EXCEPT !.pc = IF found = 0 THEN "wait" ELSE "apply",
                                     !.loaded = [Nothing EXCEPT ![r.slot] = found]])
    /\ UNCHANGED <<db, gone, registry, pending, channel, missed, faults, writes>>

(* The read fails: it is logged, and the notification is spent. *)
ReadKeyFails(i) ==
    /\ rl[i]["listener"].pc = "readKey"
    /\ Fault
    /\ Goto(i, "listener", "wait")
    /\ missed' = [missed EXCEPT ![i] = @ \cup {rl[i]["listener"].slot}]
    /\ UNCHANGED <<db, gone, registry, pending, channel, writes>>

ApplyKey(i) ==
    LET r == rl[i]["listener"] IN
    /\ r.pc = "apply"
    /\ ApplyTo(i, r.slot, r.loaded[r.slot])
    /\ Step(i, "listener", [AtRest EXCEPT !.pc = "wait"])
    /\ UNCHANGED <<db, gone, pending, channel, missed, faults, writes>>

(* The connection dies, with the notifications it holds; the listener learns
   of it when it next waits. *)
Disconnect(i) ==
    /\ listening[i]
    /\ Fault
    /\ listening' = [listening EXCEPT ![i] = FALSE]
    /\ queue' = [queue EXCEPT ![i] = {}]
    /\ UNCHANGED <<db, gone, registry, pending, rl, missed, writes>>

NoticeDisconnect(i) ==
    /\ rl[i]["listener"].pc = "wait"
    /\ ~listening[i]
    /\ Step(i, "listener", AtRest)
    /\ UNCHANGED <<db, gone, registry, pending, channel, missed, faults, writes>>

(* The instance restarts: NewStore reloads everything before it serves. *)
Restart(i) ==
    /\ Fault
    /\ cache' = [cache EXCEPT ![i] = [s \in Slots |-> RowVersion(s)]]
    /\ seq' = [seq EXCEPT ![i] = Nothing]
    /\ orgSeq' = [orgSeq EXCEPT ![i] = 0]
    /\ pending' = [pending EXCEPT ![i] = {}]
    /\ listening' = [listening EXCEPT ![i] = FALSE]
    /\ queue' = [queue EXCEPT ![i] = {}]
    /\ rl' = [rl EXCEPT ![i] = [t \in Threads |-> AtRest]]
    /\ missed' = [missed EXCEPT ![i] = {}]
    /\ UNCHANGED <<db, gone, writes>>

Reload(i, t) ==
    \/ ReloadBegin(i, t)
    \/ ReadValues(i, t) \/ ReplaceAll(i, t)
    \/ ReadOrgs(i, t) \/ ReplaceOrgs(i, t)

Resync(i) == ResyncTick(i) \/ Reload(i, "resync")

Listener(i) ==
    \/ Listen(i) \/ Reload(i, "listener")
    \/ \E s \in Slots : Notified(i, s)
    \/ ReadKey(i) \/ ApplyKey(i) \/ NoticeDisconnect(i)

Next ==
    \/ \E s \in Slots : WriteUnreported(s)
    \/ \E s \in OrgSlots : PurgeOrg(s)
    \/ \E i \in Instances :
         \/ \E s \in Slots : Write(i, s)
         \/ \E s \in Slots : \E v \in 1..MaxWrites : WriteApply(i, s, v)
         \/ Resync(i) \/ Listener(i)
         \/ \E t \in Threads : ReloadFails(i, t)
         \/ ReadKeyFails(i) \/ Disconnect(i) \/ Restart(i)

Spec == Init /\ [][Next]_vars

(* Goroutines that can run do run: the resync ticker keeps ticking and a
   reload that can read goes on. *)
Fairness == \A i \in Instances :
    /\ WF_vars(Resync(i))
    /\ WF_vars(Listener(i))
    /\ WF_vars(\E s \in Slots : \E v \in 1..MaxWrites : WriteApply(i, s, v))

FairSpec == Spec /\ Fairness

-----------------------------------------------------------------------------
(* Properties *)

(* "A late notification never overwrites a newer change" (apply), nor does a
   reload or a restart: the versions an instance serves only move forward, to
   committed ones, and only an organisation's value may be forgotten. *)
Followed == INSTANCE FollowedVersions WITH
    Replicas <- Instances, Rows <- Slots, Deletable <- OrgSlots,
    committed <- db, served <- cache
ValuesFollow == Followed!Spec

(* A listener that waits with no notification of a platform setting left
   serves the committed version: LISTEN comes before the reload, so no commit
   falls between the two. *)
WaitingIsCurrent ==
    \A i \in Instances, s \in PlatformSlots :
        /\ listening[i]
        /\ rl[i]["listener"].pc = "wait"
        /\ s \notin queue[i] \cup missed[i]
        => cache[i][s] = db[s]

(* After the last write, every instance ends up serving what the table holds,
   whatever notifications, connections and reads were lost on the way. *)
Converged == \A i \in Instances, s \in Slots : cache[i][s] = RowVersion(s)
EventuallyConverged == <>[]Converged

(* What replaceOrgs says it does: "A value missing from loaded is dropped,
   since its row was deleted with its organisation, unless it was applied
   while the reload ran." *)
DropsOnlyDeleted ==
    [][\A i \in Instances, s \in OrgSlots :
         ~Restart(i) /\ cache[i][s] > 0 /\ cache'[i][s] = 0 => s \in gone]_vars
=============================================================================
