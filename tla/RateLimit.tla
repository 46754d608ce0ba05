----------------------------- MODULE RateLimit -----------------------------
(***************************************************************************)
(* Rate limits shared in PostgreSQL (modules/ratelimitpg): one key of one  *)
(* limiter, whose row holds the theoretical arrival time (tat) of GCRA,    *)
(* and the instances that take from it.  A request passes the instance's   *)
(* local pre-check, then one statement decides it; when the statement      *)
(* fails or times out the instance's fallback limiter decides.  The        *)
(* statement compares with the time it started at, and is applied later.   *)
(*                                                                         *)
(* The two in-memory limiters (ratelimit.Limiter on x/time/rate) are token *)
(* buckets of the same form: an arrival time that is at most now is a full *)
(* bucket.  They are modelled below their capacity of keys, where nothing  *)
(* is evicted, and take each request at the time it reaches them.          *)
(*                                                                         *)
(* The two sides count time differently.  Memory refills at PerSecond, so  *)
(* it works on the ticks of now; the row works in whole microseconds, on   *)
(* an interval truncated to them.  What is in microseconds says so.        *)
(***************************************************************************)
EXTENDS Integers, FiniteSets

CONSTANTS
    Instances,
    Requests,
    Limits,   \* limits the setting may have: 1 / PerSecond in ticks, and burst
    Micro,    \* ticks in a microsecond
    MaxNow,   \* bound on the clock
    MaxEvents \* bound on limit changes, resets and failed statements

ASSUME LimitsAssumption ==
    Limits \subseteq [every : Nat \ {0}, burst : Nat \ {0}]
ASSUME MicroAssumption == Micro \in Nat \ {0}
ASSUME BoundsAssumption == MaxNow \in Nat /\ MaxEvents \in Nat

VARIABLES
    now,      \* the time, in ticks
    limit,    \* the limiter's limit
    present,  \* the key has a row
    tat,      \* the row's tat in microseconds; what is left of it without a row
    sweep,    \* the running DeleteExpired statement has selected the row
    mem,      \* the in-memory limiters of each instance
    pc,       \* where each request is in Take
    inst,     \* the instance it is on
    lim,      \* the limit it read
    gen,      \* the in-memory limiters it looked up
    at,       \* statement_timestamp() of its statement, in microseconds
    seen,     \* the row in its statement's snapshot
    retry,    \* the RetryAfter the row refused it with, in microseconds
    events,
    entry,    \* history: the time each request passed the pre-check
    spent,    \* history: intervals taken from the row since the epoch began
    before,   \* history: spent before each request was allowed
    epoch,    \* history: how often the budget was discarded
    era       \* history: the epoch each request was allowed in

vars == <<now, limit, present, tat, sweep, mem, pc, inst, lim, gen, at, seen,
          retry, events, entry, spent, before, epoch, era>>
row == <<present, tat, sweep>>
history == <<spent, before, epoch, era>>
local == <<inst, lim, gen, entry, at, seen, retry>>

Later(a, b) == IF a > b THEN a ELSE b

(* gcra: the row's interval and tolerance in whole microseconds, at least
   one. *)
Interval(l) == Later(l.every \div Micro, 1)
Tolerance(l) == Interval(l) * l.burst

(* statement_timestamp() has the resolution of timestamptz. *)
Clock == now \div Micro

(* The arrival time after a request at t, and whether a bucket that gets a
   token every interval lets it through. *)
Arrival(a, t, interval) == Later(a, t) + interval
Admits(a, t, interval, tolerance) == Arrival(a, t, interval) - t <= tolerance

PCs == {"idle", "begin", "take", "fallback", "allowed", "refused",
        "refusedLocally", "allowedInMemory", "refusedInMemory"}
NoRow == -1
Memory == [limit : Limits, gen : Nat, local : Nat, fallback : Nat]
Fresh(l, g) == [limit |-> l, gen |-> g, local |-> 0, fallback |-> 0]

TypeOK ==
    /\ now \in Nat
    /\ limit \in Limits
    /\ present \in BOOLEAN /\ sweep \in BOOLEAN
    /\ tat \in Nat
    /\ mem \in [Instances -> Memory]
    /\ pc \in [Requests -> PCs]
    /\ inst \in [Requests -> Instances]
    /\ lim \in [Requests -> Limits]
    /\ gen \in [Requests -> Nat]
    /\ at \in [Requests -> Nat]
    /\ seen \in [Requests -> Nat \cup {NoRow}]
    /\ retry \in [Requests -> Nat]
    /\ events \in Nat
    /\ entry \in [Requests -> Nat]
    /\ spent \in Nat /\ epoch \in Nat
    /\ before \in [Requests -> Nat]
    /\ era \in [Requests -> Nat]

Init ==
    /\ now = 0
    /\ limit \in Limits
    /\ present = FALSE /\ sweep = FALSE
    /\ tat = 0
    /\ mem = [i \in Instances |-> Fresh(limit, 0)]
    /\ pc = [r \in Requests |-> "idle"]
    /\ inst \in [Requests -> Instances]
    /\ lim = [r \in Requests |-> limit]
    /\ gen = [r \in Requests |-> 0]
    /\ at = [r \in Requests |-> 0]
    /\ seen = [r \in Requests |-> NoRow]
    /\ retry = [r \in Requests |-> 0]
    /\ events = 0
    /\ entry = [r \in Requests |-> 0]
    /\ spent = 0 /\ epoch = 0
    /\ before = [r \in Requests |-> 0]
    /\ era = [r \in Requests |-> 0]

Goto(r, p) == pc' = [pc EXCEPT ![r] = p]
Event == events < MaxEvents /\ events' = events + 1

-----------------------------------------------------------------------------
(* Take *)

(* memory: the limiters of the request's limit, rebuilt when it changed. *)
MemoryFor(i, l) ==
    IF mem[i].limit = l THEN mem[i] ELSE Fresh(l, mem[i].gen + 1)

\* Faulty variant: the pre-check has the limit's own burst.
PrecheckAdmitsOneBurst(r) ==
    Admits(MemoryFor(inst[r], limit).local, now, limit.every,
           limit.burst * limit.every)

WithMemory(m, loc, fallback) ==
    [limit |-> m.limit, gen |-> m.gen, local |-> loc, fallback |-> fallback]

(* The local pre-check has twice the burst, and PerSecond as it is. *)
PrecheckAdmits(r) ==
    Admits(MemoryFor(inst[r], limit).local, now, limit.every,
           2 * limit.burst * limit.every)

PrecheckPasses(r) ==
    LET m == MemoryFor(inst[r], limit) IN
    /\ pc[r] = "idle"
    /\ PrecheckAdmits(r)
    /\ mem' = [mem EXCEPT ![inst[r]] =
                 WithMemory(m, Arrival(m.local, now, limit.every), m.fallback)]
    /\ lim' = [lim EXCEPT ![r] = limit]
    /\ gen' = [gen EXCEPT ![r] = m.gen]
    /\ entry' = [entry EXCEPT ![r] = now]
    /\ Goto(r, "begin")
    /\ UNCHANGED <<now, limit, row, inst, at, seen, retry, events, history>>

PrecheckRefuses(r) ==
    /\ pc[r] = "idle"
    /\ ~PrecheckAdmits(r)
    /\ mem' = [mem EXCEPT ![inst[r]] = MemoryFor(inst[r], limit)]
    /\ lim' = [lim EXCEPT ![r] = limit]
    /\ Goto(r, "refusedLocally")
    /\ UNCHANGED <<now, limit, row, inst, gen, entry, at, seen, retry, events,
                   history>>

(* takeSQL starts: its clock and its snapshot are those of now. *)
TakeBegins(r) ==
    /\ pc[r] = "begin"
    /\ at' = [at EXCEPT ![r] = Clock]
    /\ seen' = [seen EXCEPT ![r] = IF present THEN tat ELSE NoRow]
    /\ Goto(r, "take")
    /\ UNCHANGED <<now, limit, row, mem, inst, lim, gen, entry, retry, events,
                   history>>

\* Faulty variant: the request's own interval is not counted.
RowAdmitsOneMore(r) == present => Later(tat, at[r]) - at[r] <= Tolerance(lim[r])

(* takeSQL: a new key is inserted, an existing one updated when it admits the
   request. *)
RowAdmits(r) ==
    present => Admits(tat, at[r], Interval(lim[r]), Tolerance(lim[r]))

TakeFromRow(r) ==
    /\ present' = TRUE
    /\ tat' = IF present THEN Arrival(tat, at[r], Interval(lim[r]))
              ELSE at[r] + Interval(lim[r])
    /\ before' = [before EXCEPT ![r] = spent]
    /\ spent' = spent + Interval(lim[r])
    /\ era' = [era EXCEPT ![r] = epoch]
    /\ UNCHANGED <<sweep, epoch>>

(* The statement is over, and its snapshot with it. *)
TakeEnds(r, p) ==
    /\ pc[r] = "take"
    /\ Goto(r, p)
    /\ seen' = [seen EXCEPT ![r] = NoRow]

TakeAllows(r) ==
    /\ TakeEnds(r, "allowed")
    /\ RowAdmits(r)
    /\ TakeFromRow(r)
    /\ UNCHANGED <<now, limit, mem, inst, lim, gen, entry, at, retry, events>>

\* Faulty variant: the client is told to wait until the bucket is full.
RetryAfterFull(old, t, l) ==
    IF old = NoRow THEN Interval(l) ELSE Later(old - t, 1)

\* Faulty variant: no lower bound for a row that changed since the snapshot.
RetryAfterUnclamped(old, t, l) ==
    IF old = NoRow THEN Interval(l)
    ELSE Arrival(old, t, Interval(l)) - t - Tolerance(l)

(* retryAfter, from the snapshot's row. *)
RetryAfter(old, t, l) ==
    IF old = NoRow THEN Interval(l)
    ELSE Later(Arrival(old, t, Interval(l)) - t - Tolerance(l), 1)

TakeRefuses(r) ==
    /\ TakeEnds(r, "refused")
    /\ ~RowAdmits(r)
    /\ retry' = [retry EXCEPT ![r] = RetryAfter(seen[r], at[r], lim[r])]
    /\ UNCHANGED <<now, limit, row, mem, inst, lim, gen, entry, at, events,
                   history>>

(* The statement fails or outlives DecisionTimeout, applied or not.  (One that
   is applied after the instance gave up counts as noticed late.) *)
TakeFails(r) ==
    /\ TakeEnds(r, "fallback")
    /\ Event
    /\ \/ UNCHANGED <<row, history>>
       \/ RowAdmits(r) /\ TakeFromRow(r)
    /\ UNCHANGED <<now, limit, mem, inst, lim, gen, entry, at, retry>>

(* The fallback limiter looked up before the statement has the same limit, in
   ticks like the pre-check.  If the limiters were rebuilt since, it is no
   longer the instance's: its state is not followed, and it may say either. *)
Fallback(r) ==
    LET m == mem[inst[r]]
        current == m.gen = gen[r]
        every == lim[r].every
        admits == Admits(m.fallback, now, every, lim[r].burst * every)
    IN
    /\ pc[r] = "fallback"
    /\ \/ /\ current => admits
          /\ mem' = IF current
                    THEN [mem EXCEPT ![inst[r]] =
                            WithMemory(m, m.local, Arrival(m.fallback, now, every))]
                    ELSE mem
          /\ Goto(r, "allowedInMemory")
       \/ /\ current => ~admits
          /\ UNCHANGED mem
          /\ Goto(r, "refusedInMemory")
    /\ UNCHANGED <<now, limit, row, local, events, history>>

-----------------------------------------------------------------------------
(* Maintenance *)

InFlight == {r \in Requests : pc[r] = "take"}

(* Deleting the row discards what it still owed: the budget starts afresh
   unless tat had passed for every statement that may still be applied. *)
DeleteRow ==
    LET full == tat <= Clock /\ \A r \in InFlight : tat <= at[r] IN
    /\ present' = FALSE
    /\ sweep' = FALSE
    /\ tat' = IF full THEN tat ELSE 0
    /\ epoch' = IF full THEN epoch ELSE epoch + 1
    /\ spent' = IF full THEN spent ELSE 0
    /\ UNCHANGED <<before, era>>

(* deleteExpiredSQL selects the row in its snapshot, ... *)
DeleteExpiredSelect ==
    /\ present
    /\ ~sweep
    /\ tat < Clock
    /\ sweep' = TRUE
    /\ UNCHANGED <<now, limit, present, tat, mem, pc, local, events, history>>

(* ... and deletes it by its key, in whatever version it has then. *)
DeleteExpiredCommit ==
    /\ sweep
    /\ DeleteRow
    /\ UNCHANGED <<now, limit, mem, pc, local, events>>

DeleteExpiredFails ==
    /\ sweep
    /\ sweep' = FALSE
    /\ UNCHANGED <<now, limit, present, tat, mem, pc, local, events, history>>

(* An operator unblocks the client. *)
Reset ==
    /\ present
    /\ Event
    /\ DeleteRow
    /\ UNCHANGED <<now, limit, mem, pc, local>>

SetLimit(l) ==
    /\ l # limit
    /\ Event
    /\ limit' = l
    /\ UNCHANGED <<now, row, mem, pc, local, history>>

Tick ==
    /\ now < MaxNow
    /\ now' = now + 1
    /\ UNCHANGED <<limit, row, mem, pc, local, events, history>>

Take(r) ==
    \/ PrecheckPasses(r) \/ PrecheckRefuses(r)
    \/ TakeBegins(r) \/ TakeAllows(r) \/ TakeRefuses(r) \/ TakeFails(r)
    \/ Fallback(r)

Next ==
    \/ \E r \in Requests : Take(r)
    \/ DeleteExpiredSelect \/ DeleteExpiredCommit \/ DeleteExpiredFails
    \/ Reset
    \/ \E l \in Limits : SetLimit(l)
    \/ Tick

Spec == Init /\ [][Next]_vars

-----------------------------------------------------------------------------
(* Properties *)

(* Every instance draws on one budget: whatever the interleaving of the
   statements, their delays and the changes of the limit, the requests the
   row let through from r up to s took no more time than passed between them
   plus the burst.  A budget that was discarded (Reset, or a cleanup that
   raced with a request) starts again. *)
SharedBudget ==
    \A r, s \in Requests :
        /\ pc[r] = "allowed" /\ pc[s] = "allowed"
        /\ era[r] = era[s] /\ before[r] <= before[s]
        => before[s] + Interval(lim[s]) - before[r]
               <= at[s] - at[r] + Tolerance(lim[s])

(* A refused client is never told to wait longer than it must, although its
   wait is computed from the row as the statement's snapshot had it and other
   statements may have moved the arrival time on since; and if none did, it is
   let through after that wait.  (A row that was not in the snapshot, or was
   deleted since, says nothing about the present one.) *)
RetryIsExact ==
    [][\A r \in Requests :
         TakeRefuses(r) /\ present /\ seen[r] # NoRow /\ seen[r] <= tat =>
            LET ok(d) ==
                  Admits(tat, at[r] + d, Interval(lim[r]), Tolerance(lim[r]))
            IN
            /\ \A d \in 0..(retry'[r] - 1) : ~ok(d)
            /\ seen[r] = tat => ok(retry'[r])]_vars

(* The requests of r's instance that passed the limiters r looks up, from t
   on. *)
PassedSince(r, t) ==
    {s \in Requests :
        /\ pc[s] \notin {"idle", "refusedLocally"}
        /\ inst[s] = inst[r]
        /\ gen[s] = MemoryFor(inst[r], limit).gen
        /\ entry[s] >= t}

(* With r, more requests than PerSecond and twice the burst allow since some
   time. *)
FarOver(r) ==
    \E t \in 0..now :
        (Cardinality(PassedSince(r, t)) + 1) * limit.every
            > now - t + 2 * limit.burst * limit.every

(* The pre-check "refuses a client far over its limit" and nobody else: a
   request is refused in memory exactly when its client has since some time
   sent this instance more than PerSecond and twice the burst.  So a client
   within its limit always gets to the database, and a flood cannot become a
   flood of writes, whatever the row or the fallback answered. *)
PrecheckOnlyFarOver ==
    [][\A r \in Requests :
         pc[r] = "idle" /\ pc'[r] # "idle" =>
            (pc'[r] = "refusedLocally" <=> FarOver(r))]_vars

(* What DeleteExpired says it removes: "buckets whose keys are back to a full
   budget". *)
DeletesOnlyFull == [][DeleteExpiredCommit => tat < Clock]_vars
=============================================================================
