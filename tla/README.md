# gorbital in TLA+

Specifications of the concurrent and distributed parts of gorbital, a Go
framework for HTTP applications on PostgreSQL, with TLC runs that check them on
small instances and TLAPS proofs for every instance. `PROJECT.json` maps each
definition to the lines it models, lists the runs, the mutants that show each
property can fail, the findings, the hazards and the theorems.

    tlc -workers 2 -config MCIdempotency.cfg MCIdempotency
    tlapm IdempotencyProofs.tla

## Inventory

An application is one binary, run as several instances over one PostgreSQL
database. `gorbital/` composes it from the core packages and `modules/`. The
instances share nothing but the database (rows, `LISTEN/NOTIFY`) and the object
store; inside an instance there are request goroutines, background runners and
timers.

| Part | State | Operations | Interacts through | Hard part | Correct when |
|---|---|---|---|---|---|
| `modules/idempotency` | table of keys: lock token and expiry, or stored response | Claim, Complete, Release, DeleteExpired, middleware | one SQL statement at a time, no transaction across | slow handlers, lost answers, crashes, cleanup | one execution per key while its lock holds; replays are faithful |
| `modules/settings` | versioned rows; a registry in each instance | Set/SetOrg, Reload, reloadKey, apply, listener, resync | NOTIFY, reloads, own writes | three routes update one registry in any order | never goes back, ends up with the table |
| `modules/storage/logarchive` | spool directory, buffer, open file; objects | Write, tick, upload, Close, restart | logging goroutines and uploader share a mutex; files and objects survive a crash | rotation against upload, crashes, lost answers | no record lost or doubled |
| `app` | runners, signal channel, cleanup list | Run, Cleanup.Close | channels, contexts, signals | races between reasons to stop; runners that hang | shutdown ends, in order, and reports what failed |
| `httpx/timeout` | response writer shared by handler and timer | WriteHeader, Write, Flush, Hijack, callback, end of request | a mutex, two timers of the same duration | callback against handler and against connection reuse | one clean response |
| `modules/ratelimitpg` | one row (tat) per key; two in-memory limiters per instance | Take, DeleteExpired, Reset | one statement per decision | statements delayed and reordered, database away | instances share one budget |
| `ratelimit` | token buckets by key | Allow, evictIdle, middleware | mutex | capacity, eviction | limits hold below capacity |
| `modules/flags`, `modules/jobs` | registry that follows a table; River's periodic jobs | Reload, apply, reconcile, manager operations | NOTIFY, reloads | as settings; partial failure of reconcile | as settings; schedule equals definitions |
| `modules/observability` | current window, pending windows, stored minutes; incidents | Record, Flush, Run; detect | atomic pointer, a mutex, one flusher, upserts | record into a window that was flushed; late commits; stop | stored minutes never shrink; loss is accounted for |
| `modules/jwt` | key set: keys, expiry, last fetch | lookup, refresh | shared fetch | cancelled leader, stale keys, rate limit | a rotated key is found, fetches are bounded |
| `modules/releases` | row per instance | record, beat, end | heartbeats | lost answers | one row per instance |
| `modules/auth`, `gorbital/authhttp` | accounts, sessions, codes | sign-in, refresh, MFA, recovery | transactions | reuse of one-time secrets | each used once |
| `modules/orgs`, `gorbital/orgshttp` | organisations, members, invitations | create, delete, restore, purge, change role, remove, leave, invite, resend, revoke, accept; hooks of account deletion | row locks of organisations; hooks called by `authhttp` | two changes at once; accounts deleted outside the lock; hooks that fail | an organisation keeps an owner; an invitation admits once |
| `health` | readiness run shared by concurrent probes | Check, Readiness | mutex | shared result expires | a probe sees a recent check |
| `httpx`, `mail`, `audit`, `storage`, `postgres`, `telemetry`, `openapi`, `devconsole`, core helpers | little or none | requests, I/O, formatting | – | – | unit tests reach them |
| `cli` | files of a project, child processes | generate, upgrade, dev, tunnel | file system, processes | merge, supervisor | golden files |

## Modules

Each component has one module; `MC*` modules only add symmetry sets and values
for constants; `*Proofs` modules hold theorems. A SQL statement of
PostgreSQL (READ COMMITTED) is one step when it reads and writes the row it
decides on under that row's lock, and two steps where it uses a snapshot taken
earlier (the cleanup statements, the retry column of `takeSQL`). A call whose
answer may be lost has a step that fails and changes nothing and one that fails
after it took effect. Clocks are natural numbers bounded by the configuration.

**Idempotency** - `rows` is the table, `pc` where each request is in the
middleware's `serve`. Claim is the upsert and, when it finds the key taken, the
select that follows, with `ClaimAttempts` tries. `DeleteExpired` is a select
in a snapshot followed by a delete by id. A lock token is the request
that owns it. Fingerprints are model values; a response is its outcome, storable
or not.

**Settings** - a slot is a platform or an organisation's row, a value its
version. `rl` holds the state of the two loops of an instance (resync and
listener) inside `Reload` and `reloadKey`; `pending` the writes that committed and
have not applied their result. Notifications are a set: the listener reads the
row, not the payload's value. A listener's connection can be lost, with its
notifications; reads can fail; an organisation's rows can be purged; an instance
can restart.

**LogArchive** - files and objects are named by hour and partial number; the
uploader's passes are split at each file operation (list, compress, put,
remove). `linked` says whether the open file still has a name. A file may fail to
open, which drops the record (`OpenFails`), and a partial file to be renamed, which
leaves it under the name of a finished hour (`CloseHour`): the object of that hour
may then be replaced, as after a crash, so such an hour joins `cut`, the hours of
which nothing is claimed. `MaxErrors` bounds both.

**AppRun** - `Run` up to each select; runners, the parent context and signals
are the environment. The signal channel holds two signals and the rest are
dropped.

**RequestTimeout** - each method of `timeoutWriter` is one step under its mutex;
the context's deadline and the callback's timer fire separately. What goes over
the wire is reduced to the final status, whose headers it carried and who wrote
the body.

**RateLimit** - one key. The row keeps the theoretical arrival time of GCRA; a
statement starts (its clock and snapshot) and is applied later. The two
in-memory limiters of each instance are token buckets in the same arithmetic, but
not in the same unit of time. `now` counts ticks, `Micro` of them to the
microsecond, and the emission interval `1 / PerSecond` is a number of ticks
(`every`). Memory works on ticks, as `ratelimitpg.go:152` hands `PerSecond` to its
limiters untouched; the row works on whole microseconds (`Clock`) and the interval
that `gcra` truncates to them, at least one (`Interval`, `take.go:60`). So where
`1 / PerSecond` is not whole microseconds (3000/s, say) the row refills faster than
memory, or, above 1000000/s, slower, and a client that the row allows can still
drain the pre-check. Instances and database share one clock, and the floating-point
rounding of the buckets is left out.

**Orgs** - an operation runs in one transaction that locks the organisation's
row and reads the caller's role under it (`lockOrg`), so it is one action.
`acct` is the account in the auth module's table, which that lock does not cover:
`CheckAccountDeletion`, the transaction that marks the account deleted and the
`AccountDeleted` hook are separate steps, and `removeFromOrg`, which reads
accounts twice, is split between its reads (`RemoveFromOrg`, `RemoveOwner`).
`joined` is `joined_at`, by which a hand-over picks the earliest member (an
accepted invitation joins at the time it read before its transaction).
`late` counts requests that were authenticated before their account was deleted;
`accept` is `AcceptInvitation` between its reads and its transaction; `spent` and
`skipped` are history: the tokens that ended, and the organisations a failed hook
or a late restore behind the hook left out of its care. The module composes `orgshttp` with the account deletion
of `authhttp`.

**Collector** - `win` holds every window that was started, numbered in that order;
`current` and `pending` are the collector's pointers to them, so the oldest pending
window, `pending[0]` of the code, is the least number. A request takes its time, looks its
window up (without the lock, or in `windowFor`) and is counted there in separate
steps. A flush closes, reads window after window, writes and forgets. A window's
totals are the set of requests counted in it, so "fewer requests" of the upsert
is a comparison of cardinalities and a lost request is visible. A failed write
stays in `delayed`, from where it may commit at any later time. A Go time has two
readings: `now` is the monotonic clock, on which `closedAt` and the grace are
compared, and `Wall` the wall clock, which names the minutes and which `StepBack`
sets back (`off` says by how much).

**Jobs** - `over` is the version of each definition's override that an instance
holds; `log` what each version asked for. The goroutines of an instance (any number
of requests that write, `Writers`, the listener and the resync loop) apply overrides
and then reconcile, definition by definition, under the scheduler's mutex; the
client reconciles once more when it starts to work (`Started`). `registered` are
River's periodic jobs and `applied` what reconcile remembers. `broken` is history:
the definitions a failed `AddSafely` left out of line. `Restart` ends the process,
be it of itself or because the client's own reconcile failed (`Client.Run` returns
the error), and starts it again up to the end of `NewManager`: that is one step,
since nothing else of the instance runs before `NewManager` has reloaded, and if it
fails the process just starts once more.

**FollowedVersions** - the abstract specification shared by Settings and Jobs:
rows are committed one version at a time, and what a replica serves of a row only
moves forward, to a committed version, or is forgotten where rows can be deleted.
`Settings!Followed` maps `committed` to `db` and `served` to `cache`, with the
organisation slots deletable; `Jobs!Followed` maps them to the length of `log`
and to `over`, with nothing deletable. Every step of the detailed modules (late
notifications, overlapping reloads, own writes, restarts) is a step of it or a
stutter: TLC checks it as the properties `ValuesFollow` and `OverridesFollow`, and
`SettingsProofs` and `JobsProofs` prove it step by step.

## Runs

| Run | Instance | Checks |
|---|---|---|
| `idempotency` | 3 requests, 1 key, 2 fingerprints, lock TTL 1, retentions 2 and 3, clock to 3; 2.5M states | `TypeOK`, `OneRunnerPerKey`, `ReplayFaithful`, `StoredIsFinal` |
| `settings` | 1 instance with both loops, a platform and an organisation slot, 2 writes, 2 faults; 306k states | `TypeOK`, `WaitingIsCurrent`, `ValuesFollow` (refinement), `EventuallyConverged` |
| `log_archive` | 3 hours, 3 records, 2 events, 1 fault, 1 file error; 383k states | `TypeOK`, `RecordsKept`, `ArchivedOnce`, `EventuallyStored` |
| `app_run` | 2 runners, 2 cleanup items, 3 signals; 304k states | `TypeOK`, `ClosesAfterRunners`, `ErrorsReported`, `NilMeansClean`, `Terminates` |
| `request_timeout` | 1 request, up to 2 status lines, one more than there may be; 698 states | `RTTypeOK`, `TimeoutResponseClean`, `DeadlineWins`, `QuietAfterEnd`, `AnsweredAtDeadline` |
| `rate_limit` | 2 instances, 3 requests, 2 ticks to the microsecond, 2 limits, clock to 5, 1 event; 3.5M states | `TypeOK`, `SharedBudget`, `RetryIsExact`, `PrecheckOnlyFarOver` |
| `orgs` | 3 accounts, 1 team with three possible starts, 1 workspace, 1 invitation, 2 requests, 2 account deletions, 1 late request, 1 failed hook, clock to 1; 490k states | `TypeOK`, `OwnerKept`, `SpentTokensAdmitNobody`, `PurgesOnlyDue`, `HandedOver` |
| `collector` | 3 requests, minutes of 2 ticks, grace 2, delays up to 1, 1 pending window, clock to 5, 1 fault; 1.03M states | `TypeOK`, `LostCoversDrops`, `StopLosesOnlyLate`, `RowsOnlyGrow`, `EventuallyStored` |
| `jobs` | 1 instance with 4 goroutines, 2 definitions, 2 schedules of which the release accepts one, 2 writes, 1 fault; 1.3M states | `TypeOK`, `SchedulesInForce`, `OverridesFollow` (refinement), `EventuallyScheduled` |

Why the bounds are enough for the cases of interest. *idempotency*: with three
requests one can be slow, one take its key over and one replay; with the clock
at 3 a lock and both retentions expire. One key suffices since no statement
touches two. *settings*: instances only meet in the table, and another
instance's write looks like a late notification of one's own, so one instance
with two loops and two writes has every interleaving of routes; two faults allow
a lost connection and a failed read in one behaviour. *log_archive*: an hour
before, at and after the crash. *app_run*: three signals overfill the channel, and
one of them stops `Run` while the next forces the drain or the wait.
*rate_limit*: one limit has an interval of one and a half microseconds, which the
row truncates to one, and a burst of 1, so that three requests exceed even twice
the burst; the other half a microsecond, which the row rounds up to one, and a burst
of 2. 5 ticks let the slower bucket fill again. *orgs*: the starts are no team, an owner with an admin,
and an owner with an earlier member and a later admin, so a hand-over has to
prefer the admin; two deletions let every other account go while the first one's
hook runs; two requests are enough to invite and resend, promote and leave, or
delete and restore around them. *collector*: three minutes with room for one
pending window make a drop, a late request and a window that was forgotten
possible; the fault is either a failed write or a clock set back by more than a
minute. *jobs*: instances meet only in the table; the second definition makes a
reconcile that fails after the first one changed, and two writes one that is
overtaken, or a schedule that goes back to what it was before a failure. One
writing request contends for the mutex with the listener, the resync loop and the
client; more of them are left to the proofs.
`CHECK_DEADLOCK FALSE` everywhere: requests end,
`Run` returns, and bounded clocks and counters stop.

### Fairness

*settings*: the two loops of an instance and the goroutine of a committed write
go on (weak fairness); writers, faults and restarts are not fair. The resync
timer justifies it: `Run` reloads for as long as it runs. *log_archive*: the
uploader's ticker, the clock, a supervisor that restarts the process and the
goroutine that holds a record. *app_run*: only `Run`'s goroutine and its timers;
runners may hang forever. *request_timeout*: the timer, its callback and the
deferred end; the handler may never return. *orgs*: only the hook, which
`DeleteAccount` calls itself, goes on; a hook that is interrupted (`HookLost`) or
fails (`RemoveFails`) is recorded in `skipped`. *collector*: `Run`'s ticker and the
requests that have finished; the number of failures is bounded, as a sink that
fails for ever stores nothing. *jobs*: the goroutines of committed writes, the
starting client, the resync ticker and the listener.

### Findings

Three runs are expected to fail: each checks a sentence of the repository that
the code does not keep.

- `idempotency_race` (`RefusedWhileRunning`): the cleanup statement is `DELETE
  ... WHERE id IN (SELECT ... LIMIT n)`. The subselect locks nothing, and the
  recheck under READ COMMITTED compares the id alone, so a row that was claimed
  after the snapshot is deleted with its lock.
- `settings_drop` (`DropsOnlyDeleted`): values that a reload installs carry
  sequence 0, so of two overlapping reloads the older one can drop a value that
  is committed. `EventuallyConverged` shows that the next reload brings it back.
- `log_archive_crash` (`CrashLosesOnlyBuffer`): after a crash within the hour the
  leftover file is uploaded as if finished while the hour continues under the
  same name.

Two more sentences are stated in the modules and refuted by TLC when they are
added to the configuration of their run; they have no run of their own.
`DeletesOnlyFull` of RateLimit is the race of `idempotency_race` in the cleanup of
`ratelimitpg/take.go:85`, which deletes a bucket with the debt of a request that
took from it after the snapshot (take.go:90: "back to a full budget").
`EarlyReturnsReported` of AppRun: a runner that returns before its context is
done, during the drain or beside another reason to stop, is not reported
(`app/run.go:148` against the comments at 29 and 59).

Observations from modelling that are not violations of a checked sentence:

- `Collector.Run` writes a last time "so a clean shutdown loses nothing"
  (`collector.go:312`, ADR 0064:81), but all runners are cancelled together
  (`gorbital/app.go`, `runners`), so requests that the server still drains
  finish after the final flush began and are not written. `StopLosesOnlyLate`
  is what holds: only those are missing.
- `Lost` can count too much: a window dropped at the limit may have been written
  in part. It never counts too little (`LostCoversDrops`), unless the clock was
  set back.
- After a failed `AddSafely` the periodic job is gone from River while `applied`
  still has its old schedule: a definition that goes back to that schedule before
  the next successful reconcile stays unregistered until it changes again or the
  process restarts. `SchedulesInForce` and `EventuallyScheduled` except only this
  (`WentBack`): any other definition that a failed reconcile left out of line is
  mended by the next one. TLC reaches the case: without the exception both fail.
- A partial hour whose rename fails (`logarchive.go:355`) has the same fate as after
  a crash: its file is uploaded as finished and the hour's later records replace the
  object.
- At rates whose interval is not whole microseconds the pre-check and the row refill
  at different rates (`take.go:61`). `PrecheckOnlyFarOver` is what the pre-check keeps
  whatever the row does: it refuses exactly those that are over `PerSecond` and twice
  the burst at one instance.
- A failed `AccountDeleted` hook is logged and never repeated; the organisation
  may be left without a live owner. A request in flight when its account was
  deleted can also create a membership after the hook ran; it lasts until the
  account is purged, and does not count as a live owner or member.
- Such a membership can be an owner's, and a second late request of that account
  can restore an organisation that its live owner deleted before deleting her own
  account: it comes back with live members, no live owner and no hook to come,
  which `RemoveAccount` means to prevent (`accounts.go:74`, "so a restore can't
  bring a deleted account back as an owner"). Proving `OwnerKept` brought this up
  (it takes three requests, one more than the run has); `OwnerKept` now excepts
  the organisations that `Restore` puts into `skipped`.

`OneRunnerPerKey`, `StoredIsFinal` and `SharedBudget` state what holds with the
cleanup race excepted (history variables `swept`, `epoch`); `RecordsKept` and
`ArchivedOnce` what holds of hours without a crash or a failed rename (`cut`).
`RetryIsExact` is about refusals whose snapshot had the row that is still there: a
wait computed from a row that was not there yet or was deleted since says nothing
about the present one. Other statements may have moved the row on since the
snapshot; the wait is then never too long, and exact if none did. `ErrorsReported`
is about errors that do not wrap `context.Canceled`, which `Run` takes for a clean
end, and excepts a result that comes after `Run` gave up waiting (`Interrupted`).
`StopLosesOnlyLate` excepts requests counted after the stop began (`after`), and
`OwnerKept` and `HandedOver` organisations whose hook failed (`skipped`).

## Proofs

`IdempotencyProofs` proves `TypeOK`, `OneRunnerPerKey`, `ReplayFaithful` and
`StoredIsFinal` for any sets of requests, keys and fingerprints and any lock and
retention times, from the assumptions of `Idempotency`. None is inductive. The
inductive invariant `IInv` adds: an owned row belongs to a request with its key
and fingerprint (`RowsOwned`); a stored row's owner has ended with a storable
result (`StoredSettled`), and so has the request a replay names (`ReplaySettled`);
claims are not in the future (`ClaimsTimed`); and, the core, a request that runs
still holds its row unless its lock passed or it was swept (`RunnersHold`). Two
runners of one key would both hold its row, which has one owner.
`StoredIsFinal` is an action property: it follows step by step from `IInv`.

`RateLimitProofs` proves `TypeOK`, `SharedBudget`, `RetryIsExact` and
`PrecheckOnlyFarOver` for any instances, requests, limits, ticks to the microsecond
and delays. `IInv` adds: clocks of statements are not in the future (`Timed`);
without a row, the remembered `tat` has passed for every statement that may be
applied (`AbsentIsFull`); and each allowed request's claim on the row is still
visible in `tat`: what was taken since it is at most `tat` minus its own time
(`Owed`). `Owed` turns the budget of a span into a comparison with the row at the
time of the last request, which `RowAdmits` bounds by the tolerance; it survives
statements that are applied out of order since `tat` never decreases within an
epoch. `RetryIsExact` is arithmetic of `Arrival`. `PrecheckOnlyFarOver` compares the
bucket with a count of requests, in both directions and without induction over a
set: `Counted` says that the bucket holds at least what any finite set of requests
that passed it since a time took, `Busy` that some such set took all it holds, and
`Generations` that a rebuilt limiter has let nobody through yet. They are kept step by
step, as one request joins the set.

Each of the other proof modules has the same layout: the parts of the inductive
invariant `IInv`, facts about the
constants and the updates, one lemma per action and part it can disturb,
`InitInv`, `NextInv`, `Invariance`, and the theorems. All hold for every value of
the constants that the named assumptions of the component's module admit.

`SettingsProofs` proves `TypeOK`, `WaitingIsCurrent` and the refinement
`ValuesFollow` for any instances, slots, writes and faults (at least one slot).
`NothingAhead`: no registry, pending own write or reload holds a version that is
not committed yet. `ListenerKnows` covers the gap between `LISTEN` and the first
read: on a subscribed connection, a platform slot with no notification left is
served, or is about to be read, or was read at its committed version by the step
under way. With a waiting listener only the first case remains. The refinement
uses `NothingAhead` and the guards of the three ways a registry is replaced.

`JobsProofs` proves `TypeOK`, `SchedulesInForce` and the refinement
`OverridesFollow` for any instances, definitions, schedules and number of requests
that write at once (at least one definition). The invariant follows a reconcile through its loop: one
goroutine at a time (`OneReconciles`), whose working copy is what River has
(`Tracked`) and otherwise `applied` is (`Remembered`), and every definition is in
line with its override, or a goroutine waits for the mutex or is at an earlier
definition (`InLine`). With no such goroutine `InLine` is the first half of
`SchedulesInForce`; the other half, about definitions that a failed reconcile left
out of line, is `Memory`: where River has something else registered than what is
remembered, the remembered schedule was in force at some version up to the one held
and another one since. If it is nevertheless what should be in force, the schedule
went back.

`LogArchiveProofs` proves `TypeOK`, `RecordsKept` and `ArchivedOnce` for any number
of hours, records, setting changes, restarts, failed uploads and file errors. The
core is `Located`: a record of an hour without a crash or a failed rename is in the
buffer or under exactly one name. It needs that names are not given out twice (`Numbered`, `PartsFit`,
which counts the renames still possible), that the file of the current hour is
the open one (`OpenFile`), and that what the uploader compresses, puts and
removes does not change under it (`Pass`, `Archived`).

`ServingProofs` holds the proofs of AppRun and of RequestTimeout, whose
specification has the prefix `RT` so that both can be extended. For any runners, cleanup items and signals it proves `TypeOK`,
`ClosesAfterRunners`, `ErrorsReported` and `NilMeansClean` of AppRun: a result is in
the channel or reported (`Delivered`), `Run` goes on to collect and clean up only
when the runners stopped or it reports that they did not (`Waited`), and the cleanup
stack is closed from its top (`ClosedDownTo`). Of RequestTimeout it proves `RTTypeOK`,
`TimeoutResponseClean`, `DeadlineWins` and `QuietAfterEnd`: a response starts or times
out and never both (`OneOutcome`), nothing goes out before (`Unsent`, `OneLine`), the
503 goes out alone with the outer headers (`Clean`), the deferred function goes on
only when the callback is over (`CallbackOver`), and a deadline the handler saw
refuses the rest (`SeenIsRefused`).

`CollectorProofs` proves `TypeOK`, `RowsOnlyGrow`, `LostCoversDrops` and
`StopLosesOnlyLate` for any number of requests, minutes, pending windows, flushes and
faults, from `BoundsAssumption` and `DelayAssumption` (a request is counted within
`closeGrace`, and `closeGrace`, one second, is no longer than a minute).

- *Rows.* A minute has one window and later windows are of later minutes (`Starts`).
  So whatever was stored, read by a flush or left in a statement that was given up
  came from the same growing set, and of any two of these one is part of the other
  (`Chains`): the upsert, which compares counts, then never takes a request away,
  even from a statement that commits late or after the clock was set back.
- *Lost.* It counts nothing twice (`Counts`, `LostBound`) and is at least what is
  owed, refused or neither stored nor held (`LostCovers`). The hard step is
  the unlocked pointer: a request that loaded its window before the lock may count
  in it after it was closed. `RecordHeld` says that the window is still held then.
  The request is younger than the grace (`Clock`), and a window is closed only once
  its minute is over (`Order`): a flush forgets it only after the grace, and it is
  dropped only when a newer one closes, which would take more than a minute
  (`MinuteSkipped`).
- *Flush.* What a flush may forget it has read in full and, once at `forget`,
  written (`FlushKnows`), since nobody counts in a window that is that old.
- *Stop.* In the last flush a window it does not know holds only requests counted
  after the stop began (`LateOnly`), and after it succeeded every window is
  stored but for those (`StopKept`).

`OrgsProofs` proves `TypeOK`, `OwnerKept`, `SpentTokensAdmitNobody` and
`PurgesOnlyDue` for any accounts, teams, workspaces, invitations and starts with
an owner in every team (`StartsAssumption`). `OwnerKept` needs little more than
that an organisation that does not exist is empty (`AbsentEmpty`) and that only a
running hook is between its reads (`HookRuns`); the argument is in `Kept`: a membership
change keeps another live owner (`keepAnOwner`) or does not touch one, an
acceptance needs a live inviter inside, an account that dies becomes `Leaving`
everywhere at once, and the hook leaves an organisation only after it handed it
over, deleted it or found no live member. For invitations, a token belongs to
one invitation and an open one's is not spent (`TokensNew`), so the comparison
under the lock is decisive. The purge needs only that the job's clock is not
ahead.

Only model-checked:

- liveness, which is outside the prover's reach: `EventuallyConverged`,
  `EventuallyStored` of LogArchive and Collector, `Terminates`,
  `AnsweredAtDeadline`, `HandedOver`, `EventuallyScheduled`;
- the sentences of the three runs that are expected to fail.

## Not modelled

The contents of responses, settings, records and headers beyond what the
properties tell apart; logging and metrics; hashing and encryption. In Settings
the write transaction (version check, history, audit) is one commit. In
RateLimit the in-memory limiters never reach their capacity of keys, and
`Retry-After` is not rounded to seconds. In LogArchive the writes, flushes and
closes of an open file succeed (a `bufio.Writer` that met an error returns it from
then on, `logarchive.go:351` and 571, and the rest of the file is lost), and so do
listing, compressing and removing. In Orgs names, versions, e-mail verification, limits,
organisation settings and service accounts are left out, and so is
`expireUnverified`, which deletes accounts that never signed in. In Collector
a window has one series and a request is counted in one step (`DelayAssumption`:
within `closeGrace` of the time it took, which is what that constant is for). The
code adds to several atomic counters one after another (`collector.go:457`), so a
statement that was given up and commits late, with the same number of requests but
buckets or errors read earlier, passes the comparison of `write_minutes.go:26` and
takes those back: `RowsOnlyGrow` is about the requests of a row and does not see it;
incidents, streams and queries are left out. In Jobs a configuration is its
schedule in force; runs, queues and River are left out. The remaining components are listed with the reason in
`PROJECT.json`.

## Plan

Most important first.

1. *Done*: Idempotency, Settings, LogArchive, AppRun, RequestTimeout, RateLimit,
   Orgs, Collector, Jobs; FollowedVersions and its two refinements; proofs of all
   of them but their liveness.
2. Lemmas about what `Earliest` picks in a hand-over.
3. Sign-in: refresh rotation, second factors and one-time codes, from the SQL in
   `gorbital/authhttp`.
4. The in-memory limiter with eviction and the HTTP middleware's rounding; the
   JWT key set; release tracking; health checks; incidents of observability;
   flags as a third implementation of FollowedVersions.
5. Settings' write transaction with its version check.
