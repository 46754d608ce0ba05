---------------------------- MODULE Idempotency ----------------------------
(***************************************************************************)
(* The Idempotency-Key middleware and its store (modules/idempotency).     *)
(* Requests that carry a key claim its row in PostgreSQL, run the handler, *)
(* and then store their response in the row or release it; every SQL       *)
(* statement is one atomic step, and every step may be followed by the     *)
(* crash of the instance.  A request stands for one call of serve: the     *)
(* random lock token of its Claim is identified with the request itself,   *)
(* and so is the response its handler produces.  A client's retry is       *)
(* another request with the same key and fingerprint.                      *)
(*                                                                         *)
(* Left out: requests the middleware passes through untouched (no header,  *)
(* another method, no scope, a body that cannot be read) and those it      *)
(* refuses before Claim (invalid key): they never reach the store.         *)
(***************************************************************************)
EXTENDS Integers

CONSTANTS
    Requests,     \* requests that carry a valid key
    Keys,         \* row ids: keyID(scope, key)
    Fingerprints, \* hashes of method, target and body
    NoReq,        \* no lock token and no response
    NoFp,         \* the fingerprint of no row
    LockTTL,      \* how long a claimed key is held
    Retentions,   \* the values of the idempotency.retention setting
    ClaimAttempts,\* claimAttempts of Claim
    MaxNow        \* bound on the clock

ASSUME RequestsAssumption == NoReq \notin Requests
ASSUME TTLAssumption == LockTTL \in Nat \ {0} /\ MaxNow \in Nat
ASSUME AttemptsAssumption == ClaimAttempts \in Nat \ {0}
\* settings.Range(time.Hour, ...) against DefaultLockTTL, five minutes.
ASSUME RetentionAssumption ==
    Retentions \subseteq Nat /\ \A d \in Retentions : d > LockTTL

VARIABLES
    now,       \* the database clock
    retention, \* the idempotency.retention setting
    rows,      \* the idempotency_keys table
    sweep,     \* ids the running DeleteExpired statement has selected
    pc,        \* where each request is in serve
    key, fp,   \* what each request carries
    ret,       \* the retention Claim read
    at,        \* statement_timestamp() of the request's last claim statement
    tries,     \* claim attempts used
    result,    \* how the handler ended
    replay,    \* the request whose response was replayed
    swept      \* history: requests whose claimed row DeleteExpired deleted

store == <<rows, sweep, retention>>
input == <<key, fp>>
locals == <<ret, at, tries, result, replay>>
vars == <<now, retention, rows, sweep, pc, key, fp, ret, at, tries, result,
          replay, swept>>

(* How a handler ends: with a response that may be replayed, or with one that
   must not be (5xx, 401, 403, 408, 429, Set-Cookie, no-store, too large,
   DontStore) or a panic. *)
Results == {"final", "transient"}
Storable(res) == res = "final"

Answers == {"ran", "replayed", "in_progress", "key_reused", "unavailable"}
Waiting == {"idle", "claim", "select"}
Running == {"run", "finish"}
PCs == Waiting \cup Running \cup Answers \cup {"crashed"}

Row == [st : {"absent", "locked", "stored"}, fp : Fingerprints \cup {NoFp},
        owner : Requests \cup {NoReq}, until : Nat, created : Nat]

TypeOK ==
    /\ now \in Nat
    /\ retention \in Retentions
    /\ rows \in [Keys -> Row]
    /\ sweep \subseteq Keys
    /\ pc \in [Requests -> PCs]
    /\ key \in [Requests -> Keys]
    /\ fp \in [Requests -> Fingerprints]
    /\ ret \in [Requests -> Retentions \cup {0}]
    /\ at \in [Requests -> Nat]
    /\ tries \in [Requests -> Nat]
    /\ result \in [Requests -> Results \cup {"none"}]
    /\ replay \in [Requests -> Requests \cup {NoReq}]
    /\ swept \subseteq Requests

AbsentRow == [st |-> "absent", fp |-> NoFp, owner |-> NoReq, until |-> 0,
              created |-> 0]

Init ==
    /\ now = 0
    /\ retention \in Retentions
    /\ rows = [k \in Keys |-> AbsentRow]
    /\ sweep = {}
    /\ pc = [r \in Requests |-> "idle"]
    /\ key \in [Requests -> Keys]
    /\ fp \in [Requests -> Fingerprints]
    /\ ret = [r \in Requests |-> 0]
    /\ at = [r \in Requests |-> 0]
    /\ tries = [r \in Requests |-> 0]
    /\ result = [r \in Requests |-> "none"]
    /\ replay = [r \in Requests |-> NoReq]
    /\ swept = {}

Goto(r, p) == pc' = [pc EXCEPT ![r] = p]

(* serve returns, and its locals go out of scope. *)
Return(r, p) ==
    /\ Goto(r, p)
    /\ ret' = [ret EXCEPT ![r] = 0]
    /\ at' = [at EXCEPT ![r] = 0]
    /\ tries' = [tries EXCEPT ![r] = 0]

-----------------------------------------------------------------------------
(* Claim *)

(* The middleware hands the request to Claim, which reads the retention once
   and sends its first claim statement. *)
Arrive(r) ==
    /\ pc[r] = "idle"
    /\ Goto(r, "claim")
    /\ ret' = [ret EXCEPT ![r] = retention]
    /\ at' = [at EXCEPT ![r] = now]
    /\ UNCHANGED <<now, store, input, tries, result, replay, swept>>

Expired(row, t, d) == row.created + d <= t

\* Faulty variant: a lock is taken over before its TTL passed.
ClaimableAnyLock(r) ==
    LET row == rows[key[r]] IN
    \/ row.st = "absent"
    \/ Expired(row, at[r], ret[r])
    \/ row.st = "locked" /\ row.fp = fp[r]

(* claimKeySQL inserts the row, or takes over one that is older than the
   retention, or whose lock passed its TTL, for the same fingerprint only.
   The time it compares with is the statement's start, at[r]. *)
Claimable(r) ==
    LET row == rows[key[r]] IN
    \/ row.st = "absent"
    \/ Expired(row, at[r], ret[r])
    \/ row.st = "locked" /\ row.until <= at[r] /\ row.fp = fp[r]

\* Faulty variant: the lock's expiry is computed backwards.
ClaimedRowBackwards(r) == [st |-> "locked", fp |-> fp[r], owner |-> r,
                           until |-> at[r] - LockTTL, created |-> at[r]]

ClaimedRow(r) == [st |-> "locked", fp |-> fp[r], owner |-> r,
                  until |-> at[r] + LockTTL, created |-> at[r]]

ClaimWins(r) ==
    /\ pc[r] = "claim"
    /\ Claimable(r)
    /\ rows' = [rows EXCEPT ![key[r]] = ClaimedRow(r)]
    /\ Goto(r, "run")
    /\ UNCHANGED <<now, sweep, retention, input, locals, swept>>

ClaimLoses(r) ==
    /\ pc[r] = "claim"
    /\ ~Claimable(r)
    /\ Goto(r, "select")
    /\ UNCHANGED <<now, store, input, locals, swept>>

(* The statement's answer is lost (connection, cancelled context): the
   request answers 503 without running, whether or not the row was written. *)
ClaimFails(r) ==
    /\ pc[r] = "claim"
    /\ \/ UNCHANGED rows
       \/ Claimable(r) /\ rows' = [rows EXCEPT ![key[r]] = ClaimedRow(r)]
    /\ Return(r, "unavailable")
    /\ UNCHANGED <<now, sweep, retention, input, result, replay, swept>>

(* selectKey found no row: released since, so claim it again, up to
   claimAttempts times. *)
SelectMisses(r) ==
    /\ pc[r] = "select"
    /\ rows[key[r]].st = "absent"
    /\ \/ /\ tries[r] + 1 < ClaimAttempts
          /\ Goto(r, "claim")
          /\ tries' = [tries EXCEPT ![r] = @ + 1]
          /\ at' = [at EXCEPT ![r] = now]
          /\ UNCHANGED ret
       \/ /\ tries[r] + 1 >= ClaimAttempts
          /\ Return(r, "in_progress")
    /\ UNCHANGED <<now, store, input, result, replay, swept>>

SelectRefuses(r) ==
    /\ pc[r] = "select"
    /\ rows[key[r]].st # "absent"
    /\ \/ rows[key[r]].fp # fp[r] /\ Return(r, "key_reused")
       \/ /\ rows[key[r]].fp = fp[r]
          /\ rows[key[r]].st = "locked"
          /\ Return(r, "in_progress")
    /\ UNCHANGED <<now, store, input, result, replay, swept>>

SelectReplays(r) ==
    /\ pc[r] = "select"
    /\ rows[key[r]].st = "stored"
    /\ rows[key[r]].fp = fp[r]
    /\ replay' = [replay EXCEPT ![r] = rows[key[r]].owner]
    /\ Return(r, "replayed")
    /\ UNCHANGED <<now, store, input, result, swept>>

SelectFails(r) ==
    /\ pc[r] = "select"
    /\ Return(r, "unavailable")
    /\ UNCHANGED <<now, store, input, result, replay, swept>>

-----------------------------------------------------------------------------
(* Running the handler, then Complete or Release in serve's deferred call *)

HandlerEnds(r) ==
    /\ pc[r] = "run"
    /\ \E res \in Results : result' = [result EXCEPT ![r] = res]
    /\ Goto(r, "finish")
    /\ UNCHANGED <<now, store, input, ret, at, tries, replay, swept>>

Holds(r) == rows[key[r]].st = "locked" /\ rows[key[r]].owner = r

StoredRow(row) == [st |-> "stored", fp |-> row.fp, owner |-> row.owner,
                   until |-> 0, created |-> row.created]

\* Faulty variant: the UPDATE writes the response into any row of the key.
CompleteKeyOverwrites(r) ==
    IF rows[key[r]].st # "absent"
    THEN rows' = [rows EXCEPT ![key[r]] = StoredRow([@ EXCEPT !.owner = r])]
    ELSE UNCHANGED rows

\* Faulty variant: the UPDATE does not compare the lock token.
CompleteKeyAnyToken(r) ==
    IF rows[key[r]].st = "locked"
    THEN rows' = [rows EXCEPT ![key[r]] = StoredRow(@)]
    ELSE UNCHANGED rows

(* completeKeySQL, WHERE lock_token = the request's: a lost lock updates no
   row. *)
CompleteKey(r) ==
    IF Holds(r)
    THEN rows' = [rows EXCEPT ![key[r]] = StoredRow(@)]
    ELSE UNCHANGED rows

Complete(r) ==
    /\ pc[r] = "finish"
    /\ Storable(result[r])
    /\ CompleteKey(r)
    /\ Return(r, "ran")
    /\ UNCHANGED <<now, sweep, retention, input, result, replay, swept>>

(* releaseKeySQL.  A deleted row leaves the running sweep: its statement
   skips a row version that is gone. *)
ReleaseKey(r) ==
    IF Holds(r)
    THEN /\ rows' = [rows EXCEPT ![key[r]] = AbsentRow]
         /\ sweep' = sweep \ {key[r]}
    ELSE UNCHANGED <<rows, sweep>>

Release(r) ==
    /\ pc[r] = "finish"
    /\ ~Storable(result[r])
    /\ ReleaseKey(r)
    /\ Return(r, "ran")
    /\ UNCHANGED <<now, retention, input, result, replay, swept>>

(* The statement fails before it reaches the table: the row stays locked. An
   answer lost after the statement was applied looks like Complete or
   Release, whose errors are only logged. *)
FinishFails(r) ==
    /\ pc[r] = "finish"
    /\ Return(r, "ran")
    /\ UNCHANGED <<now, store, input, result, replay, swept>>

(* The instance dies under the request. *)
Crash(r) ==
    /\ pc[r] \in {"claim", "select"} \cup Running
    /\ Return(r, "crashed")
    /\ UNCHANGED <<now, store, input, result, replay, swept>>

-----------------------------------------------------------------------------
(* The cleanup job and the clock *)

ExpiredKeys ==
    {k \in Keys : rows[k].st # "absent" /\ Expired(rows[k], now, retention)}

(* deleteExpiredSQL: its sub-select picks expired ids in the statement's
   snapshot.  The batch (the oldest ones, up to the limit) is any of them. *)
DeleteExpiredSelect ==
    /\ sweep = {}
    /\ \E S \in SUBSET ExpiredKeys \ {{}} : sweep' = S
    /\ UNCHANGED <<now, retention, rows, pc, input, locals, swept>>

(* ... and its outer DELETE removes them.  A row that another statement
   updated since the snapshot is deleted in its new version: READ COMMITTED
   re-evaluates only "id IN (...)" on it, and the sub-select, which holds the
   created_at condition, locks nothing and is not evaluated again. *)
DeleteExpiredCommit ==
    /\ sweep # {}
    /\ swept' = swept \cup {r \in Requests : \E k \in sweep :
                              /\ rows[k].owner = r
                              /\ ~Expired(rows[k], now, retention)}
    /\ rows' = [k \in Keys |-> IF k \in sweep THEN AbsentRow ELSE rows[k]]
    /\ sweep' = {}
    /\ UNCHANGED <<now, retention, pc, input, locals>>

(* The statement fails, or its instance dies: it is rolled back. *)
DeleteExpiredFails ==
    /\ sweep # {}
    /\ sweep' = {}
    /\ UNCHANGED <<now, retention, rows, pc, input, locals, swept>>

(* An operator changes the setting; it applies to existing keys at once. *)
SetRetention(d) ==
    /\ d # retention
    /\ retention' = d
    /\ UNCHANGED <<now, rows, sweep, pc, input, locals, swept>>

Tick ==
    /\ now < MaxNow
    /\ now' = now + 1
    /\ UNCHANGED <<store, pc, input, locals, swept>>

Request(r) ==
    \/ Arrive(r)
    \/ ClaimWins(r) \/ ClaimLoses(r) \/ ClaimFails(r)
    \/ SelectMisses(r) \/ SelectRefuses(r) \/ SelectReplays(r) \/ SelectFails(r)
    \/ HandlerEnds(r)
    \/ Complete(r) \/ Release(r) \/ FinishFails(r)
    \/ Crash(r)

Next ==
    \/ \E r \in Requests : Request(r)
    \/ DeleteExpiredSelect
    \/ DeleteExpiredCommit
    \/ DeleteExpiredFails
    \/ \E d \in Retentions : SetRetention(d)
    \/ Tick

Spec == Init /\ [][Next]_vars

-----------------------------------------------------------------------------
(* Properties *)

LockPassed(r) == now >= at[r] + LockTTL

(* Two requests with the same key run at once only after one of them held the
   key longer than the lock TTL (Claim's documented takeover), or lost its row
   to a cleanup statement that had selected the row before it was claimed. *)
OneRunnerPerKey ==
    \A r, s \in Requests :
        /\ r # s
        /\ key[r] = key[s]
        /\ pc[r] \in Running
        /\ pc[s] \in Running
        => \E x \in {r, s} : LockPassed(x) \/ x \in swept

(* A replayed response is the final response of an execution of the very same
   request: same key, same fingerprint.  A handler that outlived its lock
   never puts its response into the row of the request that took it over. *)
ReplayFaithful ==
    \A r \in Requests :
        pc[r] = "replayed" =>
            /\ replay[r] \in Requests
            /\ key[replay[r]] = key[r]
            /\ fp[replay[r]] = fp[r]
            /\ Storable(result[replay[r]])

(* A stored response stays as it is until a retention has passed since its
   request claimed the key: no late Complete, Release or takeover touches it,
   and only the cleanup race above deletes it early. *)
StoredIsFinal ==
    [][\A k \in Keys :
        rows[k].st = "stored" /\ rows'[k] # rows[k] =>
            \/ \E d \in Retentions : Expired(rows[k], now, d)
            \/ rows[k].owner \in swept']_vars

(* What the middleware promises ("While the first request runs: 409
   idempotency_in_progress") within the lock TTL, with no exception for the
   cleanup. *)
RefusedWhileRunning ==
    \A r, s \in Requests :
        /\ r # s
        /\ key[r] = key[s]
        /\ pc[r] \in Running
        /\ pc[s] \in Running
        => \E x \in {r, s} : LockPassed(x)
=============================================================================
