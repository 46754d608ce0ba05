------------------------- MODULE IdempotencyProofs -------------------------
(***************************************************************************)
(* Proofs about Idempotency for any number of requests, keys and           *)
(* fingerprints, any lock TTL, and any retentions above the lock TTL.      *)
(***************************************************************************)
EXTENDS Idempotency, TLAPS

(* A row belongs to a request that carries its key and fingerprint, and its
   lock ends one TTL after the claim that created it. *)
RowsOwned ==
    \A k \in Keys : rows[k].st # "absent" =>
        /\ rows[k].owner \in Requests
        /\ key[rows[k].owner] = k
        /\ fp[rows[k].owner] = rows[k].fp
        /\ rows[k].st = "locked" => rows[k].until = rows[k].created + LockTTL

(* A stored response is the final one of a request that has returned, so it
   cannot change any more. *)
StoredSettled ==
    \A k \in Keys : rows[k].st = "stored" =>
        /\ pc[rows[k].owner] = "ran"
        /\ Storable(result[rows[k].owner])

(* What a request replayed stays the final response of a returned request. *)
ReplaySettled ==
    \A r \in Requests : pc[r] = "replayed" =>
        /\ replay[r] \in Requests
        /\ key[replay[r]] = key[r]
        /\ fp[replay[r]] = fp[r]
        /\ pc[replay[r]] = "ran"
        /\ Storable(result[replay[r]])

(* A claim statement never compares with a time later than the clock. *)
ClaimsTimed ==
    \A r \in Requests :
        /\ at[r] <= now
        /\ pc[r] \in {"claim", "select"} => ret[r] \in Retentions

(* A running request holds its row until its lock passes or the cleanup race
   takes the row away. *)
RunnersHold ==
    \A r \in Requests : pc[r] \in Running =>
        \/ LockPassed(r)
        \/ r \in swept
        \/ Holds(r) /\ rows[key[r]].created = at[r]

(* The inductive invariant. *)
IInv == /\ TypeOK
        /\ RowsOwned
        /\ StoredSettled
        /\ ReplaySettled
        /\ ClaimsTimed
        /\ RunnersHold

USE DEF Results, Storable, Answers, Waiting, Running, PCs

(* An empty table with no request under way satisfies the invariant. *)
LEMMA InitInv == Init => IInv
  BY RequestsAssumption, TTLAssumption, RetentionAssumption
     DEF Init, IInv, TypeOK, Row, AbsentRow, RowsOwned, StoredSettled,
         ReplaySettled, ClaimsTimed, RunnersHold

(* Every step of a request, of the cleanup, of the setting and of the clock
   keeps the state well typed. *)
LEMMA TypeInductive == TypeOK /\ [Next]_vars => TypeOK'
<1> SUFFICES ASSUME TypeOK, [Next]_vars PROVE TypeOK'
  OBVIOUS
<1> USE TTLAssumption, RetentionAssumption
<1> USE DEF TypeOK, Goto, Return, store, input, locals
<1>1. ASSUME NEW r \in Requests, ClaimedRow(r) \in Row,
             \/ Arrive(r) \/ ClaimWins(r) \/ ClaimLoses(r) \/ ClaimFails(r)
      PROVE  TypeOK'
  BY <1>1 DEF Arrive, ClaimWins, ClaimLoses, ClaimFails
<1>2. ASSUME NEW r \in Requests PROVE ClaimedRow(r) \in Row
  BY DEF ClaimedRow, Row
<1>3. ASSUME NEW r \in Requests, SelectMisses(r) PROVE TypeOK'
  <2>1. CASE tries[r] + 1 < ClaimAttempts /\ Goto(r, "claim")
    BY <1>3, <2>1 DEF SelectMisses
  <2>2. CASE Return(r, "in_progress")
    BY <1>3, <2>2 DEF SelectMisses
  <2> QED
    BY <1>3, <2>1, <2>2 DEF SelectMisses
<1>4. ASSUME NEW r \in Requests, SelectRefuses(r) PROVE TypeOK'
  <2>1. CASE Return(r, "key_reused")
    BY <1>4, <2>1 DEF SelectRefuses
  <2>2. CASE Return(r, "in_progress")
    BY <1>4, <2>2 DEF SelectRefuses
  <2> QED
    BY <1>4, <2>1, <2>2 DEF SelectRefuses
<1>5. ASSUME NEW r \in Requests, SelectReplays(r) PROVE TypeOK'
  BY <1>5 DEF SelectReplays, Row
<1>6. ASSUME NEW r \in Requests, SelectFails(r) \/ FinishFails(r) \/ Crash(r)
      PROVE  TypeOK'
  BY <1>6 DEF SelectFails, FinishFails, Crash
<1>7. ASSUME NEW r \in Requests, HandlerEnds(r) PROVE TypeOK'
  BY <1>7 DEF HandlerEnds
<1>8. ASSUME NEW r \in Requests, Complete(r) PROVE TypeOK'
  <2>1. StoredRow(rows[key[r]]) \in Row
    BY DEF StoredRow, Row
  <2>2. rows' \in [Keys -> Row]
    BY <1>8, <2>1 DEF Complete, CompleteKey
  <2> QED
    BY <1>8, <2>2 DEF Complete
<1>9. ASSUME NEW r \in Requests, Release(r) PROVE TypeOK'
  <2>1. AbsentRow \in Row
    BY DEF AbsentRow, Row
  <2>2. rows' \in [Keys -> Row] /\ sweep' \subseteq Keys
    BY <1>9, <2>1 DEF Release, ReleaseKey
  <2> QED
    BY <1>9, <2>2 DEF Release
<1>10. CASE DeleteExpiredSelect
  BY <1>10 DEF DeleteExpiredSelect, ExpiredKeys
<1>11. CASE DeleteExpiredCommit
  BY <1>11 DEF DeleteExpiredCommit, AbsentRow, Row
<1>12. CASE DeleteExpiredFails \/ Tick
  BY <1>12 DEF DeleteExpiredFails, Tick
<1>13. ASSUME NEW d \in Retentions, SetRetention(d) PROVE TypeOK'
  BY <1>13 DEF SetRetention
<1>14. CASE UNCHANGED vars
  BY <1>14 DEF vars
<1> QED
  BY <1>1, <1>2, <1>3, <1>4, <1>5, <1>6, <1>7, <1>8, <1>9, <1>10, <1>11,
     <1>12, <1>13, <1>14 DEF Next, Request

(* A claim never wins the key of a running request whose lock has not passed:
   the claim compares with a time that is not in the future, and a retention
   is longer than a lock. *)
LEMMA ClaimSparesHolder ==
    ASSUME IInv, NEW r \in Requests, pc[r] = "claim", Claimable(r),
           NEW x \in Requests, pc[x] \in Running,
           ~LockPassed(x), x \notin swept
    PROVE  key[x] # key[r]
<1> SUFFICES ASSUME key[x] = key[r] PROVE FALSE
  OBVIOUS
<1>1. /\ rows[key[r]].st = "locked"
      /\ rows[key[r]].created = at[x]
      /\ rows[key[r]].until = at[x] + LockTTL
  BY DEF IInv, RunnersHold, RowsOwned, Holds, TypeOK
<1>2. now \in Nat /\ at[x] \in Nat /\ at[r] \in Nat
  BY DEF IInv, TypeOK
<1>3. at[r] <= now /\ now < at[x] + LockTTL
  BY <1>2, TTLAssumption DEF IInv, ClaimsTimed, LockPassed
<1>4. ret[r] \in Nat /\ ret[r] > LockTTL
  BY RetentionAssumption DEF IInv, ClaimsTimed
<1> QED
  BY <1>1, <1>2, <1>3, <1>4, TTLAssumption DEF Claimable, Expired

(* The invariant is inductive: the steps that matter are the two statements
   that take a row over (ClaimWins, and ClaimFails when only the answer was
   lost), which spare the row of a running request by ClaimSparesHolder, and
   Complete and Release, which touch a row only under its own lock token. *)
LEMMA NextInv == IInv /\ [Next]_vars => IInv'
<1> SUFFICES ASSUME IInv, [Next]_vars PROVE IInv'
  OBVIOUS
<1>0. TypeOK'
  BY TypeInductive DEF IInv
<1> USE <1>0
<1> USE RequestsAssumption, TTLAssumption, AttemptsAssumption, RetentionAssumption
<1> USE DEF IInv, TypeOK, Row, RowsOwned, StoredSettled, ReplaySettled,
            ClaimsTimed, RunnersHold, LockPassed, Holds, Goto, Return,
            store, input, locals
<1>1. ASSUME NEW r \in Requests, Arrive(r) PROVE IInv'
  BY <1>1 DEF Arrive
<1>2. ASSUME NEW r \in Requests, ClaimWins(r) PROVE IInv'
  <2> USE <1>2 DEF ClaimWins, Claimable, ClaimedRow, Expired
  <2>2. RowsOwned'
    OBVIOUS
  <2>3. StoredSettled'
    OBVIOUS
  <2>4. ReplaySettled'
    OBVIOUS
  <2>5. ClaimsTimed'
    OBVIOUS
  <2>6. RunnersHold'
    <3>1. \A x \in Requests : /\ pc[x] \in Running
                              /\ ~LockPassed(x)
                              /\ x \notin swept
                              => key[x] # key[r]
      BY ClaimSparesHolder DEF Claimable
    <3> QED
      BY <3>1
  <2> QED
    BY <2>2, <2>3, <2>4, <2>5, <2>6
<1>3. ASSUME NEW r \in Requests, ClaimLoses(r) PROVE IInv'
  BY <1>3 DEF ClaimLoses
<1>4. ASSUME NEW r \in Requests, ClaimFails(r) PROVE IInv'
  <2> USE <1>4 DEF ClaimFails, Claimable, ClaimedRow, Expired
  <2>2. RowsOwned'
    OBVIOUS
  <2>3. StoredSettled'
    OBVIOUS
  <2>4. ReplaySettled'
    OBVIOUS
  <2>5. ClaimsTimed'
    OBVIOUS
  <2>6. RunnersHold'
    <3>1. CASE UNCHANGED rows
      BY <3>1
    <3>2. CASE Claimable(r) /\ rows' = [rows EXCEPT ![key[r]] = ClaimedRow(r)]
      <4>1. \A x \in Requests : /\ pc[x] \in Running
                                /\ ~LockPassed(x)
                                /\ x \notin swept
                                => key[x] # key[r]
        BY <3>2, ClaimSparesHolder
      <4> QED
        BY <3>2, <4>1
    <3> QED
      BY <3>1, <3>2
  <2> QED
    BY <2>2, <2>3, <2>4, <2>5, <2>6
<1>5. ASSUME NEW r \in Requests, SelectMisses(r) PROVE IInv'
  <2> USE <1>5 DEF SelectMisses
  <2>2. RowsOwned'
    OBVIOUS
  <2>3. StoredSettled'
    OBVIOUS
  <2>4. ReplaySettled'
    OBVIOUS
  <2>5. ClaimsTimed'
    OBVIOUS
  <2>6. RunnersHold'
    OBVIOUS
  <2> QED
    BY <2>2, <2>3, <2>4, <2>5, <2>6
<1>6. ASSUME NEW r \in Requests, SelectRefuses(r) PROVE IInv'
  <2> USE <1>6 DEF SelectRefuses
  <2>2. RowsOwned'
    OBVIOUS
  <2>3. StoredSettled'
    OBVIOUS
  <2>4. ReplaySettled'
    OBVIOUS
  <2>5. ClaimsTimed'
    OBVIOUS
  <2>6. RunnersHold'
    OBVIOUS
  <2> QED
    BY <2>2, <2>3, <2>4, <2>5, <2>6
<1>7. ASSUME NEW r \in Requests, SelectReplays(r) PROVE IInv'
  BY <1>7 DEF SelectReplays
<1>8. ASSUME NEW r \in Requests, SelectFails(r) PROVE IInv'
  BY <1>8 DEF SelectFails
<1>9. ASSUME NEW r \in Requests, HandlerEnds(r) PROVE IInv'
  BY <1>9 DEF HandlerEnds
<1>10. ASSUME NEW r \in Requests, Complete(r) PROVE IInv'
  <2> USE <1>10 DEF Complete, CompleteKey, StoredRow
  <2>1. CASE Holds(r)
    <3>1. \A k \in Keys : k # key[r] => rows'[k] = rows[k]
      BY <2>1
    <3>2. /\ rows'[key[r]].st = "stored"
          /\ rows'[key[r]].owner = r
          /\ rows'[key[r]].fp = fp[r]
      BY <2>1
    <3>3. \A x \in Requests : x # r /\ Holds(x) => key[x] # key[r]
      BY <2>1
    <3>4. RowsOwned'
      BY <3>1, <3>2
    <3>5. StoredSettled'
      BY <3>1, <3>2
    <3>6. ReplaySettled' /\ ClaimsTimed'
      OBVIOUS
    <3>7. RunnersHold'
      BY <3>1, <3>3
    <3> QED
      BY <3>4, <3>5, <3>6, <3>7
  <2>2. CASE ~Holds(r)
    <3>1. rows' = rows
      BY <2>2
    <3> QED
      BY <3>1
  <2> QED
    BY <2>1, <2>2
<1>11. ASSUME NEW r \in Requests, Release(r) PROVE IInv'
  <2> USE <1>11 DEF Release, ReleaseKey, AbsentRow
  <2>2. RowsOwned'
    OBVIOUS
  <2>3. StoredSettled'
    <3>1. CASE Holds(r)
      <4>1. \A k \in Keys : k # key[r] => rows'[k] = rows[k]
        BY <3>1
      <4>2. rows'[key[r]].st = "absent"
        BY <3>1
      <4> QED
        BY <4>1, <4>2
    <3>2. CASE ~Holds(r)
      BY <3>2
    <3> QED
      BY <3>1, <3>2
  <2>4. ReplaySettled'
    OBVIOUS
  <2>5. ClaimsTimed'
    OBVIOUS
  <2>6. RunnersHold'
    <3>1. CASE Holds(r)
      <4>1. \A k \in Keys : k # key[r] => rows'[k] = rows[k]
        BY <3>1
      <4>2. \A x \in Requests : x # r /\ Holds(x) => key[x] # key[r]
        BY <3>1
      <4> QED
        BY <4>1, <4>2
    <3>2. CASE ~Holds(r)
      BY <3>2
    <3> QED
      BY <3>1, <3>2
  <2> QED
    BY <2>2, <2>3, <2>4, <2>5, <2>6
<1>12. ASSUME NEW r \in Requests, FinishFails(r) PROVE IInv'
  BY <1>12 DEF FinishFails
<1>13. ASSUME NEW r \in Requests, Crash(r) PROVE IInv'
  BY <1>13 DEF Crash
<1>14. CASE DeleteExpiredSelect
  BY <1>14 DEF DeleteExpiredSelect, ExpiredKeys
<1>15. CASE DeleteExpiredCommit
  BY <1>15 DEF DeleteExpiredCommit, AbsentRow, Expired
<1>16. CASE DeleteExpiredFails
  BY <1>16 DEF DeleteExpiredFails
<1>17. CASE Tick
  BY <1>17 DEF Tick
<1>18. ASSUME NEW d \in Retentions, SetRetention(d) PROVE IInv'
  BY <1>18 DEF SetRetention
<1>19. CASE UNCHANGED vars
  BY <1>19 DEF vars
<1> QED
  BY <1>1, <1>2, <1>3, <1>4, <1>5, <1>6, <1>7, <1>8, <1>9, <1>10, <1>11,
     <1>12, <1>13, <1>14, <1>15, <1>16, <1>17, <1>18, <1>19 DEF Next, Request

-----------------------------------------------------------------------------

(* Every reachable state is well typed. *)
THEOREM TypeCorrect == Spec => []TypeOK
<1>1. Init => TypeOK
  BY InitInv DEF IInv
<1> QED
  BY <1>1, TypeInductive, PTL DEF Spec

(* Hence it holds in every reachable state. *)
LEMMA Invariance == Spec => []IInv
  BY InitInv, NextInv, PTL DEF Spec

(* Only a lock that passed its TTL, or the cleanup race, lets two requests
   with the same key run at once. *)
THEOREM ExclusiveRun == Spec => []OneRunnerPerKey
<1>1. IInv => OneRunnerPerKey
  BY DEF IInv, OneRunnerPerKey, RunnersHold, Holds
<1> QED
  BY <1>1, Invariance, PTL

(* Every replayed response is the final response of an execution of the same
   request. *)
THEOREM FaithfulReplay == Spec => []ReplayFaithful
<1>1. IInv => ReplayFaithful
  BY DEF IInv, ReplayFaithful, ReplaySettled
<1> QED
  BY <1>1, Invariance, PTL

(* A stored response is not touched before a retention has passed, except by
   the cleanup race. *)
THEOREM StoredResponsesFinal == Spec => StoredIsFinal
<1> DEFINE Keeps(k) == rows[k].st = "stored" /\ rows'[k] # rows[k] =>
                           \/ \E d \in Retentions : Expired(rows[k], now, d)
                           \/ rows[k].owner \in swept'
<1>1. ASSUME IInv, [Next]_vars, NEW k \in Keys PROVE Keeps(k)
  <2> USE <1>1 DEF IInv, TypeOK
  <2> SUFFICES ASSUME rows[k].st = "stored", rows'[k] # rows[k]
               PROVE  \/ \E d \in Retentions : Expired(rows[k], now, d)
                      \/ rows[k].owner \in swept'
    OBVIOUS
  <2>1. ASSUME NEW r \in Requests, pc[r] = "claim", Claimable(r), key[r] = k
        PROVE  \E d \in Retentions : Expired(rows[k], now, d)
    <3>1. rows[k].created + ret[r] <= at[r] /\ at[r] <= now
      BY <2>1 DEF Claimable, Expired, ClaimsTimed
    <3>2. ret[r] \in Retentions /\ ret[r] \in Nat /\ rows[k].created \in Nat
      BY <2>1, RetentionAssumption DEF ClaimsTimed, Row
    <3>3. Expired(rows[k], now, ret[r])
      BY <3>1, <3>2 DEF Expired
    <3> QED
      BY <3>2, <3>3
  <2>2. ASSUME NEW r \in Requests, ClaimWins(r) \/ ClaimFails(r)
        PROVE  \E d \in Retentions : Expired(rows[k], now, d)
    BY <2>1, <2>2 DEF ClaimWins, ClaimFails
  <2>3. ASSUME NEW r \in Requests, Complete(r) \/ Release(r) PROVE FALSE
    <3>1. Holds(r) => key[r] # k
      BY DEF Holds
    <3> QED
      BY <2>3, <3>1 DEF Complete, CompleteKey, Release, ReleaseKey
  <2>4. CASE DeleteExpiredCommit
    <3>1. k \in sweep /\ rows[k].owner \in Requests
      BY <2>4 DEF DeleteExpiredCommit, RowsOwned
    <3>2. CASE Expired(rows[k], now, retention)
      BY <3>2
    <3>3. CASE ~Expired(rows[k], now, retention)
      BY <2>4, <3>1, <3>3 DEF DeleteExpiredCommit
    <3> QED
      BY <3>2, <3>3
  <2> QED
    BY <2>2, <2>3, <2>4
       DEF Next, Request, vars, store, Arrive, ClaimLoses, SelectMisses,
           SelectRefuses, SelectReplays, SelectFails, HandlerEnds, FinishFails,
           Crash, DeleteExpiredSelect, DeleteExpiredFails, SetRetention, Tick
<1>2. IInv /\ [Next]_vars => [\A k \in Keys : Keeps(k)]_vars
  BY <1>1
<1> QED
  BY <1>2, Invariance, PTL DEF Spec, StoredIsFinal
=============================================================================
