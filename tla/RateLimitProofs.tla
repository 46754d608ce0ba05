-------------------------- MODULE RateLimitProofs --------------------------
(***************************************************************************)
(* Proofs about RateLimit for any number of instances and requests and any *)
(* set of limits, which may change at any time.                            *)
(***************************************************************************)
EXTENDS RateLimit, FiniteSetTheorems, TLAPS

(* A statement's time is not in the future, and nobody was allowed in an epoch
   that has not begun. *)
Timed == \A r \in Requests : at[r] <= Clock /\ era[r] <= epoch

(* An absent row owes nothing to any statement that may still be applied. *)
AbsentIsFull ==
    ~present => tat <= Clock /\ \A r \in InFlight : tat <= at[r]

(* The arrival time accounts for everything taken since any allowed request of
   this epoch. *)
Owed ==
    \A r \in Requests : pc[r] = "allowed" /\ era[r] = epoch =>
        /\ before[r] + Interval(lim[r]) <= spent
        /\ at[r] + spent - before[r] <= tat

(* The inductive invariant. *)
IInv == TypeOK /\ Timed /\ AbsentIsFull /\ Owed /\ SharedBudget

(* A limit has a positive interval, in ticks and in microseconds, and tolerates
   at least one request. *)
LEMMA LimitFacts ==
    ASSUME NEW l \in Limits
    PROVE  /\ l.every \in Nat /\ l.every > 0 /\ l.burst \in Nat /\ l.burst > 0
           /\ Interval(l) \in Nat /\ Interval(l) > 0
           /\ Tolerance(l) \in Nat
           /\ Interval(l) <= Tolerance(l)
<1>1. l.every \in Nat \ {0} /\ l.burst \in Nat \ {0}
  BY LimitsAssumption
<1>2. \A i, b \in Nat \ {0} : i * b \in Nat /\ i <= i * b
  OBVIOUS
<1>3. l.every \div Micro \in Int
  BY <1>1, MicroAssumption
<1>4. Interval(l) \in Nat \ {0}
  BY <1>3 DEF Interval, Later
<1> QED
  BY <1>1, <1>2, <1>4 DEF Tolerance

(* The clock of the database follows the time. *)
LEMMA ClockFacts ==
    ASSUME NEW n \in Nat
    PROVE  n \div Micro \in Nat /\ (n + 1) \div Micro >= n \div Micro
  BY MicroAssumption

(* A refused request waits at least one unit. *)
LEMMA RetryType ==
    ASSUME NEW l \in Limits, NEW t \in Nat, NEW old \in Nat \cup {NoRow}
    PROVE  RetryAfter(old, t, l) \in Nat
  BY LimitFacts DEF RetryAfter, Later, Arrival, NoRow

(* The initial state satisfies the invariant. *)
LEMMA InitInv == Init => IInv
<1> SUFFICES ASSUME Init PROVE IInv
  OBVIOUS
<1>1. TypeOK
  <2>1. Fresh(limit, 0) \in Memory
    BY DEF Init, Fresh, Memory
  <2>2. present \in BOOLEAN /\ sweep \in BOOLEAN
    BY DEF Init
  <2> QED
    BY <2>1, <2>2 DEF Init, TypeOK, PCs, NoRow
<1>2. Timed /\ AbsentIsFull
  BY ClockFacts DEF Init, Timed, AbsentIsFull, InFlight, Clock
<1>3. Owed /\ SharedBudget
  BY DEF Init, Owed, SharedBudget
<1> QED
  BY <1>1, <1>2, <1>3 DEF IInv

(* Every step keeps the state well typed. *)
LEMMA TypeInductive == TypeOK /\ [Next]_vars => TypeOK'
<1> SUFFICES ASSUME TypeOK, [Next]_vars PROVE TypeOK'
  OBVIOUS
<1> USE DEF TypeOK, PCs, Goto, row, local, history
<1>1. \A r \in Requests :
        /\ lim[r] \in Limits
        /\ Interval(lim[r]) \in Nat
        /\ lim[r].every \in Nat /\ limit.every \in Nat
  BY LimitFacts
<1>a. Clock \in Nat
  BY ClockFacts DEF Clock
<1>2. \A i \in Instances : MemoryFor(i, limit) \in Memory
  BY DEF MemoryFor, Memory, Fresh
<1>3. ASSUME NEW r \in Requests, TakeFromRow(r)
      PROVE  /\ tat' \in Nat /\ present' \in BOOLEAN /\ spent' \in Nat
             /\ before' \in [Requests -> Nat] /\ era' \in [Requests -> Nat]
             /\ sweep' \in BOOLEAN /\ epoch' \in Nat
  BY <1>1, <1>3 DEF TakeFromRow, Arrival, Later
<1>4. ASSUME NEW r \in Requests, PrecheckPasses(r) PROVE TypeOK'
  <2> DEFINE m == MemoryFor(inst[r], limit)
  <2>1. m \in Memory /\ m.gen \in Nat
    BY <1>2 DEF Memory
  <2>2. WithMemory(m, Arrival(m.local, now, limit.every), m.fallback) \in Memory
    BY <1>1, <2>1 DEF Memory, WithMemory, Arrival, Later
  <2> HIDE DEF m
  <2> QED
    BY <1>4, <2>1, <2>2 DEF PrecheckPasses, m
<1>5. ASSUME NEW r \in Requests, PrecheckRefuses(r) PROVE TypeOK'
  BY <1>2, <1>5 DEF PrecheckRefuses
<1>6. ASSUME NEW r \in Requests, TakeBegins(r) PROVE TypeOK'
  BY <1>a, <1>6 DEF TakeBegins
<1>7. ASSUME NEW r \in Requests, TakeAllows(r) PROVE TypeOK'
  BY <1>3, <1>7 DEF TakeAllows, TakeEnds
<1>8. ASSUME NEW r \in Requests, TakeRefuses(r) PROVE TypeOK'
  <2>1. RetryAfter(seen[r], at[r], lim[r]) \in Nat
    BY RetryType
  <2> QED
    BY <1>8, <2>1 DEF TakeRefuses, TakeEnds
<1>9. ASSUME NEW r \in Requests, TakeFails(r) PROVE TypeOK'
  BY <1>3, <1>9 DEF TakeFails, TakeEnds, Event
<1>10. ASSUME NEW r \in Requests, Fallback(r) PROVE TypeOK'
  <2>1. mem' \in [Instances -> Memory]
    <3> DEFINE m == mem[inst[r]]
    <3>1. WithMemory(m, m.local, Arrival(m.fallback, now, lim[r].every)) \in Memory
      BY <1>1 DEF Memory, WithMemory, Arrival, Later
    <3> QED
      BY <1>10, <3>1 DEF Fallback
  <2>2. pc' \in [Requests -> PCs]
    BY <1>10 DEF Fallback
  <2> QED
    BY <1>10, <2>1, <2>2 DEF Fallback
<1>11. CASE DeleteExpiredSelect \/ DeleteExpiredFails \/ Tick
  <2>1. sweep' \in BOOLEAN /\ present' \in BOOLEAN
    BY <1>11, Zenon DEF DeleteExpiredSelect, DeleteExpiredFails, Tick
  <2>2. now' \in Nat
    BY <1>11 DEF DeleteExpiredSelect, DeleteExpiredFails, Tick
  <2> QED
    BY <1>11, <2>1, <2>2, Zenon DEF DeleteExpiredSelect, DeleteExpiredFails, Tick
<1>12. CASE DeleteExpiredCommit \/ Reset
  <2>1. DeleteRow
    BY <1>12 DEF DeleteExpiredCommit, Reset
  <2>2. tat' \in Nat /\ epoch' \in Nat /\ spent' \in Nat
    BY <2>1 DEF DeleteRow
  <2>3. events' \in Nat
    BY <1>12 DEF DeleteExpiredCommit, Reset, Event
  <2>4. present' \in BOOLEAN /\ sweep' \in BOOLEAN
    BY <2>1 DEF DeleteRow
  <2> QED
    BY <1>12, <2>1, <2>2, <2>3, <2>4, Zenon
       DEF DeleteExpiredCommit, Reset, DeleteRow
<1>13. ASSUME NEW l \in Limits, SetLimit(l) PROVE TypeOK'
  BY <1>13 DEF SetLimit, Event
<1>14. CASE UNCHANGED vars
  BY <1>14 DEF vars
<1> QED
  BY <1>4, <1>5, <1>6, <1>7, <1>8, <1>9, <1>10, <1>11, <1>12, <1>13, <1>14
     DEF Next, Take

(* One statement that takes from the row keeps the accounts: this is the
   argument of GCRA.  The new arrival time is at least one interval past the
   old one and past the statement's own time, and at most the tolerance ahead
   of the latter. *)
LEMMA TakeKeepsBudget ==
    ASSUME IInv, NEW s \in Requests, pc[s] = "take", RowAdmits(s),
           TakeFromRow(s)
    PROVE  /\ tat' >= tat + Interval(lim[s])
           /\ tat' >= at[s] + Interval(lim[s])
           /\ tat' <= at[s] + Tolerance(lim[s])
<1>1. /\ Interval(lim[s]) \in Nat /\ Tolerance(lim[s]) \in Nat
      /\ Interval(lim[s]) <= Tolerance(lim[s])
  BY LimitFacts DEF IInv, TypeOK
<1>2. tat \in Nat /\ at[s] \in Nat /\ present \in BOOLEAN
  BY DEF IInv, TypeOK
<1>3. CASE present
  BY <1>1, <1>2, <1>3 DEF TakeFromRow, RowAdmits, Admits, Arrival, Later
<1>4. CASE ~present
  <2>1. tat <= at[s]
    BY <1>4 DEF IInv, AbsentIsFull, InFlight
  <2>2. tat' = at[s] + Interval(lim[s])
    BY <1>4 DEF TakeFromRow
  <2> QED
    BY <1>1, <1>2, <2>1, <2>2
<1> QED
  BY <1>3, <1>4

(* The invariant is inductive. *)
LEMMA NextInv == IInv /\ [Next]_vars => IInv'
<1> SUFFICES ASSUME IInv, [Next]_vars PROVE IInv'
  OBVIOUS
<1>0. TypeOK /\ TypeOK'
  BY TypeInductive DEF IInv
<1>a. \A l \in Limits : /\ Interval(l) \in Nat /\ Tolerance(l) \in Nat
                        /\ Interval(l) <= Tolerance(l)
  BY LimitFacts
<1>c. Clock \in Nat /\ Clock' \in Nat /\ (now' = now => Clock' = Clock)
  BY <1>0, ClockFacts DEF TypeOK, Clock
<1> DEFINE Rest == Timed /\ AbsentIsFull /\ Owed /\ SharedBudget
<1> USE DEF Goto, row, local, history
(* Steps that leave the row, the history and the allowed requests alone. *)
<1>1. ASSUME UNCHANGED <<present, tat, spent, before, epoch, era, now>>,
             \A r \in Requests : pc'[r] = "allowed" <=> pc[r] = "allowed",
             \A r \in Requests : pc[r] = "allowed" =>
                 lim'[r] = lim[r] /\ at'[r] = at[r],
             \A r \in Requests : pc'[r] = "take" =>
                 \/ pc[r] = "take" /\ at'[r] = at[r]
                 \/ at'[r] = Clock,
             \A r \in Requests : at'[r] = at[r] \/ at'[r] = Clock
      PROVE  Rest'
  <2> USE <1>0, <1>c, <1>1 DEF IInv
  <2>1. Timed'
    BY DEF Timed, TypeOK
  <2>2. AbsentIsFull'
    BY DEF AbsentIsFull, InFlight, TypeOK
  <2>3. Owed'
    BY DEF Owed, TypeOK
  <2>4. SharedBudget'
    BY DEF SharedBudget, TypeOK
  <2> QED
    BY <2>1, <2>2, <2>3, <2>4
<1>2. ASSUME NEW r \in Requests, PrecheckPasses(r) \/ PrecheckRefuses(r)
      PROVE  Rest'
  BY <1>0, <1>1, <1>2 DEF PrecheckPasses, PrecheckRefuses, TypeOK
<1>3. ASSUME NEW r \in Requests, TakeBegins(r) PROVE Rest'
  BY <1>0, <1>1, <1>3 DEF TakeBegins, TypeOK
<1>4. ASSUME NEW r \in Requests, TakeRefuses(r) PROVE Rest'
  BY <1>0, <1>1, <1>4 DEF TakeRefuses, TakeEnds, TypeOK
<1>5. ASSUME NEW r \in Requests, Fallback(r) PROVE Rest'
  <2>1. pc' = [pc EXCEPT ![r] = "allowedInMemory"]
        \/ pc' = [pc EXCEPT ![r] = "refusedInMemory"]
    BY <1>5 DEF Fallback
  <2>2. UNCHANGED <<present, tat, spent, before, epoch, era, now, lim, at>>
    BY <1>5 DEF Fallback
  <2>3. pc[r] = "fallback"
    BY <1>5 DEF Fallback
  <2> QED
    BY <1>0, <1>1, <2>1, <2>2, <2>3 DEF TypeOK
(* A statement is applied, whether or not its answer arrives. *)
<1>6. ASSUME NEW s \in Requests, pc[s] = "take", RowAdmits(s), TakeFromRow(s),
             NEW p \in {"allowed", "fallback"}, pc' = [pc EXCEPT ![s] = p],
             UNCHANGED <<now, lim, at>>
      PROVE  Rest'
  <2> USE <1>6
  <2>1. /\ tat' >= tat + Interval(lim[s])
        /\ tat' >= at[s] + Interval(lim[s])
        /\ tat' <= at[s] + Tolerance(lim[s])
    BY TakeKeepsBudget
  <2>2. /\ spent' = spent + Interval(lim[s])
        /\ before' = [before EXCEPT ![s] = spent]
        /\ era' = [era EXCEPT ![s] = epoch]
        /\ epoch' = epoch
        /\ present' = TRUE
    BY DEF TakeFromRow
  <2> USE <1>0, <1>a, <1>c DEF IInv
  <2>3. Timed'
    BY <2>2 DEF Timed, TypeOK
  <2>4. AbsentIsFull'
    BY <2>2 DEF AbsentIsFull
  <2>5. Owed'
    <3> SUFFICES ASSUME NEW r \in Requests, pc'[r] = "allowed", era'[r] = epoch'
                 PROVE  /\ before'[r] + Interval(lim'[r]) <= spent'
                        /\ at'[r] + spent' - before'[r] <= tat'
      BY DEF Owed
    <3>1. CASE r = s
      BY <2>1, <2>2, <3>1 DEF TypeOK
    <3>2. CASE r # s
      <4>1. /\ before[r] + Interval(lim[r]) <= spent
            /\ at[r] + spent - before[r] <= tat
        BY <2>2, <3>2 DEF Owed, TypeOK
      <4> QED
        BY <2>1, <2>2, <3>2, <4>1 DEF TypeOK
    <3> QED
      BY <3>1, <3>2
  <2>6. SharedBudget'
    <3> SUFFICES ASSUME NEW q \in Requests, NEW r \in Requests,
                        pc'[q] = "allowed", pc'[r] = "allowed",
                        era'[q] = era'[r], before'[q] <= before'[r]
                 PROVE  before'[r] + Interval(lim'[r]) - before'[q]
                            <= at'[r] - at'[q] + Tolerance(lim'[r])
      BY DEF SharedBudget
    <3>1. CASE q # s /\ r # s
      <4>1. /\ pc[q] = "allowed" /\ pc[r] = "allowed" /\ era[q] = era[r]
            /\ before[q] <= before[r]
        BY <2>2, <3>1 DEF TypeOK
      <4>2. before[r] + Interval(lim[r]) - before[q]
                <= at[r] - at[q] + Tolerance(lim[r])
        BY <4>1 DEF SharedBudget
      <4> QED
        BY <2>2, <3>1, <4>2 DEF TypeOK
    <3>2. CASE r = s /\ q # s
      <4>1. at[q] + spent - before[q] <= tat
        BY <2>2, <3>2 DEF Owed, TypeOK
      <4> QED
        BY <2>1, <2>2, <3>2, <4>1 DEF TypeOK
    <3>3. CASE q = s /\ r # s
      <4>1. before[r] + Interval(lim[r]) <= spent
        BY <2>2, <3>3 DEF Owed, TypeOK
      <4>2. lim[r] \in Limits /\ Interval(lim[r]) > 0
        BY LimitFacts DEF TypeOK
      <4> QED
        BY <2>2, <3>3, <4>1, <4>2 DEF TypeOK
    <3>4. CASE q = s /\ r = s
      BY <2>2, <3>4 DEF TypeOK
    <3> QED
      BY <3>1, <3>2, <3>3, <3>4
  <2> QED
    BY <2>3, <2>4, <2>5, <2>6
<1>7. ASSUME NEW r \in Requests, TakeAllows(r) PROVE Rest'
  BY <1>6, <1>7 DEF TakeAllows, TakeEnds
<1>8. ASSUME NEW r \in Requests, TakeFails(r) PROVE Rest'
  <2>1. CASE UNCHANGED <<row, history>>
    BY <1>0, <1>1, <1>8, <2>1 DEF TakeFails, TakeEnds, TypeOK
  <2>2. CASE RowAdmits(r) /\ TakeFromRow(r)
    BY <1>6, <1>8, <2>2 DEF TakeFails, TakeEnds
  <2> QED
    BY <1>8, <2>1, <2>2 DEF TakeFails
(* The row goes. *)
<1>9. ASSUME DeleteExpiredCommit \/ Reset PROVE Rest'
  <2>1. DeleteRow /\ UNCHANGED <<now, pc, lim, at>>
    BY <1>9 DEF DeleteExpiredCommit, Reset
  <2> DEFINE full == tat <= Clock /\ \A r \in InFlight : tat <= at[r]
  <2> USE <1>0, <1>c DEF IInv
  <2>2. CASE full
    <3>1. /\ present' = FALSE
          /\ UNCHANGED <<tat, epoch, spent, before, era>>
      BY <2>1, <2>2 DEF DeleteRow
    <3>2. Timed' /\ Owed' /\ SharedBudget'
      BY <2>1, <3>1 DEF Timed, Owed, SharedBudget
    <3>3. AbsentIsFull'
      BY <2>1, <2>2, <3>1 DEF AbsentIsFull, InFlight
    <3> QED
      BY <3>2, <3>3
  <2>3. CASE ~full
    <3>1. /\ tat' = 0 /\ epoch' = epoch + 1
          /\ UNCHANGED <<before, era>>
      BY <2>1, <2>3 DEF DeleteRow
    <3>2. \A r \in Requests : era'[r] # epoch'
      BY <3>1 DEF Timed, TypeOK
    <3>3. Timed'
      BY <2>1, <3>1 DEF Timed, TypeOK
    <3>4. Owed' /\ SharedBudget'
      BY <2>1, <3>1, <3>2 DEF Owed, SharedBudget
    <3>5. AbsentIsFull'
      BY <2>1, <3>1 DEF AbsentIsFull, InFlight, TypeOK
    <3> QED
      BY <3>3, <3>4, <3>5
  <2> QED
    BY <2>2, <2>3
<1>10. ASSUME DeleteExpiredSelect \/ DeleteExpiredFails PROVE Rest'
  BY <1>0, <1>1, <1>10 DEF DeleteExpiredSelect, DeleteExpiredFails
<1>11. ASSUME NEW l \in Limits, SetLimit(l) PROVE Rest'
  BY <1>0, <1>1, <1>11 DEF SetLimit
<1>12. ASSUME Tick PROVE Rest'
  <2>1. now' = now + 1
        /\ UNCHANGED <<present, tat, pc, lim, at, spent, before, epoch, era>>
    BY <1>12 DEF Tick
  <2>2. Clock' >= Clock
    BY <1>0, <2>1, ClockFacts DEF TypeOK, Clock
  <2> QED
    BY <1>0, <1>c, <2>1, <2>2
       DEF IInv, TypeOK, Timed, AbsentIsFull, InFlight, Owed, SharedBudget
<1>13. ASSUME UNCHANGED vars PROVE Rest'
  BY <1>0, <1>1, <1>13 DEF vars
<1>14. Rest'
  BY <1>2, <1>3, <1>4, <1>5, <1>7, <1>8, <1>9, <1>10, <1>11, <1>12, <1>13
     DEF Next, Take
<1> QED
  BY <1>0, <1>14 DEF IInv

-----------------------------------------------------------------------------

(* Every reachable state is well typed; in particular no client is told to
   retry in the past. *)
THEOREM TypeCorrect == Spec => []TypeOK
<1>1. Init => TypeOK
  BY InitInv DEF IInv
<1> QED
  BY <1>1, TypeInductive, PTL DEF Spec

(* However many instances take from the row, however late their statements
   are applied and however the limit changes, the requests it lets through
   never exceed the time that passed plus the burst. *)
THEOREM BudgetIsShared == Spec => []SharedBudget
<1>1. Spec => []IInv
  BY InitInv, NextInv, PTL DEF Spec
<1>2. IInv => SharedBudget
  BY DEF IInv
<1> QED
  BY <1>1, <1>2, PTL

(* The arithmetic of retryAfter: of a bucket that refuses at t and was old in
   the snapshot, whose arrival time has only moved on since, it says no more
   than must be waited, and exactly that if the bucket did not change. *)
LEMMA RetryArithmetic ==
    ASSUME NEW l \in Limits, NEW a \in Nat, NEW old \in Nat, NEW t \in Nat,
           old <= a, ~Admits(a, t, Interval(l), Tolerance(l))
    PROVE  /\ \A d \in 0..(RetryAfter(old, t, l) - 1) :
                 ~Admits(a, t + d, Interval(l), Tolerance(l))
           /\ old = a =>
                 Admits(a, t + RetryAfter(old, t, l), Interval(l), Tolerance(l))
<1> DEFINE I == Interval(l)  T == Tolerance(l)  R == RetryAfter(old, t, l)
<1>1. I \in Nat /\ I > 0 /\ T \in Nat /\ I <= T
  BY LimitFacts
<1>2. a > t /\ a + I - t > T
  BY <1>1 DEF Admits, Arrival, Later
<1>3. R \in Nat /\ (R = 1 \/ (old > t /\ R = old + I - t - T))
  BY <1>1, <1>2 DEF RetryAfter, Arrival, Later, NoRow
<1>4. old = a => R = a + I - t - T
  BY <1>1, <1>2 DEF RetryAfter, Arrival, Later, NoRow
<1> HIDE DEF I, T, R
<1>5. ASSUME NEW d \in 0..(R - 1) PROVE ~Admits(a, t + d, I, T)
  BY <1>1, <1>2, <1>3, <1>5 DEF Admits, Arrival, Later
<1>6. old = a => Admits(a, t + R, I, T)
  BY <1>1, <1>2, <1>4 DEF Admits, Arrival, Later
<1> QED
  BY <1>5, <1>6 DEF I, T, R

(* A refused client is never told to wait longer than it must, however the
   statements that were applied since its snapshot moved the arrival time on,
   and is let through after that wait if none was. *)
THEOREM RetriesExact == Spec => RetryIsExact
<1> DEFINE Exact(r) ==
      TakeRefuses(r) /\ present /\ seen[r] # NoRow /\ seen[r] <= tat =>
         LET ok(d) ==
               Admits(tat, at[r] + d, Interval(lim[r]), Tolerance(lim[r]))
         IN
         /\ \A d \in 0..(retry'[r] - 1) : ~ok(d)
         /\ seen[r] = tat => ok(retry'[r])
<1>1. ASSUME TypeOK, NEW r \in Requests PROVE Exact(r)
  <2> SUFFICES ASSUME TakeRefuses(r), present, seen[r] # NoRow, seen[r] <= tat
               PROVE  /\ \A d \in 0..(retry'[r] - 1) :
                           ~Admits(tat, at[r] + d, Interval(lim[r]), Tolerance(lim[r]))
                      /\ seen[r] = tat =>
                           Admits(tat, at[r] + retry'[r], Interval(lim[r]),
                                  Tolerance(lim[r]))
    OBVIOUS
  <2>1. ~Admits(tat, at[r], Interval(lim[r]), Tolerance(lim[r]))
    BY DEF TakeRefuses, RowAdmits
  <2>2. retry'[r] = RetryAfter(seen[r], at[r], lim[r])
    BY <1>1 DEF TakeRefuses, TypeOK
  <2>3. lim[r] \in Limits /\ tat \in Nat /\ at[r] \in Nat /\ seen[r] \in Nat
    BY <1>1 DEF TypeOK
  <2> QED
    BY <2>1, <2>2, <2>3, RetryArithmetic
<1>2. TypeOK /\ [Next]_vars => [\A r \in Requests : Exact(r)]_vars
  BY <1>1
<1> QED
  BY <1>2, TypeCorrect, PTL DEF Spec, RetryIsExact

-----------------------------------------------------------------------------
(* The pre-check *)

Passed(p) == pc[p] \notin {"idle", "refusedLocally"}

(* The requests of A passed the present limiters of instance i, at t or
   later. *)
Since(i, t, A) ==
    /\ IsFiniteSet(A)
    /\ \A p \in A : /\ Passed(p) /\ inst[p] = i
                    /\ gen[p] = mem[i].gen /\ entry[p] >= t

(* No request passed limiters that are not there yet. *)
Generations == \A p \in Requests : Passed(p) => gen[p] <= mem[inst[p]].gen

(* The bucket holds at least everything it let through since any time, ... *)
Counted ==
    \A i \in Instances, t \in Nat, A \in SUBSET Requests :
        Since(i, t, A) /\ A # {} =>
            t + Cardinality(A) * mem[i].limit.every <= mem[i].local

(* ... and no more than what it let through since it was last empty, at t. *)
Filled(i, t, A) ==
    /\ Since(i, t, A) /\ t <= now
    /\ mem[i].local <= t + Cardinality(A) * mem[i].limit.every
Busy == \A i \in Instances : \E t \in Nat, A \in SUBSET Requests : Filled(i, t, A)

(* Only so many requests have come. *)
Come == {r \in Requests : pc[r] # "idle"}
FewCame == IsFiniteSet(Come)

PInv == Generations /\ Counted /\ Busy /\ FewCame

LEMMA Multiples ==
    /\ \A n, i \in Nat : n * i \in Nat /\ (n + 1) * i = n * i + i
    /\ \A i \in Nat : 0 * i = 0 /\ 1 * i = i
    /\ \A n, b, i \in Nat : n <= b => n * i <= b * i
<1>1. \A n, i \in Nat : n * i \in Nat /\ (n + 1) * i = n * i + i
  OBVIOUS
<1>2. \A i \in Nat : 0 * i = 0 /\ 1 * i = i
  OBVIOUS
<1>3. ASSUME NEW n \in Nat, NEW b \in Nat, NEW i \in Nat, n <= b
      PROVE  n * i <= b * i
  <2>1. PICK d \in Nat : b = n + d
    <3>1. b - n \in Nat /\ b = n + (b - n)
      BY <1>3
    <3> QED
      BY <3>1
  <2>2. b * i = n * i + d * i
    BY <2>1
  <2>3. d * i \in Nat /\ n * i \in Nat
    BY <1>1
  <2> QED
    BY <2>2, <2>3
<1> QED
  BY <1>1, <1>2, <1>3

LEMMA PrecheckInit == Init => PInv
<1> SUFFICES ASSUME Init PROVE PInv
  OBVIOUS
<1>1. \A p \in Requests : ~Passed(p)
  BY DEF Init, Passed
<1>2. Generations /\ Counted
  BY <1>1 DEF Generations, Counted, Since
<1>3. ASSUME NEW i \in Instances PROVE Filled(i, 0, {})
  <2>1. mem[i].local = 0 /\ mem[i].limit \in Limits /\ now = 0
    BY DEF Init, Fresh
  <2>2. 0 * mem[i].limit.every = 0
    BY <2>1, LimitFacts
  <2> QED
    BY <2>1, <2>2, FS_EmptySet DEF Filled, Since
<1>4. Busy
  BY <1>3 DEF Busy
<1>5. FewCame
  <2>1. Come = {}
    BY DEF Init, Come
  <2> QED
    BY <2>1, FS_EmptySet DEF FewCame
<1> QED
  BY <1>2, <1>4, <1>5 DEF PInv

(* What no step does to a request, whichever request it serves. *)
Moves(p) ==
    /\ inst'[p] = inst[p]
    /\ Passed(p) => Passed(p)' /\ gen'[p] = gen[p] /\ entry'[p] = entry[p]
    /\ ~Passed(p) /\ Passed(p)' => PrecheckPasses(p)

LEMMA RequestMoves ==
    ASSUME TypeOK, [Next]_vars, NEW p \in Requests
    PROVE  Moves(p) /\ now' >= now
<1> USE DEF TypeOK, Goto, row, local, history, Moves, Passed
<1>1. ASSUME NEW r \in Requests, PrecheckPasses(r)
      PROVE  Moves(p) /\ now' >= now
  <2>1. /\ pc[r] = "idle" /\ pc' = [pc EXCEPT ![r] = "begin"]
        /\ inst' = inst /\ now' = now
        /\ gen' = [gen EXCEPT ![r] = MemoryFor(inst[r], limit).gen]
        /\ entry' = [entry EXCEPT ![r] = now]
    BY <1>1 DEF PrecheckPasses
  <2>2. CASE p = r
    BY <1>1, <2>1, <2>2
  <2>3. CASE p # r
    BY <2>1, <2>3
  <2> QED
    BY <2>2, <2>3
<1>2. ASSUME NEW r \in Requests, PrecheckRefuses(r) \/ TakeBegins(r)
      PROVE  Moves(p) /\ now' >= now
  BY <1>2 DEF PrecheckRefuses, TakeBegins
<1>3. ASSUME NEW r \in Requests, TakeAllows(r) \/ TakeRefuses(r) \/ TakeFails(r)
      PROVE  Moves(p) /\ now' >= now
  BY <1>3 DEF TakeAllows, TakeRefuses, TakeFails, TakeEnds
<1>4. ASSUME NEW r \in Requests, Fallback(r) PROVE Moves(p) /\ now' >= now
  BY <1>4 DEF Fallback
<1>5. CASE DeleteExpiredSelect \/ DeleteExpiredFails \/ DeleteExpiredCommit \/ Reset
  BY <1>5 DEF DeleteExpiredSelect, DeleteExpiredFails, DeleteExpiredCommit, Reset
<1>6. CASE Tick \/ \E l \in Limits : SetLimit(l)
  BY <1>6 DEF Tick, SetLimit
<1>7. CASE UNCHANGED vars
  BY <1>7 DEF vars
<1> QED
  BY <1>1, <1>2, <1>3, <1>4, <1>5, <1>6, <1>7 DEF Next, Take

(* Only the pre-check fills its bucket, and limiters that are rebuilt have a new
   generation. *)
Same(i) == /\ mem'[i].local = mem[i].local /\ mem'[i].limit = mem[i].limit
           /\ mem'[i].gen = mem[i].gen
Rebuilt(i) == mem'[i].local = 0 /\ mem'[i].gen = mem[i].gen + 1
NobodyPasses(i) ==
    \A p \in Requests : inst[p] = i /\ ~Passed(p) => ~Passed(p)'

LEMMA MemoryMoves ==
    ASSUME TypeOK, [Next]_vars, NEW i \in Instances
    PROVE  \/ NobodyPasses(i) /\ (Same(i) \/ Rebuilt(i))
           \/ \E r \in Requests : PrecheckPasses(r) /\ inst[r] = i
<1> USE DEF TypeOK, Goto, row, local, history
<1>1. ASSUME NEW r \in Requests, PrecheckPasses(r), inst[r] # i
      PROVE  NobodyPasses(i) /\ Same(i)
  BY <1>1 DEF PrecheckPasses, NobodyPasses, Passed, Same
<1>2. ASSUME NEW r \in Requests, PrecheckRefuses(r)
      PROVE  NobodyPasses(i) /\ (Same(i) \/ Rebuilt(i))
  <2>1. NobodyPasses(i)
    BY <1>2 DEF PrecheckRefuses, NobodyPasses, Passed
  <2>2. Same(i) \/ Rebuilt(i)
    BY <1>2 DEF PrecheckRefuses, MemoryFor, Fresh, Same, Rebuilt
  <2> QED
    BY <2>1, <2>2
<1>3. ASSUME NEW r \in Requests,
             TakeBegins(r) \/ TakeAllows(r) \/ TakeRefuses(r) \/ TakeFails(r)
      PROVE  NobodyPasses(i) /\ Same(i)
  BY <1>3 DEF TakeBegins, TakeAllows, TakeRefuses, TakeFails, TakeEnds,
              NobodyPasses, Passed, Same
<1>4. ASSUME NEW r \in Requests, Fallback(r)
      PROVE  NobodyPasses(i) /\ Same(i)
  <2>1. NobodyPasses(i)
    BY <1>4 DEF Fallback, NobodyPasses, Passed
  <2>2. Same(i)
    BY <1>4 DEF Fallback, WithMemory, Same
  <2> QED
    BY <2>1, <2>2
<1>5. ASSUME UNCHANGED <<mem, pc>> PROVE NobodyPasses(i) /\ Same(i)
  BY <1>5 DEF NobodyPasses, Passed, Same
<1>6. CASE DeleteExpiredSelect \/ DeleteExpiredFails \/ DeleteExpiredCommit \/ Reset
  BY <1>5, <1>6 DEF DeleteExpiredSelect, DeleteExpiredFails, DeleteExpiredCommit, Reset
<1>7. CASE Tick \/ \E l \in Limits : SetLimit(l)
  BY <1>5, <1>7 DEF Tick, SetLimit
<1>8. CASE UNCHANGED vars
  BY <1>5, <1>8 DEF vars
<1> QED
  BY <1>1, <1>2, <1>3, <1>4, <1>6, <1>7, <1>8 DEF Next, Take

(* A request passes: its limiters, perhaps new ones, count it. *)
LEMMA PassFacts ==
    ASSUME TypeOK, TypeOK', NEW r \in Requests, PrecheckPasses(r)
    PROVE  LET i == inst[r] IN
           /\ pc[r] = "idle" /\ pc' = [pc EXCEPT ![r] = "begin"] /\ Passed(r)'
           /\ inst' = inst /\ now' = now /\ limit \in Limits
           /\ entry' = [entry EXCEPT ![r] = now]
           /\ gen' = [gen EXCEPT ![r] = mem'[i].gen]
           /\ mem'[i].limit = limit
           /\ \A j \in Instances : j # i => mem'[j] = mem[j]
           /\ \/ /\ mem[i].limit = limit /\ mem'[i].gen = mem[i].gen
                 /\ mem'[i].local = Later(mem[i].local, now) + limit.every
              \/ /\ mem'[i].gen = mem[i].gen + 1
                 /\ mem'[i].local = now + limit.every
<1> DEFINE i == inst[r]  m == MemoryFor(i, limit)
<1>1. /\ pc[r] = "idle" /\ pc' = [pc EXCEPT ![r] = "begin"] /\ pc'[r] = "begin"
      /\ inst' = inst /\ now' = now /\ limit \in Limits /\ now \in Nat
      /\ entry' = [entry EXCEPT ![r] = now]
      /\ gen' = [gen EXCEPT ![r] = m.gen]
      /\ mem'[i] = WithMemory(m, Arrival(m.local, now, limit.every), m.fallback)
      /\ \A j \in Instances : j # i => mem'[j] = mem[j]
  BY DEF PrecheckPasses, Goto, TypeOK
<1>2. /\ mem'[i].gen = m.gen /\ mem'[i].limit = m.limit
      /\ mem'[i].local = Later(m.local, now) + limit.every
  BY <1>1 DEF WithMemory, Arrival
<1>3. m.limit = limit
  BY DEF MemoryFor, Fresh
<1>4. CASE mem[i].limit = limit
  <2>1. m = mem[i]
    BY <1>4 DEF MemoryFor
  <2> QED
    BY <1>1, <1>2, <1>4, <2>1 DEF Passed
<1>5. CASE mem[i].limit # limit
  <2>1. m.local = 0 /\ m.gen = mem[i].gen + 1
    BY <1>5 DEF MemoryFor, Fresh
  <2>2. Later(0, now) = now
    BY <1>1 DEF Later
  <2> QED
    BY <1>1, <1>2, <1>3, <2>1, <2>2 DEF Passed
<1> QED
  BY <1>4, <1>5

(* The memory of every instance is well typed. *)
LEMMA MemoryFacts ==
    ASSUME TypeOK, NEW i \in Instances
    PROVE  /\ mem[i].limit \in Limits /\ mem[i].limit.every \in Nat
           /\ mem[i].local \in Nat /\ mem[i].gen \in Nat /\ now \in Nat
<1>1. mem[i] \in Memory /\ now \in Nat
  BY DEF TypeOK
<1> QED
  BY <1>1, LimitFacts DEF Memory

LEMMA GenerationsStep ==
    ASSUME TypeOK, TypeOK', Generations, [Next]_vars
    PROVE  Generations'
<1> SUFFICES ASSUME NEW p \in Requests, Passed(p)'
             PROVE  gen'[p] <= mem'[inst'[p]].gen
  BY DEF Generations
<1> DEFINE i == inst[p]
<1>1. Moves(p) /\ i \in Instances /\ inst'[p] = i /\ gen[p] \in Nat /\ gen'[p] \in Nat
  BY RequestMoves DEF Moves, TypeOK
<1>2. mem[i].gen \in Nat /\ mem'[i].gen \in Nat
  <2>1. mem[i] \in Memory /\ mem'[i] \in Memory
    BY <1>1 DEF TypeOK
  <2> QED
    BY <2>1 DEF Memory
<1>3. ASSUME NEW r \in Requests, PrecheckPasses(r), inst[r] = i
      PROVE  mem'[i].gen >= mem[i].gen /\ (p = r => gen'[p] = mem'[i].gen)
  <2> HIDE DEF i
  <2>1. mem'[i].gen = mem[i].gen \/ mem'[i].gen = mem[i].gen + 1
    BY <1>3, PassFacts
  <2>2. gen' = [gen EXCEPT ![r] = mem'[i].gen]
    BY <1>3, PassFacts
  <2> QED
    BY <1>2, <2>1, <2>2 DEF TypeOK
<1>4. CASE Passed(p)
  <2>1. gen'[p] = gen[p] /\ gen[p] <= mem[i].gen
    BY <1>1, <1>4 DEF Moves, Generations
  <2>2. mem'[i].gen >= mem[i].gen
    BY <1>1, <1>2, <1>3, MemoryMoves DEF Same, Rebuilt
  <2> QED
    BY <1>1, <1>2, <2>1, <2>2
<1>5. CASE ~Passed(p)
  <2>1. PrecheckPasses(p)
    BY <1>1, <1>5 DEF Moves
  <2> QED
    BY <1>1, <1>2, <1>3, <2>1
<1> QED
  BY <1>4, <1>5

(* The requests that passed the present limiters, the new one aside, passed
   them before the step. *)
LEMMA SinceBack ==
    ASSUME TypeOK, TypeOK', Generations, [Next]_vars, NEW i \in Instances,
           NEW t \in Nat, NEW A \in SUBSET Requests, Since(i, t, A)',
           \A p \in A : Passed(p)
    PROVE  /\ mem'[i].gen = mem[i].gen => Since(i, t, A)
           /\ mem'[i].gen = mem[i].gen + 1 => A = {}
<1>1. \A p \in A : /\ Passed(p) /\ inst[p] = i /\ gen[p] = mem'[i].gen
                   /\ entry[p] >= t /\ gen[p] <= mem[i].gen
  BY RequestMoves DEF Since, Moves, Generations
<1>2. mem[i].gen \in Nat
  BY MemoryFacts
<1> QED
  BY <1>1, <1>2 DEF Since

LEMMA CountedStep ==
    ASSUME TypeOK, TypeOK', Generations, Counted, [Next]_vars
    PROVE  Counted'
<1> SUFFICES ASSUME NEW i \in Instances, NEW t \in Nat,
                    NEW A \in SUBSET Requests, Since(i, t, A)', A # {}
             PROVE  t + Cardinality(A) * mem'[i].limit.every <= mem'[i].local
  BY DEF Counted
<1>0. /\ mem[i].local \in Nat /\ mem[i].gen \in Nat /\ now \in Nat
      /\ mem[i].limit.every \in Nat
  BY MemoryFacts
<1>1. CASE NobodyPasses(i) /\ (Same(i) \/ Rebuilt(i))
  <2>1. \A p \in A : Passed(p)
    <3> SUFFICES ASSUME NEW p \in A PROVE Passed(p)
      OBVIOUS
    <3>1. Passed(p)' /\ inst'[p] = i /\ Moves(p)
      BY RequestMoves DEF Since
    <3> QED
      BY <1>1, <3>1 DEF NobodyPasses, Moves
  <2>2. /\ mem'[i].gen = mem[i].gen => Since(i, t, A)
        /\ mem'[i].gen = mem[i].gen + 1 => A = {}
    BY <2>1, SinceBack
  <2>3. Same(i) /\ Since(i, t, A)
    BY <1>1, <2>2 DEF Same, Rebuilt
  <2> QED
    BY <2>3 DEF Counted, Same
<1>2. ASSUME NEW r \in Requests, PrecheckPasses(r), inst[r] = i
      PROVE  t + Cardinality(A) * mem'[i].limit.every <= mem'[i].local
  <2> DEFINE B == A \ {r}  n == Cardinality(B)  E == limit.every
  <2>1. /\ mem'[i].limit = limit /\ E \in Nat
        /\ entry' = [entry EXCEPT ![r] = now]
        /\ pc' = [pc EXCEPT ![r] = "begin"] /\ inst' = inst
        /\ \/ /\ mem[i].limit = limit /\ mem'[i].gen = mem[i].gen
              /\ mem'[i].local = Later(mem[i].local, now) + E
           \/ /\ mem'[i].gen = mem[i].gen + 1
              /\ mem'[i].local = now + E
    BY <1>2, PassFacts, LimitFacts
  <2>2. IsFiniteSet(A) /\ IsFiniteSet(B) /\ B \in SUBSET Requests
    BY FS_Subset DEF Since
  <2>3. Since(i, t, B)'
    BY <2>2 DEF Since
  <2>4. \A p \in B : Passed(p)
    BY <2>1 DEF Since, Passed, TypeOK
  <2>5. /\ mem'[i].gen = mem[i].gen => Since(i, t, B)
        /\ mem'[i].gen = mem[i].gen + 1 => B = {}
    <3> HIDE DEF B
    <3> QED
      BY <2>2, <2>3, <2>4, SinceBack
  <2>6. n \in Nat /\ Cardinality(A) \in Nat /\ Cardinality(A) <= n + 1
    <3>1. CASE r \in A
      BY <2>2, <3>1, FS_RemoveElement, FS_CardinalityType
    <3>2. CASE r \notin A
      <4>1. B = A
        BY <3>2
      <4>2. n = Cardinality(A)
        BY <4>1
      <4> HIDE DEF n, B
      <4> QED
        BY <2>2, <4>2, FS_CardinalityType
    <3> QED
      BY <3>1, <3>2
  <2>7. /\ Cardinality(A) * E <= (n + 1) * E /\ (n + 1) * E = n * E + E
        /\ n * E \in Nat /\ Cardinality(A) * E \in Nat
    <3> HIDE DEF n, E
    <3> QED
      BY <2>1, <2>6, Multiples
  <2>8. CASE B = {}
    <3>1. r \in A
      BY <2>8
    <3>2. t <= now
      BY <2>1, <3>1 DEF Since, TypeOK
    <3>3. n = 0
      <4> HIDE DEF B
      <4> QED
        BY <2>8, FS_EmptySet
    <3>4. now + E <= mem'[i].local
      <4> HIDE DEF E
      <4> QED
        BY <1>0, <2>1 DEF Later
    <3> HIDE DEF n, E
    <3>5. n * E = 0
      BY <2>1, <3>3
    <3>6. t + Cardinality(A) * E <= mem'[i].local
      <4>1. mem'[i].local \in Int
        BY <1>0, <2>1 DEF Later
      <4> QED
        BY <1>0, <2>1, <2>6, <2>7, <3>2, <3>4, <3>5, <4>1
    <3> QED
      BY <2>1, <3>6 DEF E
  <2>9. CASE B # {}
    <3>1. /\ mem[i].limit = limit /\ Since(i, t, B)
          /\ mem'[i].local = Later(mem[i].local, now) + E
      BY <1>0, <2>1, <2>5, <2>9
    <3>2. t + n * E <= mem[i].local
      <4> HIDE DEF B
      <4> QED
        BY <2>2, <2>9, <3>1 DEF Counted
    <3> HIDE DEF n, E
    <3>3. t + Cardinality(A) * E <= mem'[i].local
      BY <1>0, <2>1, <2>6, <2>7, <3>1, <3>2 DEF Later
    <3> QED
      BY <2>1, <3>3 DEF E
  <2> QED
    BY <2>8, <2>9
<1> QED
  BY <1>1, <1>2, MemoryMoves

LEMMA BusyStep ==
    ASSUME TypeOK, TypeOK', Busy, [Next]_vars
    PROVE  Busy'
<1> SUFFICES ASSUME NEW i \in Instances
             PROVE  \E t \in Nat, A \in SUBSET Requests : Filled(i, t, A)'
  BY DEF Busy
<1>0. /\ now \in Nat /\ now' \in Nat
      /\ mem[i].local \in Nat /\ mem'[i].local \in Nat
      /\ mem'[i].limit \in Limits /\ mem'[i].limit.every \in Nat
  <2>1. mem'[i] \in Memory /\ now' \in Nat
    BY DEF TypeOK
  <2> QED
    BY <2>1, MemoryFacts, LimitFacts DEF Memory
<1>1. PICK s \in Nat, P \in SUBSET Requests : Filled(i, s, P)
  BY DEF Busy
<1>2. IsFiniteSet(P) /\ s <= now /\ Cardinality(P) \in Nat
  BY <1>1, FS_CardinalityType DEF Filled, Since
<1>3. \A p \in P : Moves(p) /\ now' >= now
  BY RequestMoves
<1>a. now' >= now
  BY DEF TypeOK, Next, vars, Take, PrecheckPasses, PrecheckRefuses, TakeBegins,
         TakeAllows, TakeRefuses, TakeFails, Fallback, DeleteExpiredSelect,
         DeleteExpiredCommit, DeleteExpiredFails, Reset, SetLimit, Tick
<1>4. mem'[i].gen = mem[i].gen => Since(i, s, P)'
  BY <1>1, <1>3 DEF Filled, Since, Moves
<1>5. CASE Same(i)
  BY <1>0, <1>1, <1>2, <1>4, <1>5, <1>a DEF Filled, Same
<1>6. CASE Rebuilt(i)
  <2>1. 0 * mem'[i].limit.every = 0
    BY <1>0
  <2>2. Filled(i, 0, {})'
    BY <1>0, <1>6, <2>1, FS_EmptySet DEF Filled, Since, Rebuilt
  <2> QED
    BY <2>2
<1>7. ASSUME NEW r \in Requests, PrecheckPasses(r), inst[r] = i
      PROVE  \E t \in Nat, A \in SUBSET Requests : Filled(i, t, A)'
  <2> DEFINE E == limit.every
  <2>1. /\ pc[r] = "idle" /\ Passed(r)' /\ inst'[r] = i /\ now' = now
        /\ entry'[r] = now /\ gen'[r] = mem'[i].gen /\ E \in Nat
        /\ mem'[i].limit = limit
        /\ \/ /\ mem[i].limit = limit /\ mem'[i].gen = mem[i].gen
              /\ mem'[i].local = Later(mem[i].local, now) + E
           \/ mem'[i].local = now + E
    <3>1. /\ entry' = [entry EXCEPT ![r] = now]
          /\ gen' = [gen EXCEPT ![r] = mem'[i].gen]
      BY <1>7, PassFacts
    <3> QED
      BY <1>7, <3>1, PassFacts, LimitFacts DEF TypeOK
  <2>2. CASE mem'[i].local = now + E
    <3>1. IsFiniteSet({r}) /\ Cardinality({r}) = 1
      BY FS_Singleton
    <3>2. 1 * E = E
      BY <2>1
    <3>3. Filled(i, now, {r})'
      BY <1>0, <2>1, <2>2, <3>1, <3>2 DEF Filled, Since
    <3> QED
      BY <1>0, <3>3
  <2>3. CASE mem'[i].local # now + E
    <3>1. /\ mem[i].limit = limit /\ mem'[i].gen = mem[i].gen
          /\ mem'[i].local = mem[i].local + E
      BY <1>0, <2>1, <2>3 DEF Later
    <3>2. r \notin P
      BY <1>1, <2>1 DEF Filled, Since, Passed
    <3>3. /\ IsFiniteSet(P \cup {r})
          /\ Cardinality(P \cup {r}) = Cardinality(P) + 1
      BY <1>2, <3>2, FS_AddElement
    <3>4. /\ Cardinality(P) * E \in Nat
          /\ (Cardinality(P) + 1) * E = Cardinality(P) * E + E
      BY <1>2, <2>1, Multiples
    <3>5. mem[i].local <= s + Cardinality(P) * E
      BY <1>1, <3>1 DEF Filled
    <3>6. mem'[i].local <= s + Cardinality(P \cup {r}) * E
      <4> HIDE DEF E
      <4> QED
        BY <1>0, <2>1, <3>1, <3>3, <3>4, <3>5
    <3>7. Since(i, s, P)' /\ Since(i, s, P \cup {r})'
      BY <1>0, <1>2, <1>4, <2>1, <3>1, <3>3 DEF Since
    <3>8. Filled(i, s, P \cup {r})'
      BY <1>2, <2>1, <3>6, <3>7 DEF Filled
    <3> QED
      BY <3>8
  <2> QED
    BY <2>2, <2>3
<1> QED
  BY <1>5, <1>6, <1>7, MemoryMoves

(* Requests come one at a time. *)
LEMMA ComeStep ==
    ASSUME TypeOK, FewCame, [Next]_vars
    PROVE  FewCame'
<1> SUFFICES \E r : Come' \subseteq Come \cup {r}
  <2>1. ASSUME NEW r, Come' \subseteq Come \cup {r} PROVE IsFiniteSet(Come')
    BY <2>1, FS_AddElement, FS_Subset DEF FewCame
  <2> QED
    BY <2>1 DEF FewCame
<1>1. ASSUME NEW r \in Requests, Take(r) PROVE Come' \subseteq Come \cup {r}
  BY <1>1 DEF Take, PrecheckPasses, PrecheckRefuses, TakeBegins, TakeAllows,
              TakeRefuses, TakeFails, TakeEnds, Fallback, Goto, Come, TypeOK
<1>2. CASE pc' = pc
  BY <1>2 DEF Come
<1> QED
  BY <1>1, <1>2 DEF Next, vars, DeleteExpiredSelect, DeleteExpiredCommit,
     DeleteExpiredFails, Reset, SetLimit, Tick

(* The bucket refuses exactly a client far over its limit. *)
LEMMA RefusesFarOver ==
    ASSUME TypeOK, PInv, NEW r \in Requests
    PROVE  ~PrecheckAdmits(r) <=> FarOver(r)
<1> DEFINE i == inst[r]
           E == limit.every
           W == 2 * limit.burst * E
           m == MemoryFor(i, limit)
           Over(t) == (Cardinality(PassedSince(r, t)) + 1) * E > now - t + W
<1>1. /\ i \in Instances /\ limit \in Limits /\ now \in Nat
      /\ mem[i].local \in Nat /\ mem[i].gen \in Nat
  BY MemoryFacts DEF TypeOK
<1>2. E \in Nat /\ E > 0 /\ W \in Nat /\ W >= E
  <2>1. E \in Nat /\ E > 0 /\ limit.burst \in Nat /\ limit.burst > 0
    BY <1>1, LimitFacts
  <2>2. \A e, b \in Nat : e > 0 /\ b > 0 => 2 * b * e \in Nat /\ 2 * b * e >= e
    <3> SUFFICES ASSUME NEW e \in Nat, NEW b \in Nat, e > 0, b > 0
                 PROVE  2 * b * e \in Nat /\ 2 * b * e >= e
      OBVIOUS
    <3>1. 2 * b \in Nat /\ 1 <= 2 * b
      OBVIOUS
    <3>2. 1 * e <= 2 * b * e /\ 1 * e = e /\ 2 * b * e \in Nat
      BY <3>1, Multiples
    <3> QED
      BY <3>2
  <2> HIDE DEF E
  <2> QED
    BY <2>1, <2>2
<1>3. FarOver(r) <=> \E t \in 0..now : Over(t)
  BY DEF FarOver
<1>4. ~PrecheckAdmits(r) <=> Later(m.local, now) + E - now > W
  <2>1. m.local \in Nat
    BY <1>1 DEF MemoryFor, Fresh
  <2>2. PrecheckAdmits(r) <=> Admits(m.local, now, E, W)
    BY DEF PrecheckAdmits
  <2> HIDE DEF W, E, m
  <2> QED
    BY <1>1, <1>2, <2>1, <2>2 DEF Admits, Arrival, Later
<1>5. mem[i].limit # limit =>
         m.local = 0 /\ \A t \in Nat : PassedSince(r, t) = {}
  <2> SUFFICES ASSUME mem[i].limit # limit, NEW t \in Nat
               PROVE  m.local = 0 /\ PassedSince(r, t) = {}
    BY <1>1 DEF MemoryFor, Fresh
  <2>1. m.local = 0 /\ m.gen = mem[i].gen + 1
    BY DEF MemoryFor, Fresh
  <2>2. \A p \in Requests : Passed(p) /\ inst[p] = i => gen[p] <= mem[i].gen
    BY DEF PInv, Generations
  <2>3. \A p \in Requests : gen[p] \in Nat
    BY DEF TypeOK
  <2> QED
    BY <1>1, <2>1, <2>2, <2>3 DEF PassedSince, Passed
<1>6. mem[i].limit = limit => m = mem[i]
  BY DEF MemoryFor
<1>7. \A t \in Nat : /\ IsFiniteSet(PassedSince(r, t))
                     /\ Cardinality(PassedSince(r, t)) \in Nat
  <2> SUFFICES ASSUME NEW t \in Nat PROVE IsFiniteSet(PassedSince(r, t))
    BY FS_CardinalityType
  <2>1. PassedSince(r, t) \subseteq Come /\ IsFiniteSet(Come)
    BY DEF PassedSince, Come, PInv, FewCame
  <2> QED
    BY <2>1, FS_Subset
<1>8. ASSUME ~PrecheckAdmits(r) PROVE \E t \in 0..now : Over(t)
  <2>1. mem[i].limit = limit /\ m = mem[i] /\ mem[i].local + E - now > W
    <3> HIDE DEF W, E, m
    <3> QED
      BY <1>1, <1>2, <1>4, <1>5, <1>6, <1>8 DEF Later
  <2>2. PICK t \in Nat, P \in SUBSET Requests : Filled(i, t, P)
    BY <1>1 DEF PInv, Busy
  <2> DEFINE S == PassedSince(r, t)
  <2>3. P \subseteq S /\ IsFiniteSet(P) /\ t <= now
    BY <2>1, <2>2 DEF Filled, Since, Passed, PassedSince
  <2>4. /\ Cardinality(P) \in Nat /\ Cardinality(S) \in Nat
        /\ Cardinality(P) <= Cardinality(S)
    <3> HIDE DEF S
    <3>1. IsFiniteSet(S)
      BY <1>7 DEF S
    <3> QED
      BY <2>3, <3>1, FS_Subset, FS_CardinalityType
  <2>5. mem[i].local <= t + Cardinality(P) * E
    BY <2>1, <2>2 DEF Filled
  <2>6. /\ Cardinality(P) * E <= Cardinality(S) * E
        /\ Cardinality(P) * E \in Nat /\ Cardinality(S) * E \in Nat
        /\ (Cardinality(S) + 1) * E = Cardinality(S) * E + E
    <3> HIDE DEF S, E
    <3> QED
      BY <1>2, <2>4, Multiples
  <2>7. (Cardinality(S) + 1) * E > now - t + W
    <3> HIDE DEF S, E, W, m
    <3> QED
      BY <1>1, <1>2, <2>1, <2>3, <2>5, <2>6
  <2> QED
    BY <1>1, <2>3, <2>7
<1>9. ASSUME NEW t \in 0..now, Over(t) PROVE ~PrecheckAdmits(r)
  <2> DEFINE S == PassedSince(r, t)  n == Cardinality(S)
  <2>1. /\ t \in Nat /\ t <= now /\ n \in Nat /\ IsFiniteSet(S)
        /\ (n + 1) * E > now - t + W
    BY <1>1, <1>7, <1>9
  <2>2. n * E \in Nat /\ (n + 1) * E = n * E + E
    <3> HIDE DEF n, E
    <3> QED
      BY <1>2, <2>1, Multiples
  <2>3. S # {}
    <3> SUFFICES ASSUME S = {} PROVE FALSE
      OBVIOUS
    <3>1. n = 0
      <4> HIDE DEF S
      <4> QED
        BY FS_EmptySet
    <3> HIDE DEF n, E, W
    <3>2. n * E = 0
      BY <1>2, <3>1
    <3> QED
      BY <1>1, <1>2, <2>1, <2>2, <3>2
  <2>4. mem[i].limit = limit /\ m = mem[i]
    BY <1>5, <1>6, <2>1, <2>3
  <2>5. Since(i, t, S) /\ S \in SUBSET Requests
    BY <2>1, <2>4 DEF Since, PassedSince, Passed
  <2>6. t + n * E <= mem[i].local
    <3> HIDE DEF S
    <3>1. t + Cardinality(S) * mem[i].limit.every <= mem[i].local
      BY <1>1, <2>1, <2>3, <2>5 DEF PInv, Counted
    <3> QED
      BY <2>4, <3>1
  <2>7. Later(m.local, now) + E - now > W
    <3> HIDE DEF n, E, W, m
    <3> QED
      BY <1>1, <1>2, <2>1, <2>2, <2>4, <2>6 DEF Later
  <2> QED
    BY <1>4, <2>7
<1> QED
  BY <1>3, <1>8, <1>9

(* Only the pre-check moves an idle request. *)
LEMMA IdleMoves ==
    ASSUME TypeOK, Next, NEW r \in Requests, pc[r] = "idle", pc'[r] # "idle"
    PROVE  PrecheckPasses(r) \/ PrecheckRefuses(r)
<1>1. ASSUME NEW s \in Requests, Take(s) PROVE s = r
  BY <1>1 DEF Take, PrecheckPasses, PrecheckRefuses, TakeBegins, TakeAllows,
              TakeRefuses, TakeFails, TakeEnds, Fallback, Goto, TypeOK
<1>2. \E s \in Requests : Take(s)
  BY DEF Next, DeleteExpiredSelect, DeleteExpiredCommit, DeleteExpiredFails,
         Reset, SetLimit, Tick
<1>3. Take(r)
  BY <1>1, <1>2
<1> QED
  BY <1>3 DEF Take, TakeBegins, TakeAllows, TakeRefuses, TakeFails, TakeEnds,
              Fallback

(* Whatever the database answers, however the limit changes and whether or not
   1 / PerSecond is whole microseconds: a request is refused in memory exactly
   when its client is a burst over PerSecond and Burst at this instance. *)
THEOREM PrecheckRefusesFloods == Spec => PrecheckOnlyFarOver
<1>1. TypeOK /\ PInv /\ [Next]_vars => (TypeOK /\ PInv)'
  <2> SUFFICES ASSUME TypeOK, PInv, [Next]_vars PROVE TypeOK' /\ PInv'
    OBVIOUS
  <2>1. TypeOK'
    BY TypeInductive
  <2>2. Generations' /\ Counted' /\ Busy' /\ FewCame'
    BY <2>1, GenerationsStep, CountedStep, BusyStep, ComeStep DEF PInv
  <2> QED
    BY <2>1, <2>2 DEF PInv
<1>2. Init => TypeOK /\ PInv
  BY InitInv, PrecheckInit DEF IInv
<1> DEFINE Exact(r) ==
      pc[r] = "idle" /\ pc'[r] # "idle" =>
         (pc'[r] = "refusedLocally" <=> FarOver(r))
<1>3. ASSUME TypeOK, PInv, Next, NEW r \in Requests PROVE Exact(r)
  <2> SUFFICES ASSUME pc[r] = "idle", pc'[r] # "idle"
               PROVE  pc'[r] = "refusedLocally" <=> FarOver(r)
    OBVIOUS
  <2>1. PrecheckPasses(r) \/ PrecheckRefuses(r)
    BY <1>3, IdleMoves
  <2>2. pc'[r] = "refusedLocally" <=> ~PrecheckAdmits(r)
    BY <1>3, <2>1 DEF PrecheckPasses, PrecheckRefuses, Goto, TypeOK
  <2> QED
    BY <1>3, <2>2, RefusesFarOver
<1>4. TypeOK /\ PInv /\ [Next]_vars => [\A r \in Requests : Exact(r)]_vars
  BY <1>3
<1> QED
  BY <1>1, <1>2, <1>4, PTL DEF Spec, PrecheckOnlyFarOver
=============================================================================
