------------------------------ MODULE Collector ------------------------------
(***************************************************************************)
(* The request collector of an instance (modules/observability): requests  *)
(* are counted in one-minute windows, a loop writes the windows' totals to *)
(* observability_minutes and forgets the finished ones.                    *)
(*                                                                         *)
(* A request takes its time, loads the current window without a lock, goes *)
(* through windowFor only when that is not its minute's, and is counted in *)
(* the window it got, which may have been closed or forgotten since.  The  *)
(* loop reads the windows one after the other while requests are counted,  *)
(* and forgets after a write that is not under the lock.                   *)
(*                                                                         *)
(* A window's totals are the set of the requests counted in it: one series *)
(* per window, since the overflow series still counts every request.       *)
(***************************************************************************)
EXTENDS Integers, Sequences, FiniteSets

CONSTANTS
    MaxRequests, \* bound on requests
    MinuteLength,
    Grace,       \* closeGrace
    MaxDelay,    \* how long a request may take from its time to its count
    MaxPending,  \* WithMaxPendingMinutes
    Back,        \* how far the clock may be set back
    MaxNow,      \* bound on the clock
    MaxFaults    \* bound on failed writes and on steps of the clock

(* "closeGrace ... so requests that read the old window just before it closed
   are included": a request is counted sooner than that.  The grace is a second
   of a minute. *)
ASSUME DelayAssumption ==
    MaxDelay \in Nat /\ Grace \in Nat /\ MaxDelay < Grace /\ Grace <= MinuteLength
ASSUME BoundsAssumption ==
    /\ MaxRequests \in Nat /\ MinuteLength \in Nat \ {0} /\ MaxPending \in Nat \ {0}
    /\ MaxNow \in Nat /\ Back \in Nat \ {0} /\ MaxFaults \in Nat

(* Requests are numbered in the order they finish, windows in the order they
   start. *)
Requests == 1..MaxRequests

Minute(t) == t \div MinuteLength
Minutes == 0..Minute(MaxNow)

NoWindow == 0
NoMinute == -1

VARIABLES
    win,     \* every window that was started
    current, \* Collector.current, a window or NoWindow
    pending, \* Collector.pending, oldest (least) first
    latest,  \* Collector.latest
    lost,    \* Collector.lost
    req,     \* every request: its step, time on the wall clock, age since then, and window
    fl,      \* Run and Flush
    rows,    \* observability_minutes: the requests each row counts
    delayed, \* writes whose statement was given up and may still commit
    now,     \* the monotonic clock
    off,     \* how far the wall clock was set back
    after,   \* history: requests counted or refused after the final flush began
    faults

collector == <<win, current, pending, latest, lost>>
vars == <<collector, req, fl, rows, delayed, now, off, after, faults>>

Steps == {"serving", "load", "record", "counted", "refused"}
RunSteps == {"wait", "final", "read", "write", "forget", "stopped"}
Snapshots == [start : Minutes, reqs : SUBSET Requests]

TypeOK ==
    /\ win \in Seq([start : Minutes, closedAt : Int, reqs : SUBSET Requests])
    /\ current \in 0..Len(win)
    /\ pending \subseteq 1..Len(win) /\ Cardinality(pending) <= MaxPending
    /\ latest \in Minutes \cup {NoMinute}
    /\ lost \in 0..MaxRequests
    /\ req \in [Requests -> [pc : Steps, t : 0..MaxNow, age : 0..MaxDelay,
                             w : 0..Len(win)]]
    /\ fl \in [pc : RunSteps, now : 0..MaxNow, todo : SUBSET (1..Len(win)),
               windows : SUBSET (1..Len(win)), snap : SUBSET Snapshots,
               final : BOOLEAN, failed : BOOLEAN]
    /\ rows \in [Minutes -> SUBSET Requests]
    /\ delayed \subseteq Snapshots
    /\ now \in 0..MaxNow
    /\ off \in 0..now
    /\ after \subseteq Requests
    /\ faults \in 0..MaxFaults

Waiting == [pc |-> "wait", now |-> 0, todo |-> {}, windows |-> {}, snap |-> {},
            final |-> FALSE, failed |-> FALSE]

(* A request before its time is taken, and once it was counted or refused. *)
Done(p) == [pc |-> p, t |-> 0, age |-> 0, w |-> NoWindow]

Init ==
    /\ win = <<>>
    /\ current = NoWindow
    /\ pending = {}
    /\ latest = NoMinute
    /\ lost = 0
    /\ req = [r \in Requests |-> Done("serving")]
    /\ fl = Waiting
    /\ rows = [m \in Minutes |-> {}]
    /\ delayed = {}
    /\ now = 0
    /\ off = 0
    /\ after = {}
    /\ faults = 0

(* A Go time carries a wall clock reading, which names its minute, and a
   monotonic one, which comparing it with another time uses. *)
Wall == now - off
stepped == off # 0

Stopping == fl.final
Fault == faults < MaxFaults /\ faults' = faults + 1

-----------------------------------------------------------------------------
(* Record *)

(* The middleware takes the time when the handler returned. *)
Finish(r) ==
    /\ req[r].pc = "serving" /\ \A q \in 1..(r - 1) : req[q].pc # "serving"
    /\ req' = [req EXCEPT ![r].pc = "load", ![r].t = Wall]
    /\ UNCHANGED <<collector, fl, rows, delayed, now, off, after, faults>>

IsCurrent(r) == current # NoWindow /\ win[current].start = Minute(req[r].t)

(* The current window is the request's: it is used without the lock. *)
LoadCurrent(r) ==
    /\ req[r].pc = "load"
    /\ IsCurrent(r)
    /\ req' = [req EXCEPT ![r].pc = "record", ![r].w = current]
    /\ UNCHANGED <<collector, fl, rows, delayed, now, off, after, faults>>

IsOldest(w, S) == \A v \in S : w <= v

(* heldLocked: the current window of the minute, or else the first pending
   one. *)
Held(m) ==
    LET ofMinute == {w \in pending : win[w].start = m} IN
    IF current # NoWindow /\ win[current].start = m THEN current
    ELSE IF ofMinute # {} THEN CHOOSE w \in ofMinute : IsOldest(w, ofMinute)
    ELSE NoWindow

\* Faulty variant: nothing is dropped.
CloseKeeping(w, at, ws) ==
    /\ pending' = pending \cup {w}
    /\ lost' = lost
    /\ win' = [ws EXCEPT ![w].closedAt = at]

(* closeLocked: w joins the pending windows ws, the oldest goes when they are
   too many, and its requests count as lost. *)
Close(w, at, ws) ==
    LET all == pending \cup {w} IN
    /\ win' = [ws EXCEPT ![w].closedAt = at]
    /\ IF Cardinality(all) > MaxPending
       THEN \E oldest \in all :
              /\ IsOldest(oldest, all)
              /\ pending' = all \ {oldest}
              /\ lost' = lost + Cardinality(win[oldest].reqs)
       ELSE pending' = all /\ lost' = lost

Got(r, w) ==
    req' = [req EXCEPT ![r] = IF w = NoWindow THEN Done("refused")
                              ELSE [@ EXCEPT !.pc = "record", !.w = w]]

\* Faulty variant: a request of an earlier minute starts a window of its own.
BelatedNever(r) == FALSE

(* A window of this minute was started before, or of a later one. *)
Belated(r) == latest # NoMinute /\ Minute(req[r].t) <= latest

(* windowFor, under the lock.  It looks at everything again, so the load before
   it is no step of its own. *)
WindowForHeld(r) ==
    /\ req[r].pc = "load" /\ ~IsCurrent(r)
    /\ Held(Minute(req[r].t)) # NoWindow
    /\ Got(r, Held(Minute(req[r].t)))
    /\ UNCHANGED <<collector, fl, rows, delayed, now, off, after, faults>>

(* Its minute is not held any more: it counts in the latest minute if that one
   is, and is dropped otherwise. *)
WindowForBelated(r) ==
    LET w == Held(latest) IN
    /\ req[r].pc = "load"
    /\ Held(Minute(req[r].t)) = NoWindow /\ Belated(r)
    /\ Got(r, w)
    /\ lost' = IF w = NoWindow THEN lost + 1 ELSE lost
    /\ after' = IF w = NoWindow /\ Stopping THEN after \cup {r} ELSE after
    /\ UNCHANGED <<win, current, pending, latest, fl, rows, delayed, now, off, faults>>

WindowForNew(r) ==
    LET ws == Append(win, [start |-> Minute(req[r].t), closedAt |-> 0, reqs |-> {}]) IN
    /\ req[r].pc = "load"
    /\ Held(Minute(req[r].t)) = NoWindow /\ ~Belated(r)
    /\ IF current # NoWindow THEN Close(current, now - req[r].age, ws)
                             ELSE win' = ws /\ UNCHANGED <<pending, lost>>
    /\ latest' = Minute(req[r].t)
    /\ current' = Len(ws)
    /\ Got(r, Len(ws))
    /\ UNCHANGED <<fl, rows, delayed, now, off, after, faults>>

CountIn(r) ==
    /\ req[r].pc = "record"
    /\ win' = [win EXCEPT ![req[r].w].reqs = @ \cup {r}]
    /\ req' = [req EXCEPT ![r] = Done("counted")]
    /\ after' = IF Stopping THEN after \cup {r} ELSE after
    /\ UNCHANGED <<current, pending, latest, lost, fl, rows, delayed, now, off, faults>>

-----------------------------------------------------------------------------
(* Run and Flush *)

(* A current window of an earlier minute is closed; the windows held then are
   what this flush writes and may forget. *)
FlushBegin ==
    LET ended == current # NoWindow /\ win[current].start < Minute(Wall) IN
    /\ fl.pc \in {"wait", "final"}
    /\ IF ended THEN current' = NoWindow /\ Close(current, now, win)
                ELSE UNCHANGED <<win, current, pending, lost>>
    /\ LET held == (pending' \cup {current'}) \ {NoWindow} IN
       fl' = [fl EXCEPT !.pc = IF held = {} THEN "forget" ELSE "read", !.now = now,
                        !.todo = held, !.windows = held, !.snap = {}]
    /\ UNCHANGED <<latest, req, rows, delayed, now, off, after, faults>>

(* minutes() of the next window; a window without requests has no rows, and a
   flush without rows writes nothing. *)
FlushReads(w) ==
    LET snap == IF win[w].reqs = {} THEN fl.snap
                ELSE fl.snap \cup {[start |-> win[w].start, reqs |-> win[w].reqs]} IN
    fl' = [fl EXCEPT !.todo = @ \ {w}, !.snap = snap,
                     !.pc = IF fl.todo # {w} THEN "read"
                            ELSE IF snap = {} THEN "forget" ELSE "write"]

FlushRead ==
    /\ fl.pc = "read"
    /\ \E w \in fl.todo : IsOldest(w, fl.todo) /\ FlushReads(w)
    /\ UNCHANGED <<collector, req, rows, delayed, now, off, after, faults>>

(* writeMinutesSQL on one row: totals are absolute, and a write with fewer
   requests than stored changes nothing. *)
Upsert(old, new) == IF Cardinality(new) >= Cardinality(old) THEN new ELSE old

Stored(m) ==
    LET mine == {s \in fl.snap : s.start = m} IN
    IF mine = {} THEN rows[m] ELSE Upsert(rows[m], (CHOOSE s \in mine : TRUE).reqs)

WriteMinutes ==
    /\ fl.pc = "write"
    /\ rows' = [m \in Minutes |-> Stored(m)]
    /\ fl' = [fl EXCEPT !.pc = "forget"]
    /\ UNCHANGED <<collector, req, delayed, now, off, after, faults>>

AfterFlush == IF fl.final THEN "stopped" ELSE "wait"

\* Faulty variant: Run ends with the first failed write.
WriteFailsStops ==
    /\ fl.pc = "write"
    /\ Fault
    /\ delayed' = delayed \cup fl.snap
    /\ fl' = [Waiting EXCEPT !.pc = "stopped", !.final = fl.final, !.failed = TRUE]
    /\ UNCHANGED <<collector, req, rows, now, off, after>>

(* The write fails or times out.  What it sent may be stored in part, at once
   or later: the timeout ends the wait, not the statement. *)
WriteFails ==
    /\ fl.pc = "write"
    /\ Fault
    /\ delayed' = delayed \cup fl.snap
    /\ fl' = [Waiting EXCEPT !.pc = AfterFlush, !.final = fl.final, !.failed = TRUE]
    /\ UNCHANGED <<collector, req, rows, now, off, after>>

DelayedCommit(s) ==
    /\ s \in delayed
    /\ delayed' = delayed \ {s}
    /\ rows' = [rows EXCEPT ![s.start] = Upsert(@, s.reqs)]
    /\ UNCHANGED <<collector, req, fl, now, off, after, faults>>

\* Faulty variant: a written window is forgotten as soon as it is closed.
ForgettableClosed(w) == w \in fl.windows

(* The window was part of the write and was closed long enough before it. *)
Forgettable(w) == w \in fl.windows /\ win[w].closedAt <= fl.now - Grace

FlushForget ==
    /\ fl.pc = "forget"
    /\ pending' = {w \in pending : ~Forgettable(w)}
    /\ fl' = [Waiting EXCEPT !.pc = AfterFlush, !.final = fl.final]
    /\ UNCHANGED <<win, current, latest, lost, req, rows, delayed, now, off, after, faults>>

\* Faulty variant: Run ends without a last flush.
StopRunAtOnce ==
    /\ fl.pc = "wait"
    /\ fl' = [fl EXCEPT !.pc = "stopped", !.final = TRUE]
    /\ UNCHANGED <<collector, req, rows, delayed, now, off, after, faults>>

(* ctx is done: closeCurrent, and then one more flush. *)
StopRun ==
    /\ fl.pc = "wait"
    /\ fl' = [fl EXCEPT !.pc = "final", !.final = TRUE]
    /\ IF current # NoWindow
       THEN current' = NoWindow /\ Close(current, now - Grace, win)
       ELSE UNCHANGED <<win, current, pending, lost>>
    /\ UNCHANGED <<latest, req, rows, delayed, now, off, after, faults>>

-----------------------------------------------------------------------------
InRecord(r) == req[r].pc \in {"load", "record"}

Tick ==
    /\ now < MaxNow
    /\ \A r \in Requests : InRecord(r) => req[r].age < MaxDelay
    /\ now' = now + 1
    /\ req' = [r \in Requests |->
                 IF InRecord(r) THEN [req[r] EXCEPT !.age = @ + 1] ELSE req[r]]
    /\ UNCHANGED <<collector, fl, rows, delayed, off, after, faults>>

(* The wall clock is set back. *)
StepBack ==
    /\ Back <= Wall
    /\ Fault
    /\ off' = off + Back
    /\ UNCHANGED <<collector, req, fl, rows, delayed, now, after>>

Record(r) ==
    \/ LoadCurrent(r)
    \/ WindowForHeld(r) \/ WindowForBelated(r) \/ WindowForNew(r)
    \/ CountIn(r)

Flush == FlushBegin \/ FlushRead \/ WriteMinutes \/ FlushForget

Next ==
    \/ \E r \in Requests : Finish(r) \/ Record(r)
    \/ Flush \/ WriteFails \/ StopRun
    \/ \E s \in delayed : DelayedCommit(s)
    \/ Tick \/ StepBack

Spec == Init /\ [][Next]_vars

(* Run's ticker goes on ticking, and requests that finished go on. *)
FairSpec ==
    /\ Spec
    /\ WF_vars(Flush)
    /\ \A r \in Requests : WF_vars(Record(r))

-----------------------------------------------------------------------------
(* Properties *)

IsStored(r) == \E m \in Minutes : r \in rows[m]
IsHeld(r) == \E w \in pending \cup {current} : w # NoWindow /\ r \in win[w].reqs

(* A stored minute never loses a request: a late request, a window started
   again, a write given up that commits after a newer one, and a clock set
   back never replace a row by one that counts less. *)
RowsOnlyGrow == [][\A m \in Minutes : rows[m] \subseteq rows'[m]]_vars

(* Lost accounts for every request that will never be written: one that was
   refused, and one counted in a window that is neither held nor stored.  It
   may count more (a dropped window was written in part).  Until Run stops,
   and unless the clock was set back. *)
Refused == {r \in Requests : req[r].pc = "refused"}
Unstored == {r \in Requests : req[r].pc = "counted" /\ ~IsStored(r)}
LostCoversDrops ==
    ~stepped /\ ~Stopping
        => Cardinality(Refused \cup {r \in Unstored : ~IsHeld(r)}) <= lost

(* A stop whose last write succeeded leaves unstored only the requests counted
   after the stop began, and those Lost accounts for. *)
StopLosesOnlyLate ==
    fl.pc = "stopped" /\ ~fl.failed /\ ~stepped
        => Cardinality((Refused \cup Unstored) \ after) <= lost

(* A counted request is stored in the end, however often the sink failed,
   unless its window was dropped or Run was stopped. *)
EventuallyStored == <>[](Stopping \/ \A r \in Requests : IsHeld(r) => IsStored(r))
=============================================================================
