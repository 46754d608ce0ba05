------------------------------- MODULE AppRun -------------------------------
(***************************************************************************)
(* The application lifecycle (app.Run and app.Cleanup): the main goroutine *)
(* waits for a reason to stop, runs the shutdown hooks, drains, cancels    *)
(* the runners, waits for them, collects their results and closes the      *)
(* cleanup stack.  Runners, signals, the parent context and the timers act *)
(* at any time; a select with several ready cases takes any of them.       *)
(***************************************************************************)
EXTENDS Integers, Sequences

CONSTANTS
    Runners,
    Items,      \* length of the cleanup stack
    MaxSignals  \* bound on the signals sent

ASSUME ItemsAssumption == Items \in Nat /\ MaxSignals \in Nat

SignalBuffer == 2 \* capacity of sigc

VARIABLES
    pc,         \* where Run is
    ctxDone,    \* the parent context is done
    sigc,       \* signals waiting in the channel
    sent,       \* signals sent so far
    drainDelay, \* the option is positive
    skipDrain, forced,
    cancelled,  \* cancelRun was called
    runner,     \* each runner: "running", "returned" (its result is in the
                \* channel), "done" (after wg.Done)
    res,        \* what each runner returned
    results,    \* the results channel
    errs,       \* what Run will report
    closed,     \* cleanup items closed, in order
    early       \* history: runners that returned before cancelRun

vars == <<pc, ctxDone, sigc, sent, drainDelay, skipDrain, forced, cancelled,
          runner, res, results, errs, closed, early>>
world == <<ctxDone, sigc, sent, runner, res, results, early>>
options == <<drainDelay>>

Steps == {"serving", "hooks", "drain", "cancel", "wait", "collect", "cleanup",
          "returned"}
(* A runner returns nil, an error, or an error that wraps context.Canceled
   (of its own context or of one it made). *)
Outcomes == {"nil", "error", "canceled"}
Errors == [kind : {"runner", "exited"}, of : Runners]
          \cup [kind : {"timeout", "forced"}, of : {0}]
          \cup [kind : {"close"}, of : 1..Items]

TypeOK ==
    /\ pc \in Steps
    /\ ctxDone \in BOOLEAN
    /\ sigc \in 0..SignalBuffer /\ sent \in 0..MaxSignals
    /\ drainDelay \in BOOLEAN /\ skipDrain \in BOOLEAN
    /\ forced \in BOOLEAN /\ cancelled \in BOOLEAN
    /\ runner \in [Runners -> {"running", "returned", "done"}]
    /\ res \in [Runners -> Outcomes \cup {"none"}]
    /\ results \subseteq Runners
    /\ errs \subseteq Errors
    /\ closed \in Seq(1..Items)
    /\ early \subseteq Runners

Init ==
    /\ pc = "serving"
    /\ ctxDone = FALSE
    /\ sigc = 0
    /\ sent = 0
    /\ drainDelay \in BOOLEAN
    /\ skipDrain = FALSE
    /\ forced = FALSE
    /\ cancelled = FALSE
    /\ runner = [r \in Runners |-> "running"]
    /\ res = [r \in Runners |-> "none"]
    /\ results = {}
    /\ errs = {}
    /\ closed = <<>>
    /\ early = {}

Stopped == \A r \in Runners : runner[r] = "done"
Report(kind, of) == errs' = errs \cup {[kind |-> kind, of |-> of]}

-----------------------------------------------------------------------------
(* Everything outside Run's goroutine *)

ContextDone ==
    /\ ~ctxDone
    /\ ctxDone' = TRUE
    /\ UNCHANGED <<pc, sigc, sent, options, skipDrain, forced, cancelled,
                   runner, res, results, errs, closed, early>>

\* Faulty variant: a signal is kept whatever the channel holds.
SignalUnbounded ==
    /\ sent < MaxSignals
    /\ sent' = sent + 1
    /\ sigc' = sigc + 1
    /\ UNCHANGED <<pc, ctxDone, options, skipDrain, forced, cancelled, runner,
                   res, results, errs, closed, early>>

(* signal.Notify never blocks: a signal that finds the channel full is
   dropped. *)
Signal ==
    /\ sent < MaxSignals
    /\ sent' = sent + 1
    /\ sigc' = IF sigc < SignalBuffer THEN sigc + 1 ELSE sigc
    /\ UNCHANGED <<pc, ctxDone, options, skipDrain, forced, cancelled, runner,
                   res, results, errs, closed, early>>

(* A runner returns and its result enters the channel, which has room for
   every runner's. *)
RunnerReturns(r) ==
    /\ runner[r] = "running"
    /\ \E o \in Outcomes : res' = [res EXCEPT ![r] = o]
    /\ runner' = [runner EXCEPT ![r] = "returned"]
    /\ results' = results \cup {r}
    /\ early' = IF cancelled THEN early ELSE early \cup {r}
    /\ UNCHANGED <<pc, ctxDone, sigc, sent, options, skipDrain, forced,
                   cancelled, errs, closed>>

RunnerDone(r) ==
    /\ runner[r] = "returned"
    /\ runner' = [runner EXCEPT ![r] = "done"]
    /\ UNCHANGED <<pc, ctxDone, sigc, sent, options, skipDrain, forced,
                   cancelled, res, results, errs, closed, early>>

-----------------------------------------------------------------------------
(* Run *)

(* The first select: the parent context, a signal, or a runner's result. *)
ServingInterrupted ==
    /\ pc = "serving"
    /\ \/ ctxDone /\ UNCHANGED sigc
       \/ sigc > 0 /\ sigc' = sigc - 1
    /\ pc' = "hooks"
    /\ UNCHANGED <<ctxDone, sent, options, skipDrain, forced, cancelled,
                   runner, res, results, errs, closed, early>>

ServingRunnerStopped(r) ==
    /\ pc = "serving"
    /\ r \in results
    /\ results' = results \ {r}
    /\ Report(IF res[r] = "nil" THEN "exited" ELSE "runner", r)
    /\ skipDrain' = TRUE
    /\ pc' = "hooks"
    /\ UNCHANGED <<ctxDone, sigc, sent, options, forced, cancelled, runner,
                   res, closed, early>>

(* The shutdown hooks run; the drain is skipped after a runner stopped, and
   without a drain delay. *)
RunHooks ==
    /\ pc = "hooks"
    /\ pc' = IF ~skipDrain /\ drainDelay THEN "drain" ELSE "cancel"
    /\ UNCHANGED <<world, options, skipDrain, forced, cancelled, errs, closed>>

(* The drain delay elapses, or every runner has stopped, ... *)
DrainEnds ==
    /\ pc = "drain"
    /\ pc' = "cancel"
    /\ UNCHANGED <<world, options, skipDrain, forced, cancelled, errs, closed>>

(* ... or another signal arrives. *)
DrainForced ==
    /\ pc = "drain"
    /\ sigc > 0
    /\ sigc' = sigc - 1
    /\ forced' = TRUE
    /\ pc' = "cancel"
    /\ UNCHANGED <<ctxDone, sent, options, skipDrain, cancelled, runner, res,
                   results, errs, closed, early>>

(* cancelRun; a forced shutdown does not wait. *)
CancelRun ==
    /\ pc = "cancel"
    /\ cancelled' = TRUE
    /\ IF forced THEN Report("forced", 0) /\ pc' = "collect"
                 ELSE pc' = "wait" /\ UNCHANGED errs
    /\ UNCHANGED <<world, options, skipDrain, forced, closed>>

\* Faulty variant: Run waits for one runner only.
WaitOneStopped ==
    /\ pc = "wait"
    /\ \E r \in Runners : runner[r] = "done"
    /\ pc' = "collect"
    /\ UNCHANGED <<world, options, skipDrain, forced, cancelled, errs, closed>>

WaitStopped ==
    /\ pc = "wait"
    /\ Stopped
    /\ pc' = "collect"
    /\ UNCHANGED <<world, options, skipDrain, forced, cancelled, errs, closed>>

\* Faulty variant: the timer is looked at only once the runners stopped.
WaitTimesOutLate ==
    /\ pc = "wait"
    /\ Stopped
    /\ Report("timeout", 0)
    /\ pc' = "collect"
    /\ UNCHANGED <<world, options, skipDrain, forced, cancelled, closed>>

WaitTimesOut ==
    /\ pc = "wait"
    /\ Report("timeout", 0)
    /\ pc' = "collect"
    /\ UNCHANGED <<world, options, skipDrain, forced, cancelled, closed>>

WaitForced ==
    /\ pc = "wait"
    /\ sigc > 0
    /\ sigc' = sigc - 1
    /\ forced' = TRUE
    /\ Report("forced", 0)
    /\ pc' = "collect"
    /\ UNCHANGED <<ctxDone, sent, options, skipDrain, cancelled, runner, res,
                   results, closed, early>>

(* The collecting loop takes every result that is in the channel. *)
Collect(r) ==
    /\ pc = "collect"
    /\ r \in results
    /\ results' = results \ {r}
    /\ IF res[r] = "error" THEN Report("runner", r) ELSE UNCHANGED errs
    /\ UNCHANGED <<pc, ctxDone, sigc, sent, options, skipDrain, forced,
                   cancelled, runner, res, closed, early>>

\* Faulty variant: the loop ends with results left in the channel.
CollectEndsEarly ==
    /\ pc = "collect"
    /\ pc' = "cleanup"
    /\ UNCHANGED <<world, options, skipDrain, forced, cancelled, errs, closed>>

CollectEnds ==
    /\ pc = "collect"
    /\ results = {}
    /\ pc' = "cleanup"
    /\ UNCHANGED <<world, options, skipDrain, forced, cancelled, errs, closed>>

\* Faulty variant: items close in the order they were added.
CloseItemForward ==
    /\ pc = "cleanup"
    /\ Len(closed) < Items
    /\ LET item == Len(closed) + 1 IN
       /\ closed' = Append(closed, item)
       /\ UNCHANGED errs \/ Report("close", item)
    /\ UNCHANGED <<pc, world, options, skipDrain, forced, cancelled>>

(* Cleanup.Close: the last item added that is left; an error is collected and
   the rest still close. *)
CloseItem ==
    /\ pc = "cleanup"
    /\ Len(closed) < Items
    /\ LET item == Items - Len(closed) IN
       /\ closed' = Append(closed, item)
       /\ UNCHANGED errs \/ Report("close", item)
    /\ UNCHANGED <<pc, world, options, skipDrain, forced, cancelled>>

Return ==
    /\ pc = "cleanup"
    /\ Len(closed) = Items
    /\ pc' = "returned"
    /\ UNCHANGED <<world, options, skipDrain, forced, cancelled, errs, closed>>

Main ==
    \/ ServingInterrupted
    \/ \E r \in Runners : ServingRunnerStopped(r)
    \/ RunHooks
    \/ DrainEnds \/ DrainForced
    \/ CancelRun
    \/ WaitStopped \/ WaitTimesOut \/ WaitForced
    \/ \E r \in Runners : Collect(r)
    \/ CollectEnds
    \/ CloseItem \/ Return

Next ==
    \/ Main
    \/ ContextDone \/ Signal
    \/ \E r \in Runners : RunnerReturns(r) \/ RunnerDone(r)

Spec == Init /\ [][Next]_vars

(* Run's goroutine is scheduled and its timers fire.  Nothing is assumed of
   the runners: one may ignore its context for ever. *)
FairSpec == Spec /\ WF_vars(Main)

-----------------------------------------------------------------------------
(* Properties *)

Interrupted == \E e \in errs : e.kind \in {"timeout", "forced"}

(* Resources are closed under no running runner, unless Run reports that it
   gave up waiting. *)
ClosesAfterRunners == closed # <<>> => Stopped \/ Interrupted

(* A runner's error is never swallowed: it was the reason to stop or it is
   collected, unless Run gave up waiting for the runner. *)
ErrorsReported ==
    pc = "returned" =>
        \A r \in Runners :
            res[r] = "error" => [kind |-> "runner", of |-> r] \in errs \/ Interrupted

(* A nil error means a complete shutdown: all runners returned, and every
   cleanup item was closed in reverse order of registration. *)
NilMeansClean ==
    pc = "returned" /\ errs = {} =>
        /\ Stopped
        /\ results = {}
        /\ closed = [i \in 1..Items |-> Items + 1 - i]

(* Once there is a reason to stop, Run returns, even if no runner ever does. *)
Terminates == (ctxDone \/ sigc > 0 \/ results # {}) ~> pc = "returned"

(* What the Runner and Run comments say: a runner that returns before its
   context is done is a failure, and Run returns every failure. *)
EarlyReturnsReported ==
    pc = "returned" => \A r \in early : \E e \in errs : e.of = r
=============================================================================
