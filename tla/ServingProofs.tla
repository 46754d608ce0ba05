---------------------------- MODULE ServingProofs ----------------------------
(***************************************************************************)
(* Proofs about the process that serves requests.                          *)
(*                                                                         *)
(* AppRun, for any set of runners, any cleanup stack and any number of     *)
(* signals: resources close after the runners, no runner's error is        *)
(* swallowed, and a nil error means a complete shutdown.                   *)
(*                                                                         *)
(* RequestTimeout (its specification is RTSpec), for one of the requests   *)
(* it serves: in every interleaving of its handler and the timer, one      *)
(* answer goes out, and nothing after the request ended.                   *)
(***************************************************************************)
EXTENDS AppRun, RequestTimeout, TLAPS

(* The types: Boolean flags, and the rest. *)
Flags ==
    /\ ctxDone \in BOOLEAN /\ drainDelay \in BOOLEAN /\ skipDrain \in BOOLEAN
    /\ forced \in BOOLEAN /\ cancelled \in BOOLEAN
Fields ==
    /\ pc \in Steps
    /\ sigc \in 0..SignalBuffer /\ sent \in 0..MaxSignals
    /\ runner \in [Runners -> {"running", "returned", "done"}]
    /\ res \in [Runners -> Outcomes \cup {"none"}]
    /\ results \subseteq Runners
    /\ early \subseteq Runners
Reports == errs \subseteq Errors

(* A runner that failed has its result in the channel, or Run has reported
   it. *)
Delivered ==
    \A r \in Runners :
        /\ res[r] = "none" <=> runner[r] = "running"
        /\ r \in results => runner[r] # "running"
        /\ res[r] = "error" /\ r \notin results => [kind |-> "runner", of |-> r] \in errs

(* Run collects results after the runners stopped, or says that it did not
   wait; it leaves the loop with none left. *)
Waited ==
    /\ pc \in {"collect", "cleanup", "returned"} => Stopped \/ Interrupted
    /\ pc \in {"cleanup", "returned"} => results = {} \/ Interrupted

(* The cleanup stack closes from its top, and only during cleanup. *)
ClosedDownTo ==
    /\ closed \in Seq(1..Items)
    /\ Len(closed) <= Items
    /\ \A i \in 1..Len(closed) : closed[i] = Items + 1 - i
    /\ pc \notin {"cleanup", "returned"} => closed = <<>>
    /\ pc = "returned" => Len(closed) = Items

(* The inductive invariant. *)
IInv == Flags /\ Fields /\ Reports /\ Delivered /\ Waited /\ ClosedDownTo

(* An application that just started serving satisfies it. *)
LEMMA InitInv == Init => IInv
<1> SUFFICES ASSUME Init PROVE IInv
  OBVIOUS
<1>1. Flags
  BY DEF Init, Flags
<1>2. Fields /\ Reports
  BY ItemsAssumption DEF Init, Fields, Steps, SignalBuffer, Outcomes, Reports
<1>3. Delivered /\ Waited
  BY DEF Init, Delivered, Waited
<1>4. ClosedDownTo
  BY ItemsAssumption DEF Init, ClosedDownTo
<1> QED
  BY <1>1, <1>2, <1>3, <1>4 DEF IInv

(* Giving up is reported. *)
LEMMA GivingUp ==
    ASSUME NEW kind \in {"timeout", "forced"}, Report(kind, 0)
    PROVE  Interrupted'
<1>1. [kind |-> kind, of |-> 0] \in errs'
  BY DEF Report
<1> QED
  BY <1>1 DEF Interrupted

(* Every step of Run, its runners, the signals and the parent context keeps
   it. *)
LEMMA NextInv == IInv /\ [Next]_vars => IInv'
<1> SUFFICES ASSUME IInv, [Next]_vars PROVE IInv'
  OBVIOUS
<1> USE DEF IInv, world, options
<1>1. CASE ServingInterrupted \/ RunHooks \/ DrainEnds \/ DrainForced
  <2>1. Flags'
    BY <1>1 DEF ServingInterrupted, RunHooks, DrainEnds, DrainForced, Flags
  <2>2. Fields'
    BY <1>1, ItemsAssumption DEF ServingInterrupted, RunHooks, DrainEnds, DrainForced,
                                 Fields, Steps, SignalBuffer, Outcomes, Flags
  <2>3. Reports'
    BY <1>1 DEF ServingInterrupted, RunHooks, DrainEnds, DrainForced, Reports
  <2>4. Delivered'
    BY <1>1 DEF ServingInterrupted, RunHooks, DrainEnds, DrainForced, Delivered,
                Fields, Outcomes
  <2>5. Waited'
    BY <1>1 DEF ServingInterrupted, RunHooks, DrainEnds, DrainForced, Waited, Fields,
                Stopped, Interrupted, Delivered
  <2>6. ClosedDownTo'
    BY <1>1, ItemsAssumption DEF ServingInterrupted, RunHooks, DrainEnds, DrainForced,
                                 ClosedDownTo
  <2> QED
    BY <2>1, <2>2, <2>3, <2>4, <2>5, <2>6
<1>2. ASSUME NEW r \in Runners, ServingRunnerStopped(r) PROVE IInv'
  <2>1. Flags'
    BY <1>2 DEF ServingRunnerStopped, Flags
  <2>2. Fields'
    BY <1>2, ItemsAssumption DEF ServingRunnerStopped, Fields, Steps, SignalBuffer,
                                 Outcomes, Flags
  <2>3. Reports'
    BY <1>2, ItemsAssumption DEF ServingRunnerStopped, Report, Reports, Errors, Fields
  <2>4. Delivered'
    BY <1>2 DEF ServingRunnerStopped, Report, Delivered, Fields, Outcomes
  <2>5. Waited'
    BY <1>2 DEF ServingRunnerStopped, Report, Waited, Fields, Stopped, Interrupted,
                Delivered
  <2>6. ClosedDownTo'
    BY <1>2, ItemsAssumption DEF ServingRunnerStopped, ClosedDownTo
  <2> QED
    BY <2>1, <2>2, <2>3, <2>4, <2>5, <2>6
<1>3. CASE CancelRun
  <2>1. Flags'
    BY <1>3 DEF CancelRun, Flags
  <2>2. Fields'
    BY <1>3, ItemsAssumption DEF CancelRun, Fields, Steps, SignalBuffer, Outcomes, Flags
  <2>3. Reports'
    BY <1>3, ItemsAssumption DEF CancelRun, Report, Reports, Errors, Fields
  <2>4. Delivered'
    BY <1>3 DEF CancelRun, Report, Delivered, Fields, Outcomes
  <2>5. Waited'
    BY <1>3, GivingUp DEF CancelRun, Waited
  <2>6. ClosedDownTo'
    BY <1>3, ItemsAssumption DEF CancelRun, ClosedDownTo
  <2> QED
    BY <2>1, <2>2, <2>3, <2>4, <2>5, <2>6
<1>4. CASE WaitStopped
  <2>1. Flags'
    BY <1>4 DEF WaitStopped, Flags
  <2>2. Fields'
    BY <1>4, ItemsAssumption DEF WaitStopped, Fields, Steps, SignalBuffer, Outcomes,
                                 Flags
  <2>3. Reports'
    BY <1>4 DEF WaitStopped, Reports
  <2>4. Delivered'
    BY <1>4 DEF WaitStopped, Delivered, Fields, Outcomes
  <2>5. Waited'
    BY <1>4 DEF WaitStopped, Waited, Fields, Stopped, Interrupted, Delivered
  <2>6. ClosedDownTo'
    BY <1>4, ItemsAssumption DEF WaitStopped, ClosedDownTo
  <2> QED
    BY <2>1, <2>2, <2>3, <2>4, <2>5, <2>6
<1>5. CASE WaitTimesOut \/ WaitForced
  <2>1. Flags'
    BY <1>5 DEF WaitTimesOut, WaitForced, Flags
  <2>2. Fields'
    BY <1>5, ItemsAssumption DEF WaitTimesOut, WaitForced, Fields, Steps, SignalBuffer,
                                 Outcomes, Flags
  <2>3. Reports'
    BY <1>5, ItemsAssumption DEF WaitTimesOut, WaitForced, Report, Reports, Errors,
                                 Fields
  <2>4. Delivered'
    BY <1>5 DEF WaitTimesOut, WaitForced, Report, Delivered, Fields, Outcomes
  <2>5. Waited'
    BY <1>5, GivingUp DEF WaitTimesOut, WaitForced, Waited
  <2>6. ClosedDownTo'
    BY <1>5, ItemsAssumption DEF WaitTimesOut, WaitForced, ClosedDownTo
  <2> QED
    BY <2>1, <2>2, <2>3, <2>4, <2>5, <2>6
<1>6. ASSUME NEW r \in Runners, Collect(r) PROVE IInv'
  <2>1. Flags'
    BY <1>6 DEF Collect, Flags
  <2>2. Fields'
    BY <1>6, ItemsAssumption DEF Collect, Fields, Steps, SignalBuffer, Outcomes, Flags
  <2>3. Reports'
    BY <1>6, ItemsAssumption DEF Collect, Report, Reports, Errors, Fields
  <2>4. Delivered'
    BY <1>6 DEF Collect, Report, Delivered, Fields, Outcomes
  <2>5. Waited'
    BY <1>6 DEF Collect, Report, Waited, Fields, Stopped, Interrupted, Delivered
  <2>6. ClosedDownTo'
    BY <1>6, ItemsAssumption DEF Collect, ClosedDownTo
  <2> QED
    BY <2>1, <2>2, <2>3, <2>4, <2>5, <2>6
<1>7. CASE CollectEnds \/ Return
  <2>1. Flags'
    BY <1>7 DEF CollectEnds, Return, Flags
  <2>2. Fields'
    BY <1>7, ItemsAssumption DEF CollectEnds, Return, Fields, Steps, SignalBuffer,
                                 Outcomes, Flags
  <2>3. Reports'
    BY <1>7 DEF CollectEnds, Return, Reports
  <2>4. Delivered'
    BY <1>7 DEF CollectEnds, Return, Delivered, Fields, Outcomes
  <2>5. Waited'
    BY <1>7 DEF CollectEnds, Return, Waited, Fields, Stopped, Interrupted, Delivered
  <2>6. ClosedDownTo'
    BY <1>7, ItemsAssumption DEF CollectEnds, Return, ClosedDownTo
  <2> QED
    BY <2>1, <2>2, <2>3, <2>4, <2>5, <2>6
<1>8. CASE CloseItem
  <2>1. Flags'
    BY <1>8 DEF CloseItem, Flags
  <2>2. Fields'
    BY <1>8, ItemsAssumption DEF CloseItem, Fields, Steps, SignalBuffer, Outcomes, Flags
  <2>3. Reports'
    BY <1>8, ItemsAssumption DEF CloseItem, Report, Reports, Errors, Fields
  <2>4. Delivered'
    BY <1>8 DEF CloseItem, Report, Delivered, Fields, Outcomes
  <2>5. Waited'
    BY <1>8 DEF CloseItem, Report, Waited, Fields, Stopped, Interrupted, Delivered
  <2>6. ClosedDownTo'
    BY <1>8, ItemsAssumption DEF CloseItem, ClosedDownTo
  <2> QED
    BY <2>1, <2>2, <2>3, <2>4, <2>5, <2>6
<1>9. CASE ContextDone \/ Signal
  <2>1. Flags'
    BY <1>9 DEF ContextDone, Signal, Flags
  <2>2. Fields'
    BY <1>9, ItemsAssumption DEF ContextDone, Signal, Fields, Steps, SignalBuffer,
                                 Outcomes, Flags
  <2>3. Reports'
    BY <1>9 DEF ContextDone, Signal, Reports
  <2>4. Delivered'
    BY <1>9 DEF ContextDone, Signal, Delivered, Fields, Outcomes
  <2>5. Waited'
    BY <1>9 DEF ContextDone, Signal, Waited, Fields, Stopped, Interrupted, Delivered
  <2>6. ClosedDownTo'
    BY <1>9, ItemsAssumption DEF ContextDone, Signal, ClosedDownTo
  <2> QED
    BY <2>1, <2>2, <2>3, <2>4, <2>5, <2>6
<1>10. ASSUME NEW r \in Runners, RunnerReturns(r) PROVE IInv'
  <2>1. Flags'
    BY <1>10 DEF RunnerReturns, Flags
  <2>2. Fields'
    BY <1>10, ItemsAssumption DEF RunnerReturns, Fields, Steps, SignalBuffer, Outcomes,
                                  Flags
  <2>3. Reports'
    BY <1>10 DEF RunnerReturns, Reports
  <2>4. Delivered'
    BY <1>10 DEF RunnerReturns, Delivered, Fields, Outcomes
  <2>5. Waited'
    BY <1>10 DEF RunnerReturns, Waited, Fields, Stopped, Interrupted, Delivered
  <2>6. ClosedDownTo'
    BY <1>10, ItemsAssumption DEF RunnerReturns, ClosedDownTo
  <2> QED
    BY <2>1, <2>2, <2>3, <2>4, <2>5, <2>6
<1>11. ASSUME NEW r \in Runners, RunnerDone(r) PROVE IInv'
  <2>1. Flags'
    BY <1>11 DEF RunnerDone, Flags
  <2>2. Fields'
    BY <1>11, ItemsAssumption DEF RunnerDone, Fields, Steps, SignalBuffer, Outcomes,
                                  Flags
  <2>3. Reports'
    BY <1>11 DEF RunnerDone, Reports
  <2>4. Delivered'
    BY <1>11 DEF RunnerDone, Delivered, Fields, Outcomes
  <2>5. Waited'
    BY <1>11 DEF RunnerDone, Waited, Fields, Stopped, Interrupted, Delivered
  <2>6. ClosedDownTo'
    BY <1>11, ItemsAssumption DEF RunnerDone, ClosedDownTo
  <2> QED
    BY <2>1, <2>2, <2>3, <2>4, <2>5, <2>6
<1>12. CASE UNCHANGED vars
  <2>1. Flags' /\ Fields' /\ Reports' /\ Delivered'
    BY <1>12 DEF vars, Flags, Fields, Reports, Delivered
  <2>2. Waited' /\ ClosedDownTo'
    BY <1>12 DEF vars, Waited, Stopped, Interrupted, ClosedDownTo
  <2> QED
    BY <2>1, <2>2
<1> QED
  BY <1>1, <1>2, <1>3, <1>4, <1>5, <1>6, <1>7, <1>8, <1>9, <1>10, <1>11, <1>12
     DEF Next, Main

-----------------------------------------------------------------------------

(* The invariant holds in every reachable state. *)
LEMMA Invariance == Spec => []IInv
  BY InitInv, NextInv, PTL DEF Spec

(* Every reachable state is well typed. *)
THEOREM TypeCorrect == Spec => []TypeOK
<1>1. IInv => TypeOK
  BY DEF IInv, Flags, Fields, Reports, ClosedDownTo, TypeOK
<1> QED
  BY <1>1, Invariance, PTL

(* Resources close under no running runner, unless Run reports that it gave up
   waiting. *)
THEOREM ClosesLast == Spec => []ClosesAfterRunners
<1>1. IInv => ClosesAfterRunners
  BY DEF IInv, Waited, ClosedDownTo, ClosesAfterRunners
<1> QED
  BY <1>1, Invariance, PTL

(* No runner's error is swallowed, unless Run gave up waiting for it. *)
THEOREM NoErrorSwallowed == Spec => []ErrorsReported
<1>1. IInv => ErrorsReported
  BY DEF IInv, Delivered, Waited, ErrorsReported
<1> QED
  BY <1>1, Invariance, PTL

(* A nil error means that all runners returned and that every cleanup item was
   closed, in reverse order of registration. *)
THEOREM NilIsClean == Spec => []NilMeansClean
<1>1. IInv => NilMeansClean
  <2> SUFFICES ASSUME IInv, pc = "returned", errs = {}
               PROVE  /\ Stopped
                      /\ results = {}
                      /\ closed = [i \in 1..Items |-> Items + 1 - i]
    BY DEF NilMeansClean
  <2>1. Stopped /\ results = {}
    BY DEF IInv, Waited, Interrupted
  <2>2. /\ closed \in Seq(1..Items) /\ Len(closed) = Items
        /\ \A i \in 1..Items : closed[i] = Items + 1 - i
    BY DEF IInv, ClosedDownTo
  <2>3. closed = [i \in 1..Items |-> Items + 1 - i]
    BY <2>2
  <2> QED
    BY <2>1, <2>3
<1> QED
  BY <1>1, Invariance, PTL

-----------------------------------------------------------------------------
(* The response to one request. *)

(* The types, without the status lines: Boolean flags, and the rest. *)
ResponseFlags ==
    /\ returned \in BOOLEAN /\ hijacked \in BOOLEAN /\ saw \in BOOLEAN
    /\ started \in BOOLEAN /\ timedOut \in BOOLEAN /\ answered \in BOOLEAN
ResponseFields ==
    /\ ctxErr \in {"none", "deadline", "canceled"}
    /\ cb \in {"armed", "fired", "done", "stopped"}
    /\ handler \in {"running", "stopTimer", "waitCallback", "finish", "return", "end"}
    /\ real \in Owner
    /\ status \in {"none", "handler", "timeout"}
    /\ sentWith \in Owner \cup {"none"}
    /\ body \subseteq {"handler", "timeout"}

(* A response starts or times out, never both; the 503 is the timed out
   writer's, and a hijacked connection counts as a response. *)
OneOutcome ==
    /\ timedOut => ~started
    /\ answered => timedOut
    /\ hijacked => started
    /\ answered <=> status = "timeout"

(* Nothing goes out before the response starts or is answered, but for the
   implicit 200 of net/http at the very end. *)
Unsent ==
    ~started /\ ~answered => /\ body = {}
                             /\ status = "none" \/ (handler = "end" /\ returned)

(* One final status line goes out. *)
OneLine == lines \in {0, 1} /\ (status = "none" => lines = 0)

(* The 503 goes out with the outer headers, and alone. *)
Clean == answered => sentWith = "outer" /\ body = {"timeout"}

(* The deferred function goes on only when the callback is over. *)
CallbackOver == handler \in {"finish", "return", "end"} => cb \in {"stopped", "done"}

(* A deadline the handler saw before its response started refuses whatever it
   does from then on, and is answered when it returns. *)
SeenIsRefused ==
    saw => /\ ctxErr = "deadline" /\ ~started
           /\ returned /\ handler \in {"return", "end"} => answered

(* The inductive invariant. *)
ResponseIInv == /\ ResponseFlags /\ ResponseFields
        /\ OneOutcome /\ Unsent /\ OneLine /\ Clean
        /\ CallbackOver /\ SeenIsRefused

(* A request that has just been given to its handler satisfies it. *)
LEMMA ResponseInitInv == RTInit => ResponseIInv
<1> SUFFICES ASSUME RTInit PROVE ResponseIInv
  OBVIOUS
<1>1. ResponseFlags
  BY DEF RTInit, ResponseFlags
<1>2. ResponseFields
  BY DEF RTInit, ResponseFields, Owner
<1>3. OneOutcome /\ Unsent /\ OneLine /\ Clean
  BY DEF RTInit, OneOutcome, Unsent, OneLine, Clean
<1>4. CallbackOver /\ SeenIsRefused
  BY DEF RTInit, CallbackOver, SeenIsRefused
<1> QED
  BY <1>1, <1>2, <1>3, <1>4 DEF ResponseIInv

(* Every step of the timers, the client, the callback, the handler and the
   deferred function keeps it. *)
LEMMA ResponseNextInv == ResponseIInv /\ [RTNext]_rtVars => ResponseIInv'
<1> SUFFICES ASSUME ResponseIInv, [RTNext]_rtVars PROVE ResponseIInv'
  OBVIOUS
<1> USE DEF ResponseIInv, ResponseFlags, wire
<1>1. CASE DeadlinePasses \/ ClientLeaves \/ TimerFires
  <2>1. ResponseFlags'
    BY <1>1 DEF DeadlinePasses, ClientLeaves, TimerFires
  <2>2. ResponseFields'
    BY <1>1 DEF DeadlinePasses, ClientLeaves, TimerFires, ResponseFields, Owner
  <2>3. OneOutcome'
    BY <1>1 DEF DeadlinePasses, ClientLeaves, TimerFires, ResponseFields, OneOutcome, Unsent,
                CallbackOver
  <2>4. Unsent'
    BY <1>1 DEF DeadlinePasses, ClientLeaves, TimerFires, ResponseFields, OneOutcome, Unsent,
                CallbackOver
  <2>5. OneLine'
    BY <1>1 DEF DeadlinePasses, ClientLeaves, TimerFires, OneOutcome, Unsent, OneLine,
                CallbackOver
  <2>6. Clean'
    BY <1>1 DEF DeadlinePasses, ClientLeaves, TimerFires, OneOutcome, Unsent, Clean,
                CallbackOver
  <2>7. CallbackOver' /\ SeenIsRefused'
    BY <1>1 DEF DeadlinePasses, ClientLeaves, TimerFires, ResponseFields, OneOutcome,
                CallbackOver, SeenIsRefused
  <2> QED
    BY <2>1, <2>2, <2>3, <2>4, <2>5, <2>6, <2>7
<1>2. CASE Callback
  <2>1. ResponseFlags'
    BY <1>2 DEF Callback, AnswerLocked, SendStatus
  <2>2. ResponseFields'
    BY <1>2 DEF Callback, AnswerLocked, SendStatus, ResponseFields, Owner
  <2>3. OneOutcome'
    BY <1>2 DEF Callback, AnswerLocked, SendStatus, ResponseFields, OneOutcome, Unsent,
                CallbackOver
  <2>4. Unsent'
    BY <1>2 DEF Callback, AnswerLocked, SendStatus, ResponseFields, OneOutcome, Unsent,
                CallbackOver
  <2>5. OneLine'
    BY <1>2 DEF Callback, AnswerLocked, SendStatus, OneOutcome, Unsent, OneLine,
                CallbackOver
  <2>6. Clean'
    BY <1>2 DEF Callback, AnswerLocked, SendStatus, OneOutcome, Unsent, Clean,
                CallbackOver
  <2>7. CallbackOver' /\ SeenIsRefused'
    BY <1>2 DEF Callback, AnswerLocked, SendStatus, ResponseFields, OneOutcome, CallbackOver,
                SeenIsRefused
  <2> QED
    BY <2>1, <2>2, <2>3, <2>4, <2>5, <2>6, <2>7
<1>3. CASE WriteInformational
  <2>1. ResponseFlags'
    BY <1>3 DEF WriteInformational, Refuse, Refused
  <2>2. ResponseFields'
    BY <1>3 DEF WriteInformational, Refuse, Refused, ResponseFields, Owner
  <2>3. OneOutcome'
    BY <1>3 DEF WriteInformational, Refuse, Refused, ResponseFields, OneOutcome, Unsent,
                CallbackOver
  <2>4. Unsent'
    BY <1>3 DEF WriteInformational, Refuse, Refused, ResponseFields, OneOutcome, Unsent,
                CallbackOver
  <2>5. OneLine'
    BY <1>3 DEF WriteInformational, Refuse, Refused, OneOutcome, Unsent, OneLine,
                CallbackOver
  <2>6. Clean'
    BY <1>3 DEF WriteInformational, Refuse, Refused, OneOutcome, Unsent, Clean,
                CallbackOver
  <2>7. CallbackOver' /\ SeenIsRefused'
    BY <1>3 DEF WriteInformational, Refuse, Refused, ResponseFields, OneOutcome, CallbackOver,
                SeenIsRefused
  <2> QED
    BY <2>1, <2>2, <2>3, <2>4, <2>5, <2>6, <2>7
<1>4. CASE WriteHeader
  <2>1. ResponseFlags'
    BY <1>4 DEF WriteHeader, SendStatus, Refuse, Refused
  <2>2. ResponseFields'
    BY <1>4 DEF WriteHeader, SendStatus, Refuse, Refused, ResponseFields, Owner
  <2>3. OneOutcome'
    BY <1>4 DEF WriteHeader, SendStatus, Refuse, Refused, ResponseFields, OneOutcome, Unsent,
                CallbackOver
  <2>4. Unsent'
    BY <1>4 DEF WriteHeader, SendStatus, Refuse, Refused, ResponseFields, OneOutcome, Unsent,
                CallbackOver
  <2>5. OneLine'
    BY <1>4 DEF WriteHeader, SendStatus, Refuse, Refused, OneOutcome, Unsent, OneLine,
                CallbackOver
  <2>6. Clean'
    BY <1>4 DEF WriteHeader, SendStatus, Refuse, Refused, OneOutcome, Unsent, Clean,
                CallbackOver
  <2>7. CallbackOver' /\ SeenIsRefused'
    BY <1>4 DEF WriteHeader, SendStatus, Refuse, Refused, ResponseFields, OneOutcome,
                CallbackOver, SeenIsRefused
  <2> QED
    BY <2>1, <2>2, <2>3, <2>4, <2>5, <2>6, <2>7
<1>5. CASE Write
  <2>1. ResponseFlags'
    BY <1>5 DEF Write, StartedWith, SendStatus, Refuse, Refused
  <2>2. ResponseFields'
    BY <1>5 DEF Write, StartedWith, SendStatus, Refuse, Refused, ResponseFields, Owner
  <2>3. OneOutcome'
    BY <1>5 DEF Write, StartedWith, SendStatus, Refuse, Refused, ResponseFields, OneOutcome,
                Unsent, CallbackOver
  <2>4. Unsent'
    BY <1>5 DEF Write, StartedWith, SendStatus, Refuse, Refused, ResponseFields, OneOutcome,
                Unsent, CallbackOver
  <2>5. OneLine'
    BY <1>5 DEF Write, StartedWith, SendStatus, Refuse, Refused, OneOutcome, Unsent,
                OneLine, CallbackOver
  <2>6. Clean'
    BY <1>5 DEF Write, StartedWith, SendStatus, Refuse, Refused, OneOutcome, Unsent,
                Clean, CallbackOver
  <2>7. CallbackOver' /\ SeenIsRefused'
    BY <1>5 DEF Write, StartedWith, SendStatus, Refuse, Refused, ResponseFields, OneOutcome,
                CallbackOver, SeenIsRefused
  <2> QED
    BY <2>1, <2>2, <2>3, <2>4, <2>5, <2>6, <2>7
<1>6. CASE FlushError
  <2>1. ResponseFlags'
    BY <1>6 DEF FlushError, StartedWith, SendStatus, Refuse, Refused
  <2>2. ResponseFields'
    BY <1>6 DEF FlushError, StartedWith, SendStatus, Refuse, Refused, ResponseFields, Owner
  <2>3. OneOutcome'
    BY <1>6 DEF FlushError, StartedWith, SendStatus, Refuse, Refused, ResponseFields,
                OneOutcome, Unsent, CallbackOver
  <2>4. Unsent'
    BY <1>6 DEF FlushError, StartedWith, SendStatus, Refuse, Refused, ResponseFields,
                OneOutcome, Unsent, CallbackOver
  <2>5. OneLine'
    BY <1>6 DEF FlushError, StartedWith, SendStatus, Refuse, Refused, OneOutcome,
                Unsent, OneLine, CallbackOver
  <2>6. Clean'
    BY <1>6 DEF FlushError, StartedWith, SendStatus, Refuse, Refused, OneOutcome,
                Unsent, Clean, CallbackOver
  <2>7. CallbackOver' /\ SeenIsRefused'
    BY <1>6 DEF FlushError, StartedWith, SendStatus, Refuse, Refused, ResponseFields,
                OneOutcome, CallbackOver, SeenIsRefused
  <2> QED
    BY <2>1, <2>2, <2>3, <2>4, <2>5, <2>6, <2>7
<1>7. CASE Hijack
  <2>1. ResponseFlags'
    BY <1>7 DEF Hijack, Refuse, Refused
  <2>2. ResponseFields'
    BY <1>7 DEF Hijack, Refuse, Refused, ResponseFields, Owner
  <2>3. OneOutcome'
    BY <1>7 DEF Hijack, Refuse, Refused, ResponseFields, OneOutcome, Unsent, CallbackOver
  <2>4. Unsent'
    BY <1>7 DEF Hijack, Refuse, Refused, ResponseFields, OneOutcome, Unsent, CallbackOver
  <2>5. OneLine'
    BY <1>7 DEF Hijack, Refuse, Refused, OneOutcome, Unsent, OneLine, CallbackOver
  <2>6. Clean'
    BY <1>7 DEF Hijack, Refuse, Refused, OneOutcome, Unsent, Clean, CallbackOver
  <2>7. CallbackOver' /\ SeenIsRefused'
    BY <1>7 DEF Hijack, Refuse, Refused, ResponseFields, OneOutcome, CallbackOver, SeenIsRefused
  <2> QED
    BY <2>1, <2>2, <2>3, <2>4, <2>5, <2>6, <2>7
<1>8. CASE SetDeadline
  <2>1. ResponseFlags'
    BY <1>8 DEF SetDeadline, Refuse, Refused
  <2>2. ResponseFields'
    BY <1>8 DEF SetDeadline, Refuse, Refused, ResponseFields, Owner
  <2>3. OneOutcome'
    BY <1>8 DEF SetDeadline, Refuse, Refused, ResponseFields, OneOutcome, Unsent, CallbackOver
  <2>4. Unsent'
    BY <1>8 DEF SetDeadline, Refuse, Refused, ResponseFields, OneOutcome, Unsent, CallbackOver
  <2>5. OneLine'
    BY <1>8 DEF SetDeadline, Refuse, Refused, OneOutcome, Unsent, OneLine, CallbackOver
  <2>6. Clean'
    BY <1>8 DEF SetDeadline, Refuse, Refused, OneOutcome, Unsent, Clean, CallbackOver
  <2>7. CallbackOver' /\ SeenIsRefused'
    BY <1>8 DEF SetDeadline, Refuse, Refused, ResponseFields, OneOutcome, CallbackOver,
                SeenIsRefused
  <2> QED
    BY <2>1, <2>2, <2>3, <2>4, <2>5, <2>6, <2>7
<1>9. CASE SetHeader \/ SeeDeadline
  <2>1. ResponseFlags'
    BY <1>9 DEF SetHeader, SeeDeadline
  <2>2. ResponseFields'
    BY <1>9 DEF SetHeader, SeeDeadline, ResponseFields, Owner
  <2>3. OneOutcome'
    BY <1>9 DEF SetHeader, SeeDeadline, ResponseFields, OneOutcome, Unsent, CallbackOver
  <2>4. Unsent'
    BY <1>9 DEF SetHeader, SeeDeadline, ResponseFields, OneOutcome, Unsent, CallbackOver
  <2>5. OneLine'
    BY <1>9 DEF SetHeader, SeeDeadline, OneOutcome, Unsent, OneLine, CallbackOver
  <2>6. Clean'
    BY <1>9 DEF SetHeader, SeeDeadline, OneOutcome, Unsent, Clean, CallbackOver
  <2>7. CallbackOver' /\ SeenIsRefused'
    BY <1>9 DEF SetHeader, SeeDeadline, ResponseFields, OneOutcome, CallbackOver, SeenIsRefused
  <2> QED
    BY <2>1, <2>2, <2>3, <2>4, <2>5, <2>6, <2>7
<1>10. CASE HandlerEnds
  <2>1. ResponseFlags'
    BY <1>10 DEF HandlerEnds
  <2>2. ResponseFields'
    BY <1>10 DEF HandlerEnds, ResponseFields, Owner
  <2>3. OneOutcome'
    BY <1>10 DEF HandlerEnds, ResponseFields, OneOutcome, Unsent, CallbackOver
  <2>4. Unsent'
    BY <1>10 DEF HandlerEnds, ResponseFields, OneOutcome, Unsent, CallbackOver
  <2>5. OneLine'
    BY <1>10 DEF HandlerEnds, OneOutcome, Unsent, OneLine, CallbackOver
  <2>6. Clean'
    BY <1>10 DEF HandlerEnds, OneOutcome, Unsent, Clean, CallbackOver
  <2>7. CallbackOver' /\ SeenIsRefused'
    BY <1>10 DEF HandlerEnds, ResponseFields, OneOutcome, CallbackOver, SeenIsRefused
  <2> QED
    BY <2>1, <2>2, <2>3, <2>4, <2>5, <2>6, <2>7
<1>11. CASE StopTimer \/ WaitCallback
  <2>1. ResponseFlags'
    BY <1>11 DEF StopTimer, WaitCallback
  <2>2. ResponseFields'
    BY <1>11 DEF StopTimer, WaitCallback, ResponseFields, Owner
  <2>3. OneOutcome'
    BY <1>11 DEF StopTimer, WaitCallback, ResponseFields, OneOutcome, Unsent, CallbackOver
  <2>4. Unsent'
    BY <1>11 DEF StopTimer, WaitCallback, ResponseFields, OneOutcome, Unsent, CallbackOver
  <2>5. OneLine'
    BY <1>11 DEF StopTimer, WaitCallback, OneOutcome, Unsent, OneLine, CallbackOver
  <2>6. Clean'
    BY <1>11 DEF StopTimer, WaitCallback, OneOutcome, Unsent, Clean, CallbackOver
  <2>7. CallbackOver' /\ SeenIsRefused'
    BY <1>11 DEF StopTimer, WaitCallback, ResponseFields, OneOutcome, CallbackOver,
                 SeenIsRefused
  <2> QED
    BY <2>1, <2>2, <2>3, <2>4, <2>5, <2>6, <2>7
<1>12. CASE Finish
  <2>1. ResponseFlags'
    BY <1>12 DEF Finish, AnswerLocked, SendStatus, Refuse, Refused
  <2>2. ResponseFields'
    BY <1>12 DEF Finish, AnswerLocked, SendStatus, Refuse, Refused, ResponseFields, Owner
  <2>3. OneOutcome'
    BY <1>12 DEF Finish, AnswerLocked, SendStatus, Refuse, Refused, ResponseFields, OneOutcome,
                 Unsent, CallbackOver
  <2>4. Unsent'
    BY <1>12 DEF Finish, AnswerLocked, SendStatus, Refuse, Refused, ResponseFields, OneOutcome,
                 Unsent, CallbackOver
  <2>5. OneLine'
    BY <1>12 DEF Finish, AnswerLocked, SendStatus, Refuse, Refused, OneOutcome, Unsent,
                 OneLine, CallbackOver
  <2>6. Clean'
    BY <1>12 DEF Finish, AnswerLocked, SendStatus, Refuse, Refused, OneOutcome, Unsent,
                 Clean, CallbackOver
  <2>7. CallbackOver' /\ SeenIsRefused'
    BY <1>12 DEF Finish, AnswerLocked, SendStatus, Refuse, Refused, ResponseFields, OneOutcome,
                 CallbackOver, SeenIsRefused
  <2> QED
    BY <2>1, <2>2, <2>3, <2>4, <2>5, <2>6, <2>7
<1>13. CASE ServeReturns
  <2>1. ResponseFlags'
    BY <1>13 DEF ServeReturns, SendStatus
  <2>2. ResponseFields'
    BY <1>13 DEF ServeReturns, SendStatus, ResponseFields, Owner
  <2>3. OneOutcome'
    BY <1>13 DEF ServeReturns, SendStatus, ResponseFields, OneOutcome, Unsent, CallbackOver
  <2>4. Unsent'
    BY <1>13 DEF ServeReturns, SendStatus, ResponseFields, OneOutcome, Unsent, CallbackOver
  <2>5. OneLine'
    BY <1>13 DEF ServeReturns, SendStatus, OneOutcome, Unsent, OneLine, CallbackOver
  <2>6. Clean'
    BY <1>13 DEF ServeReturns, SendStatus, OneOutcome, Unsent, Clean, CallbackOver
  <2>7. CallbackOver' /\ SeenIsRefused'
    BY <1>13 DEF ServeReturns, SendStatus, ResponseFields, OneOutcome, CallbackOver,
                 SeenIsRefused
  <2> QED
    BY <2>1, <2>2, <2>3, <2>4, <2>5, <2>6, <2>7
<1>14. CASE UNCHANGED rtVars
  <2>1. ResponseFlags'
    BY <1>14 DEF rtVars
  <2>2. ResponseFields'
    BY <1>14 DEF rtVars, ResponseFields, Owner
  <2>3. OneOutcome'
    BY <1>14 DEF rtVars, ResponseFields, OneOutcome, Unsent, CallbackOver
  <2>4. Unsent'
    BY <1>14 DEF rtVars, ResponseFields, OneOutcome, Unsent, CallbackOver
  <2>5. OneLine'
    BY <1>14 DEF rtVars, OneOutcome, Unsent, OneLine, CallbackOver
  <2>6. Clean'
    BY <1>14 DEF rtVars, OneOutcome, Unsent, Clean, CallbackOver
  <2>7. CallbackOver' /\ SeenIsRefused'
    BY <1>14 DEF rtVars, ResponseFields, OneOutcome, CallbackOver, SeenIsRefused
  <2> QED
    BY <2>1, <2>2, <2>3, <2>4, <2>5, <2>6, <2>7
<1> QED
  BY <1>1, <1>2, <1>3, <1>4, <1>5, <1>6, <1>7, <1>8, <1>9, <1>10, <1>11, <1>12, <1>13, <1>14
     DEF RTNext, Serving

-----------------------------------------------------------------------------

(* The invariant holds in every reachable state. *)
LEMMA ResponseInvariance == RTSpec => []ResponseIInv
  BY ResponseInitInv, ResponseNextInv, PTL DEF RTSpec

(* Every reachable state is well typed. *)
THEOREM ResponseTypeCorrect == RTSpec => []RTTypeOK
<1>1. ResponseIInv => RTTypeOK
  <2> SUFFICES ASSUME ResponseIInv PROVE RTTypeOK
    OBVIOUS
  <2>1. ResponseFlags /\ ResponseFields
    BY DEF ResponseIInv
  <2>2. lines \in 0..MaxStatus
    BY DEF ResponseIInv, OneLine, MaxStatus
  <2> QED
    BY <2>1, <2>2 DEF RTTypeOK, ResponseFlags, ResponseFields
<1> QED
  BY <1>1, ResponseInvariance, PTL

(* One final status line goes out, and a timeout response carries none of the
   handler's headers and none of its bytes. *)
THEOREM TimeoutClean == RTSpec => []TimeoutResponseClean
<1>1. ResponseIInv => TimeoutResponseClean
  BY DEF ResponseIInv, OneOutcome, OneLine, Clean, TimeoutResponseClean
<1> QED
  BY <1>1, ResponseInvariance, PTL

(* Nothing a handler does after it saw the deadline becomes the response. *)
THEOREM DeadlineWinsAlways == RTSpec => []DeadlineWins
<1>1. ResponseIInv => DeadlineWins
  BY DEF ResponseIInv, OneOutcome, Unsent, SeenIsRefused, DeadlineWins
<1> QED
  BY <1>1, ResponseInvariance, PTL

(* Once the request has ended, nothing touches its connection. *)
THEOREM QuietAfterEndAlways == RTSpec => QuietAfterEnd
<1>1. ResponseIInv /\ [RTNext]_rtVars => [handler = "end" => UNCHANGED wire]_rtVars
  <2> SUFFICES ASSUME ResponseIInv, RTNext, handler = "end" PROVE UNCHANGED wire
    BY DEF rtVars
  <2>1. cb # "fired"
    BY DEF ResponseIInv, CallbackOver
  <2> QED
    BY <2>1 DEF RTNext, Serving, DeadlinePasses, ClientLeaves, TimerFires, Callback,
                WriteInformational, WriteHeader, Write, FlushError, Hijack, SetDeadline,
                SetHeader, SeeDeadline, HandlerEnds, StopTimer, WaitCallback, Finish,
                ServeReturns
<1> QED
  BY <1>1, ResponseInvariance, PTL DEF RTSpec, QuietAfterEnd
=============================================================================
