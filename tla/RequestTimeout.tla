--------------------------- MODULE RequestTimeout ---------------------------
(***************************************************************************)
(* The request timeout middleware (httpx/timeout): one request, served by  *)
(* its handler on the request's goroutine while a timer callback may       *)
(* answer 503 from another.  Every method of timeoutWriter holds its mutex *)
(* and is one step.  The context's deadline and the callback's timer are   *)
(* two timers of the same duration: either may be seen first.              *)
(*                                                                         *)
(* Header maps are reduced to whose headers they hold: those of the        *)
(* middleware around ("outer") or the handler's.  What the client receives *)
(* is reduced to the final status line, the headers it went out with and   *)
(* who wrote the body.                                                     *)
(*                                                                         *)
(* The names RTInit, RTNext, ... keep apart the specifications of the      *)
(* request and of the process that serves it (AppRun).                     *)
(***************************************************************************)
EXTENDS Integers

MaxStatus == 2 \* the status lines counted: a second one is one too many

VARIABLES
    ctxErr,    \* the request context: "none", "deadline" or "canceled"
    cb,        \* the timer and its callback: "armed", "fired", "done", "stopped"
    handler,   \* the request's goroutine
    returned,  \* the handler returned rather than panicked
    started, timedOut, answered, \* timeoutWriter
    real,      \* whose headers the real header map holds
    status,    \* whose status line was sent
    lines,     \* status lines sent
    sentWith,  \* whose headers went out with it
    body,      \* who wrote body bytes
    hijacked,
    saw        \* history: the handler saw the deadline before its response
               \* started

rtVars == <<ctxErr, saw, cb, handler, returned, started, timedOut, answered,
            real, status, lines, sentWith, body, hijacked>>
wire == <<status, lines, sentWith, body, hijacked>>

Owner == {"outer", "handler"}

RTTypeOK ==
    /\ ctxErr \in {"none", "deadline", "canceled"}
    /\ cb \in {"armed", "fired", "done", "stopped"}
    /\ handler \in {"running", "stopTimer", "waitCallback", "finish", "return", "end"}
    /\ returned \in BOOLEAN /\ hijacked \in BOOLEAN /\ saw \in BOOLEAN
    /\ started \in BOOLEAN /\ timedOut \in BOOLEAN /\ answered \in BOOLEAN
    /\ real \in Owner
    /\ status \in {"none", "handler", "timeout"}
    /\ lines \in 0..MaxStatus
    /\ sentWith \in Owner \cup {"none"}
    /\ body \subseteq {"handler", "timeout"}

RTInit ==
    /\ ctxErr = "none"
    /\ cb = "armed"
    /\ handler = "running"
    /\ returned = FALSE
    /\ started = FALSE /\ timedOut = FALSE /\ answered = FALSE
    /\ real = "outer"
    /\ status = "none"
    /\ lines = 0
    /\ sentWith = "none"
    /\ body = {}
    /\ hijacked = FALSE
    /\ saw = FALSE

(* What the connection does with a final WriteHeader. *)
SendStatus(who, headers) ==
    /\ status' = who
    /\ lines' = IF lines < MaxStatus THEN lines + 1 ELSE lines
    /\ sentWith' = headers

-----------------------------------------------------------------------------
(* Time and the client *)

DeadlinePasses ==
    /\ ctxErr = "none"
    /\ ctxErr' = "deadline"
    /\ UNCHANGED <<saw, cb, handler, returned, started, timedOut, answered, real,
                   wire>>

ClientLeaves ==
    /\ ctxErr = "none"
    /\ ctxErr' = "canceled"
    /\ UNCHANGED <<saw, cb, handler, returned, started, timedOut, answered, real,
                   wire>>

TimerFires ==
    /\ cb = "armed"
    /\ cb' = "fired"
    /\ UNCHANGED <<ctxErr, saw, handler, returned, started, timedOut, answered, real,
                   wire>>

-----------------------------------------------------------------------------
(* timeoutWriter, under its mutex *)

\* Faulty variant: the 503 goes out with whatever the real map holds.
AnswerLockedKeepingHeaders ==
    IF answered
    THEN UNCHANGED <<answered, real, wire>>
    ELSE /\ answered' = TRUE
         /\ SendStatus("timeout", real)
         /\ body' = body \cup {"timeout"}
         /\ UNCHANGED <<real, hijacked>>

\* Faulty variant: the real map is left without an owner.
AnswerLockedOwnHeaders ==
    IF answered
    THEN UNCHANGED <<answered, real, wire>>
    ELSE /\ answered' = TRUE
         /\ real' = "none"
         /\ SendStatus("timeout", "none")
         /\ body' = body \cup {"timeout"}
         /\ UNCHANGED hijacked

(* answerLocked: the real map is reset to the outer headers, then the 503 and
   its body go out, once. *)
AnswerLocked ==
    IF answered
    THEN UNCHANGED <<answered, real, wire>>
    ELSE /\ answered' = TRUE
         /\ real' = "outer"
         /\ SendStatus("timeout", "outer")
         /\ body' = body \cup {"timeout"}
         /\ UNCHANGED hijacked

\* Faulty variant: the callback leaves the answer to the handler's return.
CallbackSilent ==
    /\ cb = "fired"
    /\ cb' = "done"
    /\ timedOut' = (timedOut \/ ~started)
    /\ UNCHANGED <<ctxErr, saw, handler, returned, started, answered, real, wire>>

(* timeOut, in the callback: nothing once the response has started. *)
Callback ==
    /\ cb = "fired"
    /\ cb' = "done"
    /\ IF started
       THEN UNCHANGED <<timedOut, answered, real, wire>>
       ELSE timedOut' = TRUE /\ AnswerLocked
    /\ UNCHANGED <<ctxErr, saw, handler, returned, started>>

\* Faulty variant: only the flag is looked at, not the context.
RefusedByFlag == timedOut

Refused == timedOut \/ (~started /\ ctxErr = "deadline")
(* refuseLocked: the deadline, seen in the context, also sets the flag. *)
Refuse == IF Refused THEN timedOut' = TRUE ELSE UNCHANGED timedOut

(* An informational WriteHeader sends the handler's headers without starting
   the response. *)
WriteInformational ==
    /\ handler = "running"
    /\ IF started THEN UNCHANGED <<timedOut, real>>
       ELSE /\ Refuse
            /\ real' = IF Refused THEN real ELSE "handler"
    /\ UNCHANGED <<ctxErr, saw, cb, handler, returned, started, answered, wire>>

(* A final WriteHeader starts the response, unless it has started or is
   refused. *)
WriteHeader ==
    /\ handler = "running"
    /\ IF started THEN UNCHANGED <<timedOut, started, real, wire>>
       ELSE /\ Refuse
            /\ IF Refused
               THEN UNCHANGED <<started, real, wire>>
               ELSE /\ real' = "handler"
                    /\ started' = TRUE
                    /\ SendStatus("handler", "handler")
                    /\ UNCHANGED <<body, hijacked>>
    /\ UNCHANGED <<ctxErr, saw, cb, handler, returned, answered>>

(* Write and FlushError start the response too (with an implicit 200), Write
   sends bytes; both do nothing when refused. *)
StartedWith(bytes) ==
    /\ IF started
       THEN /\ UNCHANGED <<timedOut, started, real, status, lines, sentWith>>
            /\ body' = IF hijacked THEN body ELSE body \cup bytes
       ELSE /\ Refuse
            /\ IF Refused
               THEN UNCHANGED <<started, real, status, lines, sentWith, body>>
               ELSE /\ real' = "handler"
                    /\ started' = TRUE
                    /\ SendStatus("handler", "handler")
                    /\ body' = body \cup bytes
    /\ UNCHANGED <<ctxErr, saw, cb, handler, returned, answered, hijacked>>

Write == handler = "running" /\ StartedWith({"handler"})
FlushError == handler = "running" /\ StartedWith({})

(* Hijack starts the response only when the connection lets it. *)
Hijack ==
    /\ handler = "running"
    /\ ~hijacked
    /\ IF started THEN UNCHANGED timedOut ELSE Refuse
    /\ \/ UNCHANGED <<started, hijacked>>
       \/ ~Refused /\ started' = TRUE /\ hijacked' = TRUE
    /\ UNCHANGED <<ctxErr, saw, cb, handler, returned, answered, real, status, lines,
                   sentWith, body>>

(* SetReadDeadline, SetWriteDeadline and EnableFullDuplex only look. *)
SetDeadline ==
    /\ handler = "running"
    /\ IF started THEN UNCHANGED timedOut ELSE Refuse
    /\ UNCHANGED <<ctxErr, saw, cb, handler, returned, started, answered, real, wire>>

(* The handler changes a header: its own map until the response starts. *)
SetHeader ==
    /\ handler = "running"
    /\ real' = IF started THEN "handler" ELSE real
    /\ UNCHANGED <<ctxErr, saw, cb, handler, returned, started, timedOut, answered,
                   wire>>

-----------------------------------------------------------------------------
(* The handler looks at its context. *)
SeeDeadline ==
    /\ handler = "running"
    /\ ctxErr = "deadline" /\ ~started
    /\ saw' = TRUE
    /\ UNCHANGED <<ctxErr, cb, handler, returned, started, timedOut, answered,
                   real, wire>>

-----------------------------------------------------------------------------
(* New's deferred function *)

HandlerEnds ==
    /\ handler = "running"
    /\ handler' = "stopTimer"
    /\ returned' \in BOOLEAN
    /\ UNCHANGED <<ctxErr, saw, cb, started, timedOut, answered, real, wire>>

(* timer.Stop: a timer that has not fired never will. *)
StopTimer ==
    /\ handler = "stopTimer"
    /\ handler' = "waitCallback"
    /\ cb' = IF cb = "armed" THEN "stopped" ELSE cb
    /\ UNCHANGED <<ctxErr, saw, returned, started, timedOut, answered, real, wire>>

\* Faulty variant: the deferred call does not wait for a running callback.
WaitCallbackNot ==
    /\ handler = "waitCallback"
    /\ handler' = "finish"
    /\ UNCHANGED <<ctxErr, saw, cb, returned, started, timedOut, answered, real, wire>>

WaitCallback ==
    /\ handler = "waitCallback"
    /\ cb \in {"stopped", "done"}
    /\ handler' = "finish"
    /\ UNCHANGED <<ctxErr, saw, cb, returned, started, timedOut, answered, real, wire>>

Finish ==
    /\ handler = "finish"
    /\ handler' = "return"
    /\ \/ /\ started \/ answered
          /\ UNCHANGED <<timedOut, answered, real, wire>>
       \/ /\ ~started /\ ~answered /\ Refused
          /\ Refuse
          /\ IF returned THEN AnswerLocked ELSE UNCHANGED <<answered, real, wire>>
       \/ /\ ~started /\ ~answered /\ ~Refused
          /\ real' = "handler"
          /\ UNCHANGED <<timedOut, answered, wire>>
    /\ UNCHANGED <<ctxErr, saw, cb, returned, started>>

(* The middleware returns to net/http, which sends an implicit 200 when nothing
   was sent; a panic goes on to Recover, which answers instead. *)
ServeReturns ==
    /\ handler = "return"
    /\ handler' = "end"
    /\ IF returned /\ status = "none" /\ ~hijacked
       THEN /\ SendStatus("handler", real)
            /\ UNCHANGED <<body, hijacked>>
       ELSE UNCHANGED wire
    /\ UNCHANGED <<ctxErr, saw, cb, returned, started, timedOut, answered, real>>

Serving == StopTimer \/ WaitCallback \/ Finish \/ ServeReturns

RTNext ==
    \/ DeadlinePasses \/ ClientLeaves \/ TimerFires
    \/ Callback
    \/ WriteInformational \/ WriteHeader \/ Write \/ FlushError \/ Hijack
    \/ SetDeadline \/ SetHeader \/ SeeDeadline
    \/ HandlerEnds \/ Serving

RTSpec == RTInit /\ [][RTNext]_rtVars

(* The timer fires, its callback runs and the deferred function goes on; the
   handler need not return. *)
RTFairSpec == RTSpec /\ WF_rtVars(TimerFires) /\ WF_rtVars(Callback) /\ WF_rtVars(Serving)

-----------------------------------------------------------------------------
(* Properties *)

(* One final status line goes out, and a timeout response is all the
   middleware's own: none of the handler's headers (an informational response
   copies them into the real map) and none of its bytes. *)
TimeoutResponseClean ==
    /\ lines <= 1
    /\ status = "timeout" => sentWith = "outer" /\ body = {"timeout"}

(* A handler that reacts to the deadline loses to the timeout whichever
   goroutine runs first: nothing it does afterwards becomes the response. *)
DeadlineWins == saw => status # "handler" /\ ~hijacked

(* Once the request has ended, the callback no longer touches the connection,
   which net/http may be using for the next request. *)
QuietAfterEnd == [][handler = "end" => UNCHANGED wire]_rtVars

(* A handler that ignores its context and never responds does not keep the
   client waiting: the 503 goes out at the deadline. *)
AnsweredAtDeadline ==
    <>(started \/ handler # "running" \/ status = "timeout")
=============================================================================
